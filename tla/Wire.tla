-------------------------------- MODULE Wire --------------------------------
(***************************************************************************)
(* The header and message parsers of sensor-passive (frame.rs, icmpv6.rs,  *)
(* dhcp.rs, dns.rs).                                                       *)
(*                                                                         *)
(* A frame is a record of what its bytes say: the list of its VLAN tags,   *)
(* the chain of its IPv6 extension headers, the options of its messages.   *)
(* A list that the packet cuts off is followed by the flag `cut`.  Only a  *)
(* DNS name is kept as bytes: there the order of bytes is the point.       *)
(* A parser gives NoParse where the code gives None.                       *)
(***************************************************************************)
EXTENDS Integers, Sequences, FiniteSets, FiniteSetsExt

NoParse == [parsed |-> FALSE]

MaxVlanTags == 2
MaxExtensionHeaders == 8
MaxNdpOptions == 32
MaxDhcpOptions == 64
MaxPointerJumps == 16
MaxLabels == 64

-----------------------------------------------------------------------------
(* Ethernet: the outermost tag gives the VLAN. *)

ParseEthernet(f) ==
  IF f.short \/ Len(f.tags) > MaxVlanTags THEN NoParse
  ELSE [parsed |-> TRUE, type |-> f.type, mac |-> f.mac,
        vlan |-> IF f.tags = <<>> THEN "none" ELSE Head(f.tags)]

(* IPv4: a packet shorter than its own header has no payload; a length     *)
(* beyond what was captured is cut to it.                                  *)
ParseIpv4(p) ==
  IF p.version # 4 \/ p.header < 20 \/ p.bytes < p.header THEN NoParse
  ELSE [parsed |-> TRUE, src |-> p.src, dst |-> p.dst, proto |-> p.proto,
        payload |-> Min({Max({p.total, p.header}), p.bytes}) - p.header]

(* IPv6: the chain of extension headers, each with its length and, for a   *)
(* fragment, its offset, is walked at most MaxExtensionHeaders long.  "No  *)
(* next header" leaves no payload.                                         *)
ParseIpv6(p) ==
  LET end == Min({40 + p.total, p.bytes})
      offset(n) ==
        40 + FoldSet(LAMBDA i, sum : sum + p.chain[i].length, 0, 1..n)
      payload == IF p.proto = "nonext" /\ Len(p.chain) < MaxExtensionHeaders
                 THEN 0 ELSE end - offset(Len(p.chain))
  IN IF \/ p.version # 6 \/ p.bytes < 40
        \/ Len(p.chain) > MaxExtensionHeaders
        \/ \E n \in DOMAIN p.chain : p.chain[n].fragment > 0
        \/ offset(Len(p.chain)) > end
     THEN NoParse
     ELSE [parsed |-> TRUE, src |-> p.src, dst |-> p.dst, proto |-> p.proto,
           payload |-> payload]

(* UDP and TCP need their fixed header. *)
ParseUdp(ip, p) ==
  IF ip.payload < 8 THEN NoParse
  ELSE [parsed |-> TRUE, sport |-> p.sport, dport |-> p.dport]

ParseTcp(ip, p) ==
  IF ip.payload < 20 \/ p.offset < 20 THEN NoParse
  ELSE [parsed |-> TRUE, sport |-> p.sport, dport |-> p.dport,
        synack |-> {"syn", "ack"} \subseteq p.flags]

-----------------------------------------------------------------------------
(* Neighbour discovery: the first option of the wanted kind; an option of  *)
(* length zero, a cut one or too many of them void the message.            *)

LinkLayerOption(m, wanted) ==
  LET options == m.options
      wantedAt == {n \in DOMAIN options : options[n].kind = wanted}
      last == IF wantedAt = {} THEN Len(options) ELSE Min(wantedAt)
  IN IF \/ \E n \in 1..last : options[n].units = 0
        \/ last > MaxNdpOptions
        \/ wantedAt = {} /\ m.cut
     THEN NoParse
     ELSE [parsed |-> TRUE,
           mac |-> IF wantedAt = {} THEN "none" ELSE options[last].mac]

(* Whose address the message tells, and its link address if it names one. *)
ParseNeighborDiscovery(m) ==
  IF m.code # 0 \/ m.type \notin {134, 135, 136} THEN NoParse
  ELSE LET option == LinkLayerOption(m, IF m.type = 136 THEN 2 ELSE 1) IN
       IF ~option.parsed THEN NoParse
       ELSE [parsed |-> TRUE, mac |-> option.mac,
             address |-> IF m.type = 136 THEN m.target ELSE "source"]

-----------------------------------------------------------------------------
(* DHCP options: up to the end marker, a length beyond the packet, or the  *)
(* limit; the first of a code counts, padding does not.                    *)

DhcpOption(m, code) ==
  LET real == SelectSeq(m.options, LAMBDA o : o.code # "pad")
      ends == {n \in DOMAIN real : real[n].code = "end"}
      stop == Min({MaxDhcpOptions + 1, Len(real) + 1} \cup ends)
      at == {n \in 1..stop - 1 : real[n].code = code}
  IN IF at = {} THEN "none" ELSE real[Min(at)].value

(* Type and client are needed; the address is the server's word, else the  *)
(* client's wish.                                                          *)
ParseDhcp(m) ==
  IF ~m.cookie \/ DhcpOption(m, "type") = "none" THEN NoParse
  ELSE [parsed |-> TRUE, mac |-> m.mac, type |-> DhcpOption(m, "type"),
        address |-> IF m.yours # "none" THEN m.yours
                    ELSE DhcpOption(m, "requested"),
        server |-> DhcpOption(m, "server"),
        host |-> DhcpOption(m, "host"),
        class |-> DhcpOption(m, "class"), prl |-> DhcpOption(m, "prl")]

-----------------------------------------------------------------------------
(* DNS names: labels, and pointers that must point back.  Positions count  *)
(* from 0; a byte of 192 and more begins a pointer.  `resume` is where the *)
(* message goes on after the name: behind the first pointer, or the end.   *)

NameState ==
  [cursor : Nat, labels : Seq(Seq(Nat)), jumps : Nat, resume : Nat \cup {-1}]

ReadName(data, start) ==
  LET byte(i) == data[i + 1]
      first(s, here) == IF s.resume = -1 THEN here ELSE s.resume
      read[s \in NameState] ==
        IF s.cursor >= Len(data) THEN NoParse
        ELSE IF byte(s.cursor) >= 192 THEN
          IF s.cursor + 1 >= Len(data) THEN NoParse
          ELSE LET target ==
                     (byte(s.cursor) - 192) * 256 + byte(s.cursor + 1)
               IN IF target >= s.cursor \/ s.jumps = MaxPointerJumps
                  THEN NoParse
                  ELSE read[[s EXCEPT !.cursor = target, !.jumps = @ + 1,
                                      !.resume = first(s, s.cursor + 2)]]
        ELSE IF byte(s.cursor) = 0
        THEN [parsed |-> TRUE, labels |-> s.labels,
              next |-> first(s, s.cursor + 1)]
        ELSE LET end == s.cursor + 1 + byte(s.cursor) IN
             IF end > Len(data) \/ Len(s.labels) = MaxLabels THEN NoParse
             ELSE read[[s EXCEPT !.cursor = end,
                          !.labels =
                            Append(@, SubSeq(data, s.cursor + 2, end))]]
  IN read[[cursor |-> start, labels |-> <<>>, jumps |-> 0, resume |-> -1]]

(* A message counts only if the name of its question can be read. *)
ParseDns(m) ==
  LET name == ReadName(m.data, m.at) IN
  IF m.short \/ ~name.parsed \/ name.next + 2 > Len(m.data) THEN NoParse
  ELSE [parsed |-> TRUE, response |-> m.response, name |-> name.labels,
        resume |-> name.next]

(* The reference for `next`: the first zero or pointer byte met by going   *)
(* from label to label, whatever pointers lead to.                         *)
NameEnd(data, start) ==
  LET byte(i) == data[i + 1]
      walk[i \in Nat] ==
        IF byte(i) >= 192 THEN i + 2
        ELSE IF byte(i) = 0 THEN i + 1 ELSE walk[i + 1 + byte(i)]
  IN walk[start]

=============================================================================
