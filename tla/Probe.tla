------------------------------- MODULE Probe --------------------------------
(***************************************************************************)
(* The probes themselves: what a connection, an echo and an SNMP answer    *)
(* say (crates/sensor-active/src/probe.rs, snmp.rs).  Packets are          *)
(* sequences of bytes; text is kept as its bytes.                          *)
(***************************************************************************)
EXTENDS Integers, Sequences, SequencesExt

-----------------------------------------------------------------------------
(* TCP: a connection is accepted, refused, or fails or takes too long. *)

PortState(outcome) ==
  CASE outcome = "accepted" -> "open"
    [] outcome = "refused" -> "closed"
    [] OTHER -> "filtered"

(* Only an open port has a banner, when it says something in time. *)
TcpBanner(outcome, said) ==
  [state |-> PortState(outcome),
   banner |-> IF outcome = "accepted" /\ said # <<>> THEN {said} ELSE {}]

-----------------------------------------------------------------------------
(* ICMP. *)

Word(bytes, i) ==
  bytes[i] * 256 + (IF i < Len(bytes) THEN bytes[i + 1] ELSE 0)

Carried(sum) == (sum % 65536) + (sum \div 65536)

(* Two carries are enough for the packets of this sensor. *)
InternetChecksum(bytes) ==
  LET sum == FoldLeft(LAMBDA total, i : total + Word(bytes, i), 0,
                      [k \in 1..((Len(bytes) + 1) \div 2) |-> 2 * k - 1])
  IN 65535 - Carried(Carried(sum))

TwoBytes(n) == <<n \div 256, n % 256>>

EchoPacket(sum, id, seq, payload) ==
  <<8, 0>> \o TwoBytes(sum) \o TwoBytes(id) \o TwoBytes(seq) \o payload

BuildEchoRequest(id, seq, payload) ==
  EchoPacket(InternetChecksum(EchoPacket(0, id, seq, payload)),
             id, seq, payload)

(* With or without an IPv4 header; whose answer it is is not asked. *)
IsEchoReply(bytes) ==
  \/ Len(bytes) > 0 /\ bytes[1] = 0
  \/ /\ Len(bytes) > 0 /\ bytes[1] \div 16 = 4
     /\ LET header == (bytes[1] % 16) * 4
        IN Len(bytes) > header /\ bytes[header + 1] = 0

-----------------------------------------------------------------------------
(* BER. *)

Tlv(tag, value) ==
  <<tag>> \o (IF Len(value) < 128 THEN <<Len(value)>>
              ELSE <<130>> \o TwoBytes(Len(value))) \o value

(* Four bytes; numbers of less than 25 bits here. *)
Integer(n) ==
  Tlv(2, <<IF n < 0 THEN 255 ELSE 0>> \o
         LET low == n % 16777216
         IN <<low \div 65536, (low \div 256) % 256, low % 256>>)

NoValue == [ok |-> FALSE, tag |-> 0, value |-> <<>>, rest |-> <<>>]

(* The length is in one byte, or in the one or two that follow it. *)
ReadAny(bytes) ==
  LET long == Len(bytes) >= 2 /\ bytes[2] >= 128
      size == IF long THEN bytes[2] - 128 ELSE 0
      head == 2 + size
      length == CASE ~long -> bytes[2]
                  [] size = 1 -> bytes[3]
                  [] size = 2 -> bytes[3] * 256 + bytes[4]
  IN IF Len(bytes) < head THEN NoValue
     ELSE IF long /\ size \notin 1..2 THEN NoValue
     ELSE IF Len(bytes) < head + length THEN NoValue
     ELSE [ok |-> TRUE, tag |-> bytes[1],
           value |-> SubSeq(bytes, head + 1, head + length),
           rest |-> SubSeq(bytes, head + length + 1, Len(bytes))]

ReadBytes(tag, bytes) ==
  IF ReadAny(bytes).tag = tag THEN ReadAny(bytes) ELSE NoValue

ReadInteger(bytes) ==
  LET read == ReadBytes(2, bytes) IN
  IF Len(read.value) \notin 1..4 THEN [ok |-> FALSE, n |-> 0, rest |-> <<>>]
  ELSE [ok |-> TRUE, rest |-> read.rest,
        n |-> FoldLeft(LAMBDA n, byte : n * 256 + byte,
                       IF read.value[1] >= 128 THEN -1 ELSE 0, read.value)]

-----------------------------------------------------------------------------
(* SNMP: the four system variables, and nothing but GET. *)

Oids == <<1, 2, 5, 6>>
Oid(column) == <<43, 6, 1, 2, 1, 1, column, 0>>

Message(kind, community, id, varbinds) ==
  Tlv(48, Integer(1) \o Tlv(4, community) \o
          Tlv(kind, Integer(id) \o Integer(0) \o Integer(0) \o
                    Tlv(48, varbinds)))

Varbind(oid, value) == Tlv(48, Tlv(6, oid) \o value)

BuildGetRequest(community, id) ==
  Message(160, community, id,
          FlattenSeq([i \in DOMAIN Oids |->
                        Varbind(Oid(Oids[i]), Tlv(5, <<>>))]))

(* A variable that was asked for; strings and OIDs have a value, the rest  *)
(* counts as absent. *)
ReadVarbind(bytes) ==
  LET varbind == ReadBytes(48, bytes)
      oid == ReadBytes(6, varbind.value)
      value == ReadAny(oid.rest)
  IN [ok |-> /\ varbind.ok /\ oid.ok /\ value.ok /\ value.rest = <<>>
             /\ \E i \in DOMAIN Oids : oid.value = Oid(Oids[i]),
      oid |-> oid.value, rest |-> varbind.rest,
      value |-> IF value.tag \in {4, 6} THEN {value.value} ELSE {}]

(* {} when the answer is none to this request; a later value of the same   *)
(* variable replaces an earlier one. *)
ParseResponse(bytes, community, id) ==
  LET version == ReadInteger(ReadBytes(48, bytes).value)
      name == ReadBytes(4, version.rest)
      pdu == ReadBytes(162, name.rest)
      request == ReadInteger(pdu.value)
      status == ReadInteger(request.rest)
      index == ReadInteger(status.rest)
      list == ReadBytes(48, index.rest)
      bind[n \in 1..4] ==
        ReadVarbind(IF n = 1 THEN list.value ELSE bind[n - 1].rest)
      done == {n \in 1..4 : /\ bind[n].rest = <<>>
                            /\ \A k \in 1..n : bind[k].ok}
      read == IF list.value = <<>> THEN {} ELSE
              {n \in 1..4 : \A k \in done : n <= k}
  IN IF /\ version.ok /\ version.n = 1 /\ name.ok /\ name.value = community
        /\ pdu.ok /\ request.ok /\ request.n = id
        /\ status.ok /\ status.n = 0 /\ index.ok /\ list.ok
        /\ list.value = <<>> \/ done # {}
       THEN {[i \in {j \in DOMAIN Oids : \E n \in read :
                       bind[n].oid = Oid(Oids[j])} |->
                bind[CHOOSE n \in read :
                       /\ bind[n].oid = Oid(Oids[i])
                       /\ \A k \in read :
                            bind[k].oid = Oid(Oids[i]) => k <= n].value]}
       ELSE {}

=============================================================================
