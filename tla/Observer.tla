------------------------------ MODULE Observer ------------------------------
(***************************************************************************)
(* From a frame to observations (sensor-passive observer.rs and flow.rs).  *)
(*                                                                         *)
(* An observer is a record: the open flow windows, the cache that keeps a  *)
(* claim from being told again too soon, and what it has to hand out.      *)
(* `told` and `cleared` are history: when each claim was last told, and    *)
(* when the cache was last emptied.  What an observation says beyond the   *)
(* device it is about is left out.                                         *)
(***************************************************************************)
EXTENDS Wire, Registry

CONSTANTS
  SuppressFor,    (* DEFAULT_SUPPRESSION_SECS, in ticks                    *)
  MaxSuppressed,  (* MAX_SUPPRESSION_ENTRIES                               *)
  Window,         (* flow_window_secs, in ticks                            *)
  MaxFlows,       (* max_tracked_flows                                     *)
  NotAHost        (* addresses that are unspecified or multicast           *)

ASSUME ObserverAssumption ==
  {SuppressFor, MaxSuppressed, Window, MaxFlows} \subseteq Nat \ {0}

Empty == [k \in {} |-> 0]

Insert(f, key, value) ==
  [k \in DOMAIN f \cup {key} |-> IF k = key THEN value ELSE f[k]]

NewObserver ==
  [flows |-> Empty, skipped |-> 0, seen |-> Empty, out |-> <<>>,
   passed |-> 0, told |-> Empty, cleared |-> -1]

(* An observation: its kind, the protocol it comes from, and the fields    *)
(* the registry reads.                                                     *)
Observation(kind, by, ip) ==
  [kind |-> kind, by |-> by, ip |-> ip, other |-> "none", mac |-> "none",
   host |-> "none", prl |-> "none", class |-> "none", banner |-> "none",
   device |-> "none", server |-> "none", to |-> "none", packets |-> 0]

Asset(by, ip, mac, host) ==
  [Observation("asset", by, ip) EXCEPT !.mac = mac, !.host = host]
Relationship(by, from, to) ==
  [Observation("relationship", by, from) EXCEPT !.other = to]

Addresses(o) == {o.ip, o.other} \ {"none"}

-----------------------------------------------------------------------------
(* Suppression. *)

Suppressed(ob, key, t) ==
  key \in DOMAIN ob.seen /\ t - ob.seen[key] < SuppressFor

(* A full cache is emptied rather than allowed to grow. *)
Allow(ob, key, t) ==
  LET full == Cardinality(DOMAIN ob.seen) >= MaxSuppressed IN
  [ob EXCEPT !.seen = Insert(IF full THEN Empty ELSE @, key, t),
             !.told = Insert(@, key, t),
             !.cleared = IF full THEN t ELSE @]

Tell(ob, key, t, what) ==
  IF Suppressed(ob, key, t) THEN ob
  ELSE [Allow(ob, key, t) EXCEPT !.out = @ \o what]

(* Slip: the cache is pruned as if it held flow windows. *)
ForgetEarly(ob, t) ==
  [ob EXCEPT !.seen = Restrict(@, {k \in DOMAIN @ : t - @[k] < Window})]

Forget(ob, t) ==
  [ob EXCEPT !.seen =
     Restrict(@, {k \in DOMAIN @ : t - @[k] < SuppressFor})]

-----------------------------------------------------------------------------
(* Flow windows. *)

(* Slip: equal ports are not ordered by address. *)
NormalizedByPort(src, sport, dst, dport, proto) ==
  IF sport >= dport
  THEN [client |-> <<src, sport>>, server |-> <<dst, dport>>, proto |-> proto]
  ELSE [client |-> <<dst, dport>>, server |-> <<src, sport>>, proto |-> proto]

(* Both directions have one key: the lower port is the service, of equal   *)
(* ones the lower address.                                                 *)
Normalized(src, sport, dst, dport, proto) ==
  IF sport > dport \/ (sport = dport /\ Rank[src] > Rank[dst])
  THEN [client |-> <<src, sport>>, server |-> <<dst, dport>>, proto |-> proto]
  ELSE [client |-> <<dst, dport>>, server |-> <<src, sport>>, proto |-> proto]

Conversation(key) == <<{key.client, key.server}, key.proto>>

(* In a full table a new flow is dropped, a known one goes on. *)
ObserveFlow(ob, key, t) ==
  IF key \in DOMAIN ob.flows
  THEN [ob EXCEPT !.flows[key].packets = @ + 1, !.flows[key].last = t]
  ELSE IF Cardinality(DOMAIN ob.flows) >= MaxFlows
  THEN [ob EXCEPT !.skipped = @ + 1]
  ELSE [ob EXCEPT !.flows = Insert(@, key, [packets |-> 1, last |-> t])]

RecordFlow(ob, c, src, sport, dst, dport, proto, t) ==
  IF "flows" \notin c.policy THEN ob
  ELSE [ObserveFlow(ob, Normalized(src, sport, dst, dport, proto), t)
          EXCEPT !.passed = @ + 1]

FlowObservation(ob, key) ==
  [Observation("flow", "flow", key.client[1])
     EXCEPT !.other = key.server[1], !.packets = ob.flows[key].packets]

HandOut(ob, keys) ==
  LET order == SetToSeq(keys) IN
  [ob EXCEPT !.out = @ \o [n \in DOMAIN order |->
                              FlowObservation(ob, order[n])],
             !.flows = Restrict(@, DOMAIN @ \ keys)]

(* A window is over when its flow has been silent for as long. *)
Expire(ob, t) ==
  HandOut(Forget(ob, t),
          {k \in DOMAIN ob.flows : t - ob.flows[k].last >= Window})

Drain(ob) == HandOut(ob, DOMAIN ob.flows)

-----------------------------------------------------------------------------
(* The protocols.  c: the policy, the addresses and the domains that are   *)
(* excluded.                                                               *)

(* An ARP probe, which has no sender address, tells nothing. *)
HandleArp(ob, c, arp, t) ==
  IF ~arp.valid \/ arp.ip \in NotAHost \/ arp.mac = "zero"
       \/ arp.ip \in c.excluded
  THEN ob
  ELSE Tell(ob, <<"arp", arp.ip, arp.mac>>, t,
            <<Asset("arp", arp.ip, arp.mac, "none")>>)

(* The option names the link address, else the frame does. *)
HandleIcmpv6(ob, c, ip, m, mac, t) ==
  LET ndp == ParseNeighborDiscovery(m) IN
  IF ~ndp.parsed THEN ob
  ELSE LET address == IF ndp.address = "source" THEN ip.src ELSE ndp.address
           link == IF ndp.mac = "none" THEN mac ELSE ndp.mac
       IN IF address \in NotAHost \cup c.excluded THEN ob
          ELSE Tell(ob, <<"ndp", address, link>>, t,
                    <<Asset("ndp", address, link, "none")>>)

(* Every message is told of the client; a confirmed lease is a device and  *)
(* its server as well.                                                     *)
HandleDhcp(ob, m, t) ==
  LET d == ParseDhcp(m) IN
  IF ~d.parsed THEN ob
  ELSE LET lease == d.type = "ack" /\ d.address # "none" IN
       Tell(ob, <<"dhcp", d.mac, d.type>>, t,
         <<[Observation("dhcp", "dhcp", d.address) EXCEPT
              !.other = d.server, !.mac = d.mac, !.host = d.host,
              !.prl = d.prl, !.class = d.class]>>
         \o (IF lease THEN <<Asset("dhcp", d.address, d.mac, d.host)>>
             ELSE <<>>)
         \o (IF lease /\ d.server # "none"
             THEN <<Relationship("dhcp", d.address, d.server)>> ELSE <<>>))

(* Responses only: each service, then the host's own name. *)
HandleMdns(ob, src, m, t) ==
  IF ~ParseDns(m).parsed \/ ~m.response THEN ob
  ELSE LET service(o, s) ==
             Tell(o, <<"mdns", src, s>>, t,
                  <<[Observation("advertises", "mdns", src)
                       EXCEPT !.to = s]>>)
           told == FoldLeft(service, ob, m.services)
       IN IF m.host = "none" THEN told
          ELSE Tell(told, <<"mdns-host", src, m.host>>, t,
                    <<Asset("mdns", src, "none", m.host)>>)

HandleSsdp(ob, src, m, t) ==
  IF m.message \notin {"notify", "response"} THEN ob
  ELSE Tell(ob, <<"ssdp", src, m.device>>, t,
            <<Asset("ssdp", src, "none", "none"),
              [Observation("advertises", "ssdp", src)
                 EXCEPT !.device = m.device, !.server = m.server]>>)

IsExcludedDomain(name, domains) ==
  \E d \in domains : d # <<>> /\ IsSuffix(d, name)

(* A response is about the client it goes to, and names its resolver. *)
HandleDns(ob, c, ip, m, t) ==
  LET d == ParseDns(m) IN
  IF ~d.parsed \/ IsExcludedDomain(d.name, c.domains) THEN ob
  ELSE LET client == IF d.response THEN ip.dst ELSE ip.src
           server == IF d.response THEN ip.src ELSE ip.dst
           key == <<"dns", client, <<d.name, d.response>>>>
           told == Tell(ob, key, t,
                        <<[Observation("dns", "dns", client)
                             EXCEPT !.other = server]>>)
       IN IF ~d.response \/ Suppressed(ob, key, t) THEN told
          ELSE Tell(told, <<"resolver", client, server>>, t,
                    <<Relationship("dns", client, server)>>)

(* The first protocol that is allowed and whose port it is. *)
HandleUdp(ob, c, ip, u, m, t) ==
  LET on(module, ports) ==
        module \in c.policy /\ {u.sport, u.dport} \cap ports # {}
  IN IF on("dhcp", {67, 68}) THEN HandleDhcp(ob, m, t)
     ELSE IF on("mdns", {5353}) THEN HandleMdns(ob, ip.src, m, t)
     ELSE IF on("ssdp", {1900}) THEN HandleSsdp(ob, ip.src, m, t)
     ELSE IF on("dns", {53}) THEN HandleDns(ob, c, ip, m, t)
     ELSE ob

(* A SYN-ACK proves a service. *)
HandleTcp(ob, ip, tcp, t) ==
  IF ~tcp.synack THEN ob
  ELSE Tell(ob, <<"svc", ip.src, tcp.sport>>, t,
            <<Observation("service", "tcp", ip.src)>>)

(* Slip: only the sender is looked at. *)
ExcludedSender(c, ip) == ip.src \in c.excluded

ExcludedEnd(c, ip) == {ip.src, ip.dst} \cap c.excluded # {}

(* Nothing of an excluded address, not even its flow. *)
HandleIp(ob, c, ip, p, mac, t) ==
  LET u == ParseUdp(ip, p.body)
      s == ParseTcp(ip, p.body)
      flow(o, sport, dport, proto) ==
        RecordFlow(o, c, ip.src, sport, ip.dst, dport, proto, t)
  IN IF ExcludedEnd(c, ip) THEN ob
     ELSE CASE ip.proto = "udp" /\ u.parsed ->
                 flow(HandleUdp(ob, c, ip, u, p.body, t),
                      u.sport, u.dport, "udp")
            [] ip.proto = "tcp" /\ s.parsed ->
                 flow(HandleTcp(ob, ip, s, t), s.sport, s.dport, "tcp")
            [] ip.proto = "icmpv6" ->
                 flow(HandleIcmpv6(ob, c, ip, p.body, mac, t), 0, 0, "icmp")
            [] ip.proto = "icmp" -> flow(ob, 0, 0, "icmp")
            [] OTHER -> ob

HandleFrame(ob, c, f, t) ==
  LET e == ParseEthernet(f) IN
  IF ~e.parsed THEN ob
  ELSE CASE e.type = "arp" /\ "arp" \in c.policy ->
              HandleArp(ob, c, f.arp, t)
         [] e.type \in {"ipv4", "ipv6"} ->
              LET ip == IF e.type = "ipv4" THEN ParseIpv4(f.ip)
                        ELSE ParseIpv6(f.ip)
              IN IF ip.parsed THEN HandleIp(ob, c, ip, f.ip, e.mac, t) ELSE ob
         [] OTHER -> ob

(* A frame that is what it seems: a port is a number, what arrives at the  *)
(* port of a protocol is one of its messages, and a DHCP message has a     *)
(* client.                                                                 *)
WellFormed(f) ==
  f.type \in {"ipv4", "ipv6"} /\ f.ip.proto \in {"udp", "tcp"} =>
    LET m == f.ip.body IN
    /\ m.sport \in Nat /\ m.dport \in Nat
    /\ f.ip.proto = "udp" =>
         /\ 5353 \in {m.sport, m.dport} =>
              m.services \in Seq(Range(m.services))
         /\ {67, 68} \cap {m.sport, m.dport} # {} => m.mac # "none"

(* The addresses that may have a flow; no two of them compare as equal.    *)
Ends(f) == IF f.type \in {"ipv4", "ipv6"} THEN {f.ip.src, f.ip.dst} ELSE {}
Hosts(c) == UNION {Ends(f) : f \in c.frames}

Ordered(S) ==
  \A a, b \in S : Rank[a] \in Int /\ (Rank[a] = Rank[b] => a = b)

=============================================================================
