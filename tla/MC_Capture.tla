----------------------------- MODULE MC_Capture -----------------------------
EXTENDS Capture

CONSTANTS lan, wan, eth

Remote == {lan, wan}
Local == {eth}

-----------------------------------------------------------------------------
(* Streams. *)

R(c, o) == [cap |-> c, orig |-> o]
Stream(m, snap, records) ==
  [magic |-> m, version |-> 2, snaplen |-> snap, link |-> Ethernet,
   records |-> records]

Plain == {Stream("tcpdump", 4, <<R(2, 9)>>)}
Three == {Stream("kuznetzov", 4, <<R(1, 1), R(4, 9), R(2, 2)>>)}

(* Frames of every length around the limits, after a good one. *)
Good == {
  Stream("tcpdump", 4, <<R(1, 1), R(4, 9), R(2, 2)>>),
  Stream("nanosecond", 20, <<R(20, 20), R(20, 21)>>),
  Stream("kuznetzov", 4, <<R(18, 18), R(1, 5)>>)}

Broken ==
  {Stream(m, 4, <<R(3, 3), r>>) : m \in {"tcpdump", "kuznetzov"},
     r \in {R(0, 4), R(5, 5), R(19, 19), R(21, 21), R(4, 3)}} \cup
  {Stream("kuznetzov", 20, <<R(21, 21)>>),
   Stream("html", 4, <<R(3, 3)>>), Stream("tcpdump", 0, <<R(3, 3)>>),
   Stream("tcpdump", 21, <<R(3, 3)>>),
   [Stream("tcpdump", 4, <<R(3, 3)>>) EXCEPT !.version = 3],
   [Stream("kuznetzov", 4, <<R(5, 5)>>) EXCEPT !.link = 105],
   [Stream("tcpdump", 4, <<R(3, 3)>>) EXCEPT !.link = 105]}

-----------------------------------------------------------------------------
(* Frames. *)

Frame(type) ==
  [short |-> FALSE, type |-> type, mac |-> "m1", tags |-> <<>>]
Runt == {[Frame("other") EXCEPT !.short = TRUE]}

Arp(ip, mac) ==
  Frame("arp") @@ [arp |-> [valid |-> TRUE, ip |-> ip, mac |-> mac]]

Ip4(src, dst, proto, body) ==
  Frame("ipv4") @@
  [ip |-> [version |-> 4, header |-> 20, bytes |-> 60, total |-> 60,
           src |-> src, dst |-> dst, proto |-> proto, body |-> body]]
Ip6(src, dst, proto, chain, body) ==
  Frame("ipv6") @@
  [ip |-> [version |-> 6, bytes |-> 100, total |-> 60, chain |-> chain,
           src |-> src, dst |-> dst, proto |-> proto, body |-> body]]

Ports(s, d) == [sport |-> s, dport |-> d]
Udp(src, s, dst, d, message) == Ip4(src, dst, "udp", Ports(s, d) @@ message)
Tcp(src, s, dst, d, flags) ==
  Ip4(src, dst, "tcp", Ports(s, d) @@ [offset |-> 20, flags |-> flags])

Ndp(src, type, target, options) ==
  Ip6(src, "f2", "icmpv6", <<>>,
      [type |-> type, code |-> 0, target |-> target, options |-> options,
       cut |-> FALSE])
LinkOption(kind, mac) == [kind |-> kind, units |-> 1, mac |-> mac]

Option(code, value) == [code |-> code, value |-> value]
Dhcp(type, yours, options) ==
  Udp("none", 68, "all", 67,
      [cookie |-> TRUE, mac |-> "m1", yours |-> yours,
       options |-> <<Option("pad", "none"), Option("type", type)>>
                   \o options])

Dns(response, data, at) ==
  [short |-> FALSE, response |-> response, data |-> data, at |-> at,
   services |-> <<>>, host |-> "none"]
Mdns(src, services, host) ==
  Udp(src, 5353, "all", 5353,
      [Dns(TRUE, <<0, 0, 1>>, 0) EXCEPT !.services = services, !.host = host])
Ssdp(src, message, device, server) ==
  Udp(src, 1900, "all", 1900,
      [message |-> message, device |-> device, server |-> server])

All == {"arp", "dhcp", "mdns", "ssdp", "dns", "flows"}

-----------------------------------------------------------------------------
(* Signatures, as far as the frames name them (signature.rs, oui.rs). *)

Vendors == [m1 |-> "AVM"]
OfVendor == [AVM |-> [value |-> "router", weight |-> 150]]
OfRequestList == [windows |-> [value |-> "Windows", weight |-> 140]]
OfClass == [msft |-> [os |-> "Windows", device |-> "computer", weight |-> 120],
            brother |-> [os |-> "none", device |-> "printer", weight |-> 140]]
OfService == [ipp |-> [value |-> "printer", weight |-> 180],
              smb |-> [value |-> "nas", weight |-> 120],
              ssh |-> [value |-> "computer", weight |-> 100]]
OfUpnp == [gateway |-> [value |-> "router", weight |-> 180]]
OfBanner == [dropbear |-> [value |-> "embedded", weight |-> 120]]
Order ==
  [a |-> 1, b |-> 2, x |-> 3, all |-> 4, f1 |-> 5, f2 |-> 6, none |-> 0,
   computer |-> 1, embedded |-> 2, nas |-> 3, printer |-> 4, router |-> 5,
   Windows |-> 6]

-----------------------------------------------------------------------------
(* Casts. *)

Nobody ==
  [workers |-> {}, streams |-> Plain, broken |-> {}, outages |-> 0,
   chunks |-> {61}, frames |-> Runt, reads |-> 0, readError |-> FALSE,
   policy |-> All, excluded |-> {}, domains |-> {}, scanned |-> {},
   ticks |-> 0, stops |-> FALSE, address |-> TRUE]

(* The stream and its decoder; two workers that share the record; the end  *)
(* of the sensor; an address that is none.                                 *)
Streaming == {
  [Nobody EXCEPT !.workers = {lan}, !.streams = Good, !.broken = Broken,
                 !.outages = 1, !.chunks = {5, 24, 61}],
  [Nobody EXCEPT !.workers = {lan, wan}, !.outages = 1,
                 !.chunks = {24, 61}],
  [Nobody EXCEPT !.workers = {lan}, !.outages = 1, !.stops = TRUE,
                 !.frames = {Arp("a", "m1"),
                             Ip4("a", "b", "icmp", [k |-> 0])}],
  [Nobody EXCEPT !.workers = {lan}, !.stops = TRUE, !.address = FALSE]}

(* Flows through silence, reconnects and the end. *)
Flowing ==
  LET tcp == {Tcp("a", 9, "b", 1, {"syn"}), Tcp("b", 1, "a", 9, {"ack"}),
              Udp("a", 5, "b", 5, [k |-> 0]), Udp("b", 5, "a", 5, [k |-> 0])}
  IN {
  [Nobody EXCEPT !.workers = {lan}, !.streams = Three, !.outages = 1,
                 !.frames = tcp, !.policy = {"flows"}, !.ticks = 2],
  [Nobody EXCEPT !.workers = {eth}, !.reads = 3, !.stops = TRUE,
                 !.frames = tcp \cup {Ip4("a", "b", "icmp", [k |-> 0])},
                 !.policy = {"flows"}, !.ticks = 2],
  [Nobody EXCEPT !.workers = {eth}, !.reads = 1, !.readError = TRUE,
                 !.frames = tcp]}

(* Claims, at the pace of the network. *)
Claiming == {
  [Nobody EXCEPT !.workers = {eth}, !.reads = 3, !.ticks = 2,
                 !.frames = {Arp("a", "m1"), Arp("x", "m2"),
                             Mdns("a", <<"ipp", "smb">>, "h")},
                 !.policy = {"arp", "mdns"}, !.excluded = {"x"}]}

(* Devices: what DHCP says of them, what they and a scan say, and how they *)
(* are forgotten.                                                          *)
Fingerprinting == {
  [Nobody EXCEPT !.workers = {eth}, !.reads = 3, !.stops = TRUE,
     !.frames = {
       Dhcp("discover", "none", <<Option("prl", "windows")>>),
       Dhcp("ack", "x", <<Option("server", "b"), Option("host", "h"),
                          Option("class", "msft")>>),
       Arp("b", "m1")},
     !.policy = {"arp", "dhcp"}, !.excluded = {"x"}],
  [Nobody EXCEPT !.workers = {eth}, !.reads = 2,
     !.frames = {Mdns("a", <<"ipp", "ssh">>, "none"),
                 Ssdp("a", "notify", "gateway", "v1")},
     !.policy = {"mdns", "ssdp"},
     !.scanned = {[Observation("service", "scan", "a")
                     EXCEPT !.banner = "dropbear"]}],
  [Nobody EXCEPT !.workers = {eth}, !.reads = 2, !.ticks = 2,
     !.frames = {Arp("a", "m1"), Arp("b", "m2"), Arp("x", "m3")},
     !.scanned = {[Observation("service", "scan", "a")
                     EXCEPT !.banner = "dropbear"]}]}

(* Every branch of the parsers, one frame at a time. *)
Parsing ==
  LET tagged(n) == [Arp("a", "m1") EXCEPT !.tags = [i \in 1..n |-> "v1"]]
      four == Tcp("a", 9, "b", 1, {"syn", "ack"})
      step == [length |-> 8, fragment |-> 0]
      six(chain) == Ip6("f1", "f2", "icmpv6", chain,
                        [type |-> 136, code |-> 0, target |-> "f1",
                         options |-> <<LinkOption(1, "m2"),
                                       LinkOption(2, "m3")>>,
                         cut |-> FALSE])
      query(data, at) == Udp("a", 9, "b", 53, Dns(FALSE, data, at))
  IN {
  [Nobody EXCEPT !.workers = {eth}, !.reads = 1, !.ticks = 1,
     !.excluded = {"x"}, !.domains = {<<<<7>>>>, <<>>},
     !.frames =
       {tagged(n) : n \in 0..3} \cup
       {[four EXCEPT !.ip.total = n, !.ip.bytes = m] :
          n \in {0, 27, 40, 90}, m \in {19, 20, 39, 40}} \cup
       {[four EXCEPT !.ip.version = 6], [four EXCEPT !.ip.header = 16],
        [four EXCEPT !.ip.body.offset = 16]} \cup
       {six([i \in 1..n |-> step]) : n \in {0, 1, 7, 8, 9}} \cup
       {six(<<step, [step EXCEPT !.fragment = 8]>>),
        [six(<<step>>) EXCEPT !.ip.proto = "nonext"],
        [six(<<step>>) EXCEPT !.ip.version = 4]} \cup
       {Ndp("f1", t, "f2", o) : t \in {133, 134, 135, 136},
          o \in {<<>>, <<LinkOption(1, "m2")>>, <<LinkOption(2, "m2")>>,
                 <<[LinkOption(5, "m2") EXCEPT !.units = 0]>>}} \cup
       {[Ndp("f1", 134, "f2", <<LinkOption(5, "m2")>>)
           EXCEPT !.ip.body.cut = TRUE],
        [Ndp("f1", 134, "f2", <<>>) EXCEPT !.ip.body.code = 1],
        Ndp("all", 134, "f2", <<>>), Arp("none", "m1"), Arp("a", "zero"),
        Ssdp("a", "search", "gateway", "v1"),
        Udp("x", 53, "a", 9, Dns(TRUE, <<1, 8, 0, 0, 1>>, 0)),
        Udp("b", 53, "a", 9, Dns(TRUE, <<1, 8, 0, 0, 1>>, 0)),
        Udp("a", 9, "x", 1, [k |-> 0]),
        query(<<1, 7, 0, 0, 1>>, 0), query(<<1, 7, 0, 192, 0, 0, 1>>, 3),
        query(<<1, 8, 1, 7, 0, 0, 1>>, 0), query(<<1, 8, 0, 192, 3, 0, 1>>, 3),
        query(<<192, 0>>, 0), query(<<3, 8, 0, 0, 1>>, 0),
        query(<<1, 8, 0, 1>>, 0)}]}

FewCasts == Streaming \cup Flowing \cup Claiming \cup Fingerprinting
              \cup Parsing

Element(name, value, disabled) ==
  [name |-> name, value |-> value, link |-> "none", parent |-> "none",
   disabled |-> disabled, within_disabled |-> FALSE]

Pages == {
  "failed",
  <<Element("capture", "start", FALSE), Element("option", lan, FALSE),
    Element("text", lan, FALSE)>>,
  <<Element("capture", lan, TRUE), Element("ifaceorminor", wan, FALSE),
    [Element("text", "none", FALSE) EXCEPT !.link = lan]>>,
  <<Element("json", lan, TRUE),
    [Element("option", lan, FALSE)
       EXCEPT !.parent = "ifaceorminor", !.within_disabled = TRUE]>>}

(* A name that can be read ends where going from label to label ends, and  *)
(* a pointer makes it no longer than the message (`read_name`).            *)
ASSUME NameResumes ==
  \A n \in 0..5 : \A data \in [1..n -> {0, 1, 2, 192}] : \A at \in 0..n :
    LET name == ReadName(data, at) IN
    name.parsed => name.next = NameEnd(data, at) /\ name.next <= n

=============================================================================
