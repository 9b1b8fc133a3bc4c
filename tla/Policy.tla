------------------------------- MODULE Policy -------------------------------
(***************************************************************************)
(* The configuration of the sensor and what it permits: validation, the    *)
(* policy cut by the operating mode, networks and their hosts              *)
(* (crates/sensor-core/src/config.rs, deployment.rs), and the settings the *)
(* backend may send (crates/sensor-transport/src/remote_config.rs).        *)
(*                                                                         *)
(* An address is [family, bits] with Width bits in either family; a        *)
(* network in the file is a text [family, bits, prefix].  A setting with a *)
(* bound of its own appears in `exceeded` when it is out of bounds.        *)
(***************************************************************************)
EXTENDS Integers, FiniteSets, TLC

CONSTANTS
  Width,         (* bits of an address; 32 and 128 in the code            *)
  MaxBits,       (* host bits of the largest network that is swept; 20    *)
  AllowedPorts,  (* BALANCED_PORT_ALLOWLIST                               *)
  BadCommunities (* empty, longer than 128, or with control characters    *)

ASSUME WidthAssumption == Width \in Nat /\ MaxBits \in Nat

-----------------------------------------------------------------------------
(* Networks. *)

NoPrefix == -1

Mask(bits, prefix) == bits - (bits % 2^(Width - prefix))

(* A text of family 0 is no address. *)
Parses(text) == text.family # 0 /\ text.prefix <= Width

Parse(text) ==
  LET prefix == IF text.prefix = NoPrefix THEN Width ELSE text.prefix IN
  [family |-> text.family, prefix |-> prefix,
   network |-> Mask(text.bits, prefix)]

CidrContains(cidr, ip) ==
  /\ cidr.family = ip.family
  /\ Mask(ip.bits, cidr.prefix) = cidr.network

(* `host_count` is `Some`. *)
Walkable(cidr) == Width - cidr.prefix <= MaxBits

(* Without the network and the broadcast address, except in /31 and /32. *)
Hosts(cidr) ==
  LET count == 2^(Width - cidr.prefix)
      range == IF count <= 2 THEN 0..(count - 1) ELSE 1..(count - 2)
  IN IF cidr.family = 4 /\ Walkable(cidr)
       THEN {[family |-> 4, bits |-> cidr.network + i] : i \in range}
       ELSE {}

-----------------------------------------------------------------------------
(* Deployment. *)

Editions == {"homelab", "enterprise"}
Profiles == {"fritzbox", "unifi", "opnsense", "pfsense", "openwrt", "span",
             "generic", "manual"}
Vantages == {"lan_host", "mirror_port", "network_tap", "gateway"}

DefaultVantage(profile) ==
  IF profile = "span" THEN "mirror_port" ELSE "lan_host"

SeesAllSegmentTraffic(vantage) == vantage \in {"mirror_port", "network_tap"}
SeesRoutedTraffic(vantage) ==
  SeesAllSegmentTraffic(vantage) \/ vantage = "gateway"
RequiresPromiscuous(vantage) == SeesAllSegmentTraffic(vantage)

IsConfigured(deployment) ==
  deployment.profile # "manual" \/ deployment.vantage # "lan_host"

-----------------------------------------------------------------------------
(* Validation. *)

(* A host in a URL: "::1" without brackets is read as a loopback address,  *)
(* "[::1]" is not, and names are compared with their case.                 *)
IsLoopbackUrl(url) == url.host \in {"localhost", "127.0.0.1", "::1"}
IsPrivateIpv4Url(url) == url.host = "private"

PlaintextAllowed(backend, url) ==
  \/ url.scheme # "http"
  \/ IsLoopbackUrl(url)
  \/ backend.allow /\ IsPrivateIpv4Url(url)

ValidFritzbox(fritz) ==
  fritz.enabled =>
    /\ fritz.interfaces # {}
    /\ fritz.address # "" /\ fritz.timeouts /\ fritz.packet

Valid(config) ==
  /\ \A lan \in config.deployment.lan : Parses(lan)
  /\ \A url \in {config.backend.api, config.backend.ingest} :
       /\ url.host # ""
       /\ PlaintextAllowed(config.backend, url)
  /\ config.exceeded = {}
  /\ ValidFritzbox(config.fritzbox)
  /\ config.active.enabled => config.active.rate > 0
  /\ config.active.communities \cap BadCommunities = {}
  /\ \A text \in config.active.targets \cup config.active.exclude :
       Parses(text)

(* Without a file. *)
Defaults ==
  [mode |-> "balanced",
   active |-> [enabled |-> FALSE, acknowledged |-> FALSE, targets |-> {},
               exclude |-> {}, rate |-> 5, icmp |-> TRUE,
               tcp_connect |-> TRUE, ports |-> AllowedPorts,
               banner |-> FALSE, snmp |-> FALSE, communities |-> {}],
   passive |-> [m \in {"arp", "dhcp", "mdns", "ssdp", "dns", "flows"} |->
                  TRUE],
   privacy |-> [dns_observation |-> TRUE],
   deployment |-> [edition |-> "enterprise", profile |-> "manual",
                   vantage |-> "lan_host", gateway |-> {}, lan |-> {}],
   interfaces |-> {}, promiscuous |-> TRUE,
   fritzbox |-> [enabled |-> FALSE, address |-> "fritz.box",
                 interfaces |-> {}, timeouts |-> TRUE, packet |-> TRUE],
   backend |-> LET url == [scheme |-> "https", host |-> "public"]
               IN [api |-> url, ingest |-> url, allow |-> FALSE],
   exceeded |-> {}]

-----------------------------------------------------------------------------
(* The policy. *)

AllowsActive(mode) == mode \in {"balanced", "active"}
AllowsExtendedActive(mode) == mode = "active"

(* The switch for privacy beats the one of the module, and the other way   *)
(* round.                                                                  *)
Observes(config) ==
  [config.passive EXCEPT !.dns = @ /\ config.privacy.dns_observation]

(* Why active discovery is off, in the order of the checks. *)
DisabledReason(config) ==
  CASE ~AllowsActive(config.mode) -> "sensor mode is passive_only"
    [] ~config.active.enabled -> "active.enabled is false"
    [] ~config.active.acknowledged -> "active.acknowledged is false"
    [] config.active.targets = {} -> "active.targets is empty"
    [] OTHER -> "none"

Off ==
  [targets |-> {}, exclude |-> {}, rate |-> 1, icmp |-> FALSE,
   ports |-> {}, banner |-> FALSE, communities |-> {}]

(* Ports are for TCP; none are left when `tcp_connect` is off. *)
DeriveActive(config) ==
  LET active == config.active
      extended == AllowsExtendedActive(config.mode)
  IN IF DisabledReason(config) # "none" THEN Off
     ELSE [targets |-> {Parse(t) : t \in active.targets},
           exclude |-> {Parse(t) : t \in active.exclude},
           rate |-> active.rate,
           icmp |-> active.icmp,
           ports |-> IF ~active.tcp_connect THEN {}
                     ELSE IF extended THEN active.ports
                     ELSE active.ports \cap AllowedPorts,
           banner |-> active.banner /\ extended,
           communities |-> IF extended /\ active.snmp
                             THEN active.communities ELSE {}]

(* Slip: a target beats an exclusion. *)
MayProbeTarget(policy, ip) ==
  \E cidr \in policy.targets : CidrContains(cidr, ip)

MayProbe(policy, ip) ==
  /\ \A cidr \in policy.exclude : ~CidrContains(cidr, ip)
  /\ \E cidr \in policy.targets : CidrContains(cidr, ip)

-----------------------------------------------------------------------------
(* Settings from the backend.  Each section is a function on the settings  *)
(* it holds; `enabled` is {} when it is not said.                          *)

NoRemote ==
  [version |-> 0, enabled |-> {}, passive |-> <<>>, active |-> <<>>,
   privacy |-> <<>>]

(* Only a newer version is taken over; `sensor.mode` and                   *)
(* `active.acknowledged` have no counterpart.                              *)
Applies(remote, version) == remote.version > version

Apply(remote, config) ==
  [config EXCEPT !.passive = remote.passive @@ @,
                 !.active = remote.active @@ @,
                 !.privacy = remote.privacy @@ @]

RemoteEnabled(remote) == FALSE \notin remote.enabled

=============================================================================
