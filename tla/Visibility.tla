----------------------------- MODULE Visibility -----------------------------
(***************************************************************************)
(* What a sensor can see where it is attached: the report of `setup`,      *)
(* `visibility`, `diagnose` and the admin endpoint                         *)
(* (crates/sensor-core/src/visibility.rs).                                 *)
(***************************************************************************)
EXTENDS Policy

None == 0
Partial == 1
Full == 2

(* Without promiscuous mode a mirror port shows what any port shows. *)
EffectiveVantage(config) ==
  IF RequiresPromiscuous(config.deployment.vantage) /\ ~config.promiscuous
    THEN "lan_host" ELSE config.deployment.vantage

SwitchedOn(passive, modules) == Cardinality({m \in modules : passive[m]})

BroadcastSources(passive) ==
  SwitchedOn(passive, {"arp", "dhcp", "mdns", "ssdp"})
FingerprintSources(passive) == SwitchedOn(passive, {"dhcp", "mdns", "ssdp"})

AssetDiscovery(passive, all, active) ==
  IF BroadcastSources(passive) > 0 THEN Full
  ELSE IF all \/ active THEN Partial ELSE None

NewDeviceDetection(passive) ==
  IF BroadcastSources(passive) > 0 THEN Full ELSE None

DeviceFingerprinting(passive) ==
  IF FingerprintSources(passive) >= 2 THEN Full
  ELSE IF FingerprintSources(passive) = 1 \/ passive.arp THEN Partial
  ELSE None

(* Neighbour discovery does not depend on the switch. *)
LocalDiscovery(passive) == IF passive.arp THEN Full ELSE Partial

GatewayVisibility(passive, vantage) ==
  IF SeesRoutedTraffic(vantage) THEN Full
  ELSE IF BroadcastSources(passive) > 0 THEN Partial ELSE None

DnsVisibility(passive, vantage) ==
  IF ~passive.dns \/ ~SeesRoutedTraffic(vantage) THEN None
  ELSE IF SeesAllSegmentTraffic(vantage) THEN Full ELSE Partial

InternetTraffic(passive, vantage) ==
  IF passive.flows /\ SeesRoutedTraffic(vantage) THEN Full ELSE None

InternalTraffic(passive, vantage) ==
  IF ~passive.flows \/ ~SeesRoutedTraffic(vantage) THEN None
  ELSE IF SeesAllSegmentTraffic(vantage) THEN Full ELSE Partial

FullPacket(vantage) ==
  IF SeesAllSegmentTraffic(vantage) THEN Full
  ELSE IF vantage = "gateway" THEN Partial ELSE None

RemoteCapture(config) == IF config.fritzbox.enabled THEN Partial ELSE None

VisibilityReport(config) ==
  LET vantage == EffectiveVantage(config)
      passive == Observes(config)
      all == SeesAllSegmentTraffic(vantage)
      active == DisabledReason(config) = "none"
  IN [asset_discovery |-> AssetDiscovery(passive, all, active),
      new_device_detection |-> NewDeviceDetection(passive),
      device_fingerprinting |-> DeviceFingerprinting(passive),
      local_discovery |-> LocalDiscovery(passive),
      gateway_visibility |-> GatewayVisibility(passive, vantage),
      dns_visibility |-> DnsVisibility(passive, vantage),
      internet_traffic |-> InternetTraffic(passive, vantage),
      internal_traffic |-> InternalTraffic(passive, vantage),
      full_packet |-> FullPacket(vantage),
      remote_capture |-> RemoteCapture(config)]

=============================================================================
