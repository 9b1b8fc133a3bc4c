------------------------------ MODULE Registry ------------------------------
(***************************************************************************)
(* The device registry of the processor (sensor-daemon registry.rs) and    *)
(* the fingerprint engine it asks (sensor-fingerprint engine.rs).          *)
(*                                                                         *)
(* A registry is a function from device keys to entries.  The signature    *)
(* tables are constants: what they say is data.  Confidence and weights    *)
(* are counted in 200ths, so that half a weight is a number.               *)
(***************************************************************************)
EXTENDS Integers, SequencesExt

CONSTANTS
  MaxDevices,   (* MAX_TRACKED_DEVICES                                     *)
  DeviceTtl,    (* DEVICE_TTL_SECS, in ticks                               *)
  Oui,          (* vendor of a MAC address, "none" if unknown              *)
  VendorTypes,  (* device type votes of vendors                            *)
  DhcpTypes,    (* OS votes of DHCP request lists                          *)
  ClassTypes,   (* OS and device votes of vendor classes                   *)
  MdnsTypes,    (* device type votes of advertised services                *)
  SsdpTypes,    (* device type votes of UPnP types                         *)
  BannerTypes,  (* OS votes of banners                                     *)
  Rank          (* alphabetical rank of what is voted for                  *)

ASSUME RegistryAssumption == MaxDevices \in Nat \ {0} /\ DeviceTtl \in Nat \ {0}
ASSUME WeightsAssumption ==
  /\ \A table \in {VendorTypes, DhcpTypes, MdnsTypes, SsdpTypes, BannerTypes} :
       \A s \in DOMAIN table : table[s].weight \in Nat
  /\ \A c \in DOMAIN ClassTypes : ClassTypes[c].weight \in Nat

-----------------------------------------------------------------------------
(* Fingerprints. *)

NoSignals ==
  [ip |-> "none", mac |-> "none", host |-> "none", prl |-> "none",
   class |-> "none", mdns |-> {}, ssdp |-> "none", server |-> "none",
   banners |-> {}]

(* A host name or an address alone is nothing to go by. *)
NothingToGoBy(s) == [s EXCEPT !.ip = "none", !.host = "none"] = NoSignals

Vote(by, value, weight) == [by |-> by, value |-> value, weight |-> weight]

VotesIn(table, by, signals) ==
  {Vote(<<by, s>>, table[s].value, table[s].weight) :
     s \in signals \cap DOMAIN table}

Vendor(s) == IF s.mac \in DOMAIN Oui THEN Oui[s.mac] ELSE "none"

DeviceVotes(s) ==
  VotesIn(VendorTypes, "vendor", {Vendor(s)}) \cup
  {Vote(<<"class", c>>, ClassTypes[c].device, ClassTypes[c].weight) :
     c \in {s.class} \cap DOMAIN ClassTypes} \cup
  VotesIn(MdnsTypes, "mdns", s.mdns) \cup
  VotesIn(SsdpTypes, "ssdp", {s.ssdp})

OsVotes(s) ==
  VotesIn(DhcpTypes, "dhcp", {s.prl}) \cup
  {Vote(<<"class", c>>, ClassTypes[c].os, ClassTypes[c].weight) :
     c \in {d \in {s.class} \cap DOMAIN ClassTypes :
              ClassTypes[d].os # "none"}} \cup
  VotesIn(BannerTypes, "banner", s.banners)

Total(votes, v) ==
  FoldSet(LAMBDA x, sum : sum + x.weight, 0, {x \in votes : x.value = v})
Best(votes, v) == Max({0} \cup {x.weight : x \in {y \in votes : y.value = v}})

(* The value with the highest total wins, the last one by name of several; *)
(* more votes for it support it up to a limit, half the total of the       *)
(* runner-up counts against it.                                            *)
Resolve(votes) ==
  IF votes = {} THEN [value |-> "none", confidence |-> 0]
  ELSE LET values == {x.value : x \in votes}
           top == {v \in values :
                     \A w \in values : Total(votes, w) <= Total(votes, v)}
           winner == CHOOSE v \in top : \A w \in top : Rank[w] <= Rank[v]
           base == Best(votes, winner)
           support == Min({Total(votes, winner) - base, 60})
           runnerUp == Max({0} \cup {Total(votes, v) : v \in values \ {winner}})
       IN [value |-> winner,
           confidence |-> Max({0, Min({200, base + support - runnerUp \div 2})})]

MinReportable == 70

NoFingerprint == [reported |-> FALSE]

(* The stronger of the two results, raised by a known vendor; a weak type  *)
(* is left out.                                                            *)
Evaluate(s) ==
  LET device == Resolve(DeviceVotes(s))
      os == Resolve(OsVotes(s))
      strongest == Max({device.confidence, os.confidence})
      confidence == IF Vendor(s) # "none" THEN Min({strongest + 20, 200})
                    ELSE strongest
  IN IF \/ NothingToGoBy(s)
        \/ device.value = "none" /\ os.value = "none" /\ Vendor(s) = "none"
     THEN NoFingerprint
     ELSE [reported |-> TRUE, confidence |-> confidence, os |-> os.value,
           vendor |-> Vendor(s),
           device |-> IF confidence < MinReportable THEN "none"
                      ELSE device.value]

-----------------------------------------------------------------------------
(* Entries. *)

MacKey(m) == <<"mac", m>>
IpKey(i) == <<"ip", i>>

(* Devices long silent are forgotten. *)
Prune(devices, now) ==
  Restrict(devices, {k \in DOMAIN devices : now - devices[k].seen < DeviceTtl})

(* Slip: a full registry is tidied, and then takes the device anyway. *)
TouchAlways(devices, key, ip, mac, now) ==
  LET fresh == [signals |-> [NoSignals EXCEPT !.ip = ip, !.mac = mac],
                seen |-> now, dirty |-> TRUE, confidence |-> 0]
  IN IF key \in DOMAIN devices THEN [devices EXCEPT ![key].seen = now]
     ELSE [k \in DOMAIN devices \cup {key} |->
             IF k = key THEN fresh ELSE devices[k]]

(* The entry of a key, made if there is room: in a full registry the       *)
(* silent devices go first, and a new one is refused if that is not        *)
(* enough.  An address or a MAC that was missing is taken over.            *)
Touch(devices, key, ip, mac, now) ==
  LET known == key \in DOMAIN devices
      tidy == IF ~known /\ Cardinality(DOMAIN devices) >= MaxDevices
              THEN Prune(devices, now) ELSE devices
      fresh == [signals |-> [NoSignals EXCEPT !.ip = ip, !.mac = mac],
                seen |-> now, dirty |-> TRUE, confidence |-> 0]
      old == devices[key]
      missing(field, value) ==
        old.signals[field] = "none" /\ value # "none"
  IN IF known
     THEN [devices EXCEPT ![key] =
             [old EXCEPT
                !.seen = now,
                !.signals.ip = IF missing("ip", ip) THEN ip ELSE @,
                !.signals.mac = IF missing("mac", mac) THEN mac ELSE @,
                !.dirty = @ \/ missing("ip", ip) \/ missing("mac", mac)]]
     ELSE IF Cardinality(DOMAIN tidy) >= MaxDevices THEN tidy
     ELSE [k \in DOMAIN tidy \cup {key} |-> IF k = key THEN fresh ELSE tidy[k]]

(* A signal that is there is kept, only a missing one is set. *)
Learn(entry, field, value) ==
  IF value = "none" \/ entry.signals[field] # "none" THEN entry
  ELSE [entry EXCEPT !.signals[field] = value, !.dirty = TRUE]

(* The request list is the last one seen. *)
LearnRequestList(entry, prl) ==
  IF prl = "none" \/ entry.signals.prl = prl THEN entry
  ELSE [entry EXCEPT !.signals.prl = prl, !.dirty = TRUE]

(* Slip: the device is not due for evaluation. *)
CollectQuietly(entry, field, value) ==
  IF value = "none" THEN entry
  ELSE [entry EXCEPT !.signals[field] = @ \cup {value}]

Collect(entry, field, value) ==
  IF value = "none" \/ value \in entry.signals[field] THEN entry
  ELSE [entry EXCEPT !.signals[field] = @ \cup {value}, !.dirty = TRUE]

(* The server of a UPnP device replaces the one known, and does not make   *)
(* the device due for evaluation.                                          *)
LearnServer(entry, server) ==
  IF server = "none" THEN entry
  ELSE [entry EXCEPT !.signals.server = server]

Refine(entry, o) ==
  CASE o.kind = "asset" -> Learn(entry, "host", o.host)
    [] o.kind = "dhcp" ->
         Learn(Learn(LearnRequestList(entry, o.prl), "class", o.class),
               "host", o.host)
    [] o.kind = "service" -> Collect(entry, "banners", o.banner)
    [] o.kind = "advertises" /\ o.device # "none" ->
         LearnServer(Learn(entry, "ssdp", o.device), o.server)
    [] o.kind = "advertises" /\ o.device = "none" ->
         Collect(entry, "mdns", o.to)

(* The device an observation is about: by its MAC if it names one. *)
KeyOf(o) ==
  CASE o.kind = "asset" /\ o.mac # "none" -> MacKey(o.mac)
    [] o.kind = "asset" /\ o.mac = "none" -> IpKey(o.ip)
    [] o.kind = "dhcp" -> MacKey(o.mac)
    [] o.kind \in {"service", "advertises"} -> IpKey(o.ip)

AboutDevice == {"asset", "dhcp", "service", "advertises"}

ObserveDevice(devices, o, now) ==
  IF o.kind \notin AboutDevice THEN devices
  ELSE LET key == KeyOf(o)
           mac == IF o.kind \in {"asset", "dhcp"} THEN o.mac ELSE "none"
           touched == Touch(devices, key, o.ip, mac, now)
       IN IF key \notin DOMAIN touched THEN touched
          ELSE [touched EXCEPT ![key] = Refine(@, o)]

(* What changed is evaluated; only a first or a stronger result is told.   *)
Stronger(entry) ==
  LET f == Evaluate(entry.signals) IN
  f.reported /\ (f.confidence > entry.confidence \/ entry.confidence = 0)

EvaluateDirty(devices) ==
  [k \in DOMAIN devices |->
     IF ~devices[k].dirty THEN devices[k]
     ELSE [devices[k] EXCEPT
             !.dirty = FALSE,
             !.confidence = IF Stronger(devices[k])
                            THEN Evaluate(devices[k].signals).confidence
                            ELSE @]]

=============================================================================
