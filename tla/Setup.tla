-------------------------------- MODULE Setup -------------------------------
(***************************************************************************)
(* The decisions of `trapd-sensorctl setup` (crates/sensor-cli/src/        *)
(* setup.rs, probe.rs; crates/sensor-capture/src/route.rs): a plan is made *)
(* from the configuration, what the host shows and the answers of the      *)
(* operator, previewed, and written into the file as it then is.           *)
(*                                                                         *)
(* An answer that may be missing is a set with one element or none.        *)
(***************************************************************************)
EXTENDS Visibility, Sequences, SequencesExt

Given(set) == CHOOSE x \in set : TRUE
OrElse(set, default) == IF set = {} THEN default ELSE Given(set)

-----------------------------------------------------------------------------
(* What the host shows. *)

(* The first of the default routes with the least metric, and the narrowest *)
(* network its interface is attached to.                                   *)
DetectVantagePoint(routes) ==
  LET defaults == {i \in DOMAIN routes : routes[i].default}
      best == CHOOSE i \in defaults : \A j \in defaults :
                \/ routes[i].metric < routes[j].metric
                \/ routes[i].metric = routes[j].metric /\ i <= j
      onLink == {i \in DOMAIN routes :
                   /\ ~routes[i].default /\ routes[i].gateway = {}
                   /\ routes[i].interface = routes[best].interface}
      narrowest == CHOOSE i \in onLink : \A j \in onLink :
                     \/ routes[i].net.prefix > routes[j].net.prefix
                     \/ /\ routes[i].net.prefix = routes[j].net.prefix
                        /\ i >= j
  IN IF defaults = {} THEN [interface |-> {}, gateway |-> {}, lan |-> {}]
     ELSE [interface |-> {routes[best].interface},
           gateway |-> routes[best].gateway,
           lan |-> IF onLink = {} THEN {} ELSE {routes[narrowest].net}]

(* What the gateway answers to: the description of the device on port      *)
(* 49000, the page on port 80; connections to 443 and 8443 name nothing.   *)
Findings(gateway) ==
  (IF gateway.tr064 THEN {"fritzbox"} ELSE {}) \cup gateway.page

SuggestedProfile(gateway) ==
  IF Cardinality(Findings(gateway)) = 1 THEN Findings(gateway) ELSE {}

-----------------------------------------------------------------------------
(* The plan. *)

PlanOf(config) ==
  [edition |-> config.deployment.edition,
   profile |-> config.deployment.profile,
   vantage |-> config.deployment.vantage,
   gateway |-> config.deployment.gateway,
   lan |-> config.deployment.lan,
   interfaces |-> config.interfaces,
   promiscuous |-> config.promiscuous,
   fritz |-> [enabled |-> config.fritzbox.enabled,
              address |-> config.fritzbox.address,
              interfaces |-> config.fritzbox.interfaces],
   backend |-> {}]

Deployment(plan) ==
  [edition |-> plan.edition, profile |-> plan.profile,
   vantage |-> plan.vantage, gateway |-> plan.gateway, lan |-> plan.lan]

Router(fritz, old) ==
  [enabled |-> fritz.enabled, address |-> fritz.address,
   interfaces |-> fritz.interfaces, timeouts |-> old.timeouts,
   packet |-> old.packet]

Preview(plan, config) ==
  [config EXCEPT !.deployment = Deployment(plan),
                 !.interfaces = plan.interfaces,
                 !.promiscuous = plan.promiscuous,
                 !.fritzbox = Router(plan.fritz, @),
                 !.backend = OrElse(plan.backend, @)]

(* The tables of the document, key by key: what the plan does not hold     *)
(* stays as the file has it.  These are the keys of the preview.           *)
UpdateDocument(plan, document) == Preview(plan, document)

(* A name is compared without its case here; a value with a scheme is left *)
(* to the operator.                                                        *)
BackendUrlsForHost(host) ==
  LET loopback == host \in {"localhost", "LOCALHOST", "127.0.0.1", "::1"}
      private == host = "private"
      url == [scheme |-> IF loopback \/ private THEN "http" ELSE "https",
              host |-> host]
  IN IF host \in {"", "with scheme"} THEN {}
     ELSE {[api |-> url, ingest |-> url, allow |-> private]}

-----------------------------------------------------------------------------
(* Questions.  Each is the set of plans its answers lead to; `a` holds the *)
(* arguments of the command and what may be answered, `host` what the host *)
(* shows.  Nobody is asked unless a.interactive.                           *)

FillGaps(plan, a, host) ==
  [plan EXCEPT !.edition = OrElse(a.edition, @),
               !.gateway = IF @ = {} THEN host.detected.gateway ELSE @,
               !.lan = IF @ = {} THEN host.detected.lan ELSE @]

(* The gateway is contacted by consent only. *)
Suggestions(plan, a, host) ==
  IF plan.gateway = {} THEN {{}}
  ELSE (IF a.probe_gateway THEN {} ELSE {{}}) \cup
       (IF a.probe_gateway \/ a.interactive
          THEN {SuggestedProfile(host.gateway)} ELSE {})

(* Any profile may be chosen; the suggestion is only the first choice.     *)
ChooseProfile(plan, a, suggested) ==
  LET chosen ==
        IF a.profile # {} THEN a.profile
        ELSE IF a.interactive THEN a.profiles
        ELSE IF plan.profile = "manual"
          THEN {OrElse(suggested, "manual")}
        ELSE {plan.profile}
  IN {[plan EXCEPT !.profile = p] : p \in chosen}

(* A test capture: packets must arrive in time, as Ethernet. *)
ValidateCapture(capture) ==
  /\ capture.starts /\ capture.decodes
  /\ capture.packets > 0 /\ capture.link = "ethernet"

Selectable(router) ==
  {i \in router.offered : router.available[i]}

(* Declined, or given up after a failure: off, and nothing is selected; a  *)
(* new address stays.  Else what was chosen among the interfaces the       *)
(* router offers, when the first one passes the test.                      *)
ConfigureFritzbox(plan, a, host) ==
  LET off(p) == [p EXCEPT !.fritz.enabled = FALSE, !.fritz.interfaces = {}]
      asked == [plan EXCEPT !.fritz.address = a.address]
      passes == host.router.login /\ ValidateCapture(host.router.capture)
  IN IF plan.profile # "fritzbox"
       THEN {[plan EXCEPT !.fritz.enabled = FALSE]}
     ELSE IF ~a.interactive THEN {plan}
     ELSE {off(plan), off(asked)} \cup
          {[asked EXCEPT !.fritz.enabled = TRUE, !.fritz.interfaces = s] :
             s \in IF passes THEN (SUBSET Selectable(host.router)) \ {{}}
                             ELSE {}}

(* Nobody to ask: a changed profile brings its vantage point along. *)
UnattendedVantage(plan, config) ==
  IF ~IsConfigured(config.deployment)
     \/ plan.profile # config.deployment.profile
    THEN DefaultVantage(plan.profile) ELSE plan.vantage

VantageOptions(plan) ==
  CASE plan.profile = "span" -> {"mirror_port", "network_tap"}
    [] plan.profile \in {"opnsense", "pfsense", "openwrt"} ->
         {"lan_host", "gateway", "mirror_port"}
    [] plan.profile = "manual" -> Vantages
    [] OTHER -> {IF plan.vantage = "lan_host"
                   THEN DefaultVantage(plan.profile) ELSE plan.vantage}

ChooseVantage(plan, a, config) ==
  {[plan EXCEPT !.vantage = v] :
     v \in IF a.vantage # {} THEN a.vantage
           ELSE IF a.interactive THEN VantageOptions(plan)
           ELSE {UnattendedVantage(plan, config)}}

(* Automatic, or one of those that can capture. *)
ChooseInterfaces(plan, a, host) ==
  {[plan EXCEPT !.interfaces = s,
                !.gateway = IF a.gateway # {} THEN a.gateway ELSE @,
                !.lan = IF a.lan # {} THEN a.lan ELSE @] :
     s \in IF a.interfaces # {} THEN {a.interfaces}
           ELSE IF a.interactive /\ host.available # {}
             THEN {{}} \cup {{i} : i \in host.available}
           ELSE {plan.interfaces}}

ChoosePromiscuous(plan, a) ==
  IF RequiresPromiscuous(plan.vantage) /\ a.interactive
    THEN {[plan EXCEPT !.promiscuous = @ \/ yes] : yes \in BOOLEAN}
    ELSE {plan}

ChooseBackend(plan, a) ==
  {[plan EXCEPT !.backend = BackendUrlsForHost(h)] :
     h \in IF a.interactive THEN a.hosts ELSE {""}}

(* All the plans a run of the wizard may arrive at. *)
Plans(config, a, host) ==
  LET filled == FillGaps(PlanOf(config), a, host) IN
  UNION {ChooseBackend(p6, a) : p6 \in
  UNION {ChoosePromiscuous(p5, a) : p5 \in
  UNION {ChooseInterfaces(p4, a, host) : p4 \in
  UNION {ChooseVantage(p3, a, config) : p3 \in
  UNION {ConfigureFritzbox(p2, a, host) : p2 \in
  UNION {ChooseProfile(filled, a, s) : s \in
    Suggestions(filled, a, host)}}}}}}

-----------------------------------------------------------------------------
(* The file for the router's user and password                             *)
(* (crates/sensor-capture/src/fritzbox/secrets.rs).  A text is a sequence  *)
(* of characters: plain ones, those that are escaped ("percent", "break"), *)
(* and those that take two bytes ("umlaut").                               *)

(* Byte for byte; every byte becomes a character, also those that are half *)
(* of one.                                                                 *)
Escape(text) ==
  FlattenSeq([i \in DOMAIN text |->
    CASE text[i] \in {"percent", "break"} -> <<"escaped", text[i]>>
      [] text[i] = "umlaut" -> <<"first byte", "second byte">>
      [] OTHER -> <<text[i]>>])

Unescape(text) == SelectSeq(text, LAMBDA c : c # "escaped")

=============================================================================
