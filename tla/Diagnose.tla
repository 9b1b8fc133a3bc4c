------------------------------ MODULE Diagnose ------------------------------
(***************************************************************************)
(* The diagnosis of `trapd-sensorctl diagnose`                             *)
(* (crates/sensor-cli/src/diagnose.rs): a check is <<id, status>>, the     *)
(* report a set of them, its status the worst.  A host is a record of what *)
(* the checks read, with the configuration that was loaded.                *)
(***************************************************************************)
EXTENDS Visibility

Warns(id, holds) == {<<id, IF holds THEN "ok" ELSE "warning">>}
Fails(id, holds) == {<<id, IF holds THEN "ok" ELSE "error">>}

Worst(report) ==
  LET statuses == {check[2] : check \in report} IN
  IF "error" \in statuses THEN "error"
  ELSE IF "warning" \in statuses THEN "warning" ELSE "ok"

ExitCode(report) == [ok |-> 0, warning |-> 1, error |-> 2][Worst(report)]

(* The file could not be parsed or validated: nothing else is looked at. *)
ConfigFailure == {<<"config.parse", "error">>}

(* Who else may read or write the file decides over its status. *)
CheckConfig(host) ==
  IF ~host.present THEN {<<"config.present", "warning">>}
  ELSE {<<"config.parse", "ok">>,
        <<"config.permissions",
          CASE host.others -> "error"
            [] host.group_writes /\ ~host.others -> "warning"
            [] OTHER -> "ok">>}

CheckDeployment(config) ==
  Warns("deployment.profile", IsConfigured(config.deployment)) \cup
  (IF RequiresPromiscuous(config.deployment.vantage) /\ ~config.promiscuous
     THEN {<<"deployment.promiscuous", "error">>} ELSE {})

PathStatus(path) ==
  [absent |-> "warning", writable |-> "ok", locked |-> "error"][path]

CheckService(host) ==
  Warns("service.user", host.user) \cup Warns("service.systemd", host.unit)
    \cup {<<"service.state_dir", PathStatus(host.state_dir)>>}

(* `getcap` knows nothing of a file without capabilities, and then the     *)
(* unit is looked at.                                                      *)
FileCapabilities(host) ==
  IF host.file_caps = {} THEN {} ELSE {host.file_caps}

Capabilities(host) ==
  IF FileCapabilities(host) # {} THEN host.file_caps
  ELSE IF host.unit THEN host.ambient ELSE {}

CheckCapabilities(host) ==
  Fails("cap.net_raw", "CAP_NET_RAW" \in Capabilities(host)) \cup
  (LET admin == "CAP_NET_ADMIN" \in Capabilities(host)
   IN IF host.config.promiscuous THEN Fails("cap.net_admin", admin)
      ELSE Warns("cap.net_admin", admin))

(* An interface by its name: whether it exists, what it is, and whether    *)
(* its socket can be opened.                                               *)
IsCapturable(interface) == ~interface.loopback /\ interface.up

SelectInterfaces(configured, found) ==
  IF configured # {} THEN configured
  ELSE {name \in DOMAIN found : IsCapturable(found[name])}

CheckInterface(found, name) ==
  IF name \notin DOMAIN found THEN Fails("network.interface", FALSE)
  ELSE Fails("network.interface", IsCapturable(found[name])) \cup
       Fails("network.af_packet", found[name].opens)

CheckNetwork(host) ==
  UNION {CheckInterface(host.found, name) :
           name \in SelectInterfaces(host.config.interfaces, host.found)}

(* How far the router is reached decides which check is the last. *)
CheckFritzbox(host) ==
  IF ~host.config.fritzbox.enabled THEN {<<"capture.fritzbox", "ok">>}
  ELSE IF host.router \in {"credentials", "address", "authentication"}
    THEN {<<host.router, "error">>}
  ELSE Fails("interfaces",
             host.config.fritzbox.interfaces \subseteq host.advertised)

CheckStorage(host) ==
  {<<"storage.state", PathStatus(host.state_dir)>>,
   <<"storage.wal", PathStatus(host.wal)>>} \cup
  Fails("storage.wal_usage", ~host.wal_over) \cup
  Fails("storage.free", ~host.disk_full)

(* A URL whose host is "::1" without brackets does not parse. TLS is never *)
(* tried, and always warned of.                                            *)
CheckBackend(host) ==
  IF host.config.backend.api.host = "::1"
    THEN Fails("backend.url", FALSE)
    ELSE Warns("backend.dns", host.resolves)
         \cup (IF host.resolves THEN Warns("backend.tcp", host.answers)
                                ELSE {})
         \cup Warns("backend.tls", FALSE)

CheckRuntime(host) ==
  {<<"runtime.admin",
     [up |-> "ok", malformed |-> "error", down |-> "warning"][host.admin]>>}

Diagnosis(host) ==
  IF ~Valid(host.config) THEN ConfigFailure
  ELSE CheckConfig(host) \cup CheckDeployment(host.config)
       \cup CheckService(host) \cup CheckCapabilities(host)
       \cup CheckNetwork(host) \cup CheckFritzbox(host)
       \cup CheckStorage(host) \cup CheckBackend(host)
       \cup CheckRuntime(host)

=============================================================================
