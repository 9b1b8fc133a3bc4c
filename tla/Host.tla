-------------------------------- MODULE Host --------------------------------
(***************************************************************************)
(* The sensor's machine: the operator who edits the configuration and runs *)
(* `trapd-sensorctl setup`, `enroll` and `reset`                           *)
(* (crates/sensor-cli/src/main.rs, setup.rs), the files these replace (the *)
(* configuration, crates/sensor-core/src/identity.rs,                      *)
(* crates/sensor-capture/src/fritzbox/secrets.rs), and the daemon that     *)
(* starts from them, polls the backend for settings                        *)
(* (crates/sensor-daemon/src/runtime.rs) and sweeps the network.           *)
(*                                                                         *)
(* A file is replaced by a rename; each step before it may be the last one *)
(* of its process, or of the machine.                                      *)
(***************************************************************************)
EXTENDS Setup, Scanner, Client

CONSTANT Casts (* bound of the model: who may do what, and how often       *)

IsConfig(config) ==
  /\ DOMAIN config = DOMAIN Defaults
  /\ DOMAIN config.fritzbox = DOMAIN Defaults.fritzbox
  /\ config.active.rate \in Nat

ASSUME CastsAssumption ==
  \A c \in Casts :
    /\ \A config \in c.first \cup c.documents : IsConfig(config)
    /\ c.identity # "partial"

VARIABLES
  cast,     (* the one of Casts this behaviour belongs to                  *)
  left,     (* how often each thing may still happen                       *)
  file,     (* the configuration file                                      *)
  temp,     (* the file that is to replace it                              *)
  hand,     (* history: the settings last written by hand                  *)
  origin,   (* history: the settings by hand that the file goes back to    *)
  overwritten, (* history: setup has replaced an edit that it never read   *)
  sound,    (* history: the file loaded, and no edit came while setup ran  *)
  warned,   (* setup said that the daemon may not be able to read the file *)
  setup,    (* the run of setup: where it is, and what it holds            *)
  secrets,  (* the stored credentials, and their draft                     *)
  identity, (* the stored identity, and its draft                          *)
  outage,   (* history: the power failed with an identity not on the disk  *)
  daemon    (* the daemon: where it is, and what the backend told it       *)

history == <<hand, origin, overwritten>>
configVars == <<file, temp, history, sound, warned>>
toolVars == <<setup, secrets, identity, outage>>
vars == <<cast, left, configVars, toolVars, daemon, scannerVars>>

Nothing == [state |-> "absent", config |-> Defaults]
NoSetup == [at |-> "idle", start |-> Defaults, plan |-> PlanOf(Defaults),
            document |-> Defaults, raced |-> FALSE]
NoIdentity == [state |-> "absent", tight |-> TRUE, synced |-> TRUE]
DaemonDown == [at |-> "down", settings |-> Defaults, version |-> 0,
               enabled |-> TRUE, hand |-> Defaults, origin |-> Defaults,
               overwritten |-> FALSE]

Init ==
  /\ cast \in Casts
  /\ left = cast.budget
  /\ \E config \in cast.first :
       /\ file = [state |-> "whole", config |-> config, readable |-> TRUE]
       /\ hand = config /\ origin = config /\ sound = Valid(config)
  /\ overwritten = FALSE /\ temp = Nothing /\ warned = FALSE
  /\ setup = NoSetup
  /\ secrets = [stored |-> "absent", draft |-> "absent"]
  /\ identity = [stored |-> [NoIdentity EXCEPT !.state = cast.identity],
                 draft |-> NoIdentity, at |-> "idle"]
  /\ outage = FALSE
  /\ daemon = DaemonDown
  /\ ScannerInit

Spend(what) ==
  /\ left[what] > 0
  /\ left' = [left EXCEPT ![what] = @ - 1]

-----------------------------------------------------------------------------
(* The configuration file.  A garbled file is no TOML; one that was cut    *)
(* off is partial. *)

Load == IF file.state = "absent" THEN Defaults ELSE file.config

Loads(f) ==
  \/ f.state = "absent"
  \/ f.state = "whole" /\ Valid(f.config)

(* An edit while setup is between reading and replacing will be lost; one  *)
(* while it asks meets a plan that was checked without it.                 *)
Edit(f, config) ==
  /\ Spend("edits")
  /\ file' = f /\ warned' = FALSE
  /\ hand' = config /\ origin' = config /\ overwritten' = FALSE
  /\ sound' = (Loads(f) /\ setup.at = "idle")
  /\ setup' = [setup EXCEPT !.raced =
                 setup.at \in {"creating", "writing", "replacing"}]
  /\ UNCHANGED <<cast, temp, secrets, identity, outage, daemon,
                 scannerVars>>

EditByHand ==
  \E config \in cast.documents :
    Edit([state |-> "whole", config |-> config, readable |-> TRUE], config)

GarbleByHand ==
  Edit([file EXCEPT !.state = "garbled", !.readable = TRUE], origin)

RemoveByHand ==
  Edit([state |-> "absent", config |-> Defaults, readable |-> TRUE],
       Defaults)

-----------------------------------------------------------------------------
(* Setup. *)

SetupStep(from, to) ==
  setup.at = from /\ setup' = [setup EXCEPT !.at = to]

(* It starts from the defaults when the file does not load. *)
StartSetup ==
  /\ setup.at = "idle" /\ Spend("setups")
  /\ setup' = [NoSetup EXCEPT !.at = "asking",
                 !.start = IF Loads(file) THEN Load ELSE Defaults]
  /\ sound' = Loads(file)
  /\ UNCHANGED <<cast, file, temp, history, warned, secrets, identity,
                 outage, daemon, scannerVars>>

(* Nothing to write when the plan is what setup began with. *)
AfterCredentials(plan) ==
  IF plan = PlanOf(setup.start) /\ IsConfigured(setup.start.deployment)
    THEN "idle" ELSE "reading"

(* Credentials are entered for a capture that was tested.  A plan that     *)
(* makes no valid configuration ends setup, as does a dry run or a no.     *)
AnswerSetup ==
  /\ setup.at = "asking"
  /\ \E a \in cast.args : \E plan \in Plans(setup.start, a, cast.host) :
       /\ Valid(Preview(plan, setup.start)) /\ ~a.dry_run
       /\ setup' = [setup EXCEPT !.plan = plan,
                       !.at = IF a.interactive /\ plan.fritz.enabled
                                THEN "credentials" ELSE AfterCredentials(plan)]
  /\ UNCHANGED <<cast, left, configVars, secrets, identity, outage, daemon,
                 scannerVars>>

DraftCredentials ==
  /\ SetupStep("credentials", "storing")
  /\ \E state \in {"partial", "whole"} :
       secrets' = [secrets EXCEPT !.draft = state]
  /\ UNCHANGED <<cast, left, configVars, identity, outage, daemon,
                 scannerVars>>

(* Only a draft that is whole is synced and renamed. *)
StoreCredentials ==
  /\ setup.at = "storing" /\ secrets.draft = "whole"
  /\ setup' = [setup EXCEPT !.at = AfterCredentials(setup.plan)]
  /\ secrets' = [stored |-> secrets.draft, draft |-> "absent"]
  /\ UNCHANGED <<cast, left, configVars, identity, outage, daemon,
                 scannerVars>>

(* The file as it is now; an absent one is an empty document. *)
ReadDocument ==
  /\ setup.at = "reading" /\ file.state # "garbled"
  /\ setup' = [setup EXCEPT !.at = "creating", !.document = Load,
                 !.raced = FALSE]
  /\ UNCHANGED <<cast, left, configVars, secrets, identity, outage, daemon,
                 scannerVars>>

(* Slip: the file itself is emptied and written anew. *)
TruncateFile ==
  /\ SetupStep("creating", "writing")
  /\ temp' = [Nothing EXCEPT !.state = "partial"]
  /\ file' = [file EXCEPT !.state = "partial"]
  /\ UNCHANGED <<cast, left, history, sound, warned, secrets, identity,
                 outage, daemon, scannerVars>>

(* What an earlier run left behind is removed. *)
CreateTemporary ==
  /\ SetupStep("creating", "writing")
  /\ temp' = [Nothing EXCEPT !.state = "partial"]
  /\ UNCHANGED <<cast, left, file, history, sound, warned, secrets, identity,
                 outage, daemon, scannerVars>>

WriteTemporary ==
  /\ SetupStep("writing", "replacing")
  /\ temp' = [state |-> "whole",
              config |-> UpdateDocument(setup.plan, setup.document)]
  /\ UNCHANGED <<cast, left, file, history, sound, warned, secrets, identity,
                 outage, daemon, scannerVars>>

(* The owner of the old file is given to the new one, or setup warns.      *)
(* Nothing asks whether the file is still the one that was read: an edit   *)
(* since then is gone, and the settings of before are back.                *)
ReplaceFile ==
  /\ SetupStep("replacing", "idle")
  /\ \E owned \in BOOLEAN :
       /\ file' = [state |-> temp.state, config |-> temp.config,
                   readable |-> owned /\ file.readable]
       /\ warned' = (warned \/ ~owned)
  /\ temp' = Nothing
  /\ IF setup.raced
       THEN origin' = setup.document /\ overwritten' = TRUE
       ELSE UNCHANGED <<origin, overwritten>>
  /\ UNCHANGED <<cast, left, hand, sound, secrets, identity, outage, daemon,
                 scannerVars>>

(* The new file is removed again when it cannot take its place. *)
ReplaceFails ==
  /\ SetupStep("replacing", "idle")
  /\ temp' = Nothing
  /\ UNCHANGED <<cast, left, file, history, sound, warned, secrets, identity,
                 outage, daemon, scannerVars>>

(* At any step setup may fail, be told no, or be killed. *)
EndSetup ==
  /\ setup.at # "idle"
  /\ setup' = NoSetup
  /\ UNCHANGED <<cast, left, configVars, secrets, identity, outage, daemon,
                 scannerVars>>

-----------------------------------------------------------------------------
(* The identity. *)

IdentityStep(next) ==
  /\ identity' = next
  /\ UNCHANGED <<cast, configVars, setup, secrets, outage, daemon,
                 scannerVars>>

(* A stored identity is replaced by force only. *)
Enroll ==
  /\ identity.at = "idle" /\ Loads(file)
  /\ \E force \in BOOLEAN : force \/ identity.stored.state = "absent"
  /\ Spend("enrolments")
  /\ IdentityStep([identity EXCEPT !.at = "asking"])

(* The backend accepts the token; the identity is written where the umask  *)
(* lets others read. *)
DraftIdentity ==
  /\ identity.at = "asking" /\ \E answer \in cast.answers : Enrolled(answer)
  /\ \E state \in {"partial", "whole"} :
       IdentityStep([identity EXCEPT !.at = "drafted",
         !.draft = [state |-> state, tight |-> FALSE, synced |-> FALSE]])
  /\ UNCHANGED left

TightenIdentity ==
  /\ identity.at = "drafted" /\ identity.draft.state = "whole"
  /\ IdentityStep([identity EXCEPT !.at = "tight", !.draft.tight = TRUE])
  /\ UNCHANGED left

(* Renamed without having been synced. *)
StoreIdentity ==
  /\ identity.at = "tight"
  /\ IdentityStep([stored |-> identity.draft, draft |-> NoIdentity,
                   at |-> "idle"])
  /\ UNCHANGED left

(* The request is refused or lost, a write fails, or enrol is killed. *)
EndEnroll ==
  /\ identity.at # "idle"
  /\ IdentityStep([identity EXCEPT !.at = "idle"])
  /\ UNCHANGED left

Reset ==
  /\ Loads(file) /\ Spend("resets")
  /\ IdentityStep([identity EXCEPT !.stored = NoIdentity])

SyncIdentity ==
  /\ ~identity.stored.synced
  /\ IdentityStep([identity EXCEPT !.stored.synced = TRUE])
  /\ UNCHANGED left

-----------------------------------------------------------------------------
(* The daemon. *)

IdentityLoads ==
  identity.stored.state = "whole" /\ identity.stored.tight

(* It takes its policy from the file, once. *)
StartDaemon ==
  /\ daemon.at = "down" /\ Spend("starts")
  /\ Loads(file) /\ file.readable /\ IdentityLoads
  /\ daemon' = [DaemonDown EXCEPT !.at = "up", !.settings = Load,
                  !.hand = hand, !.origin = origin,
                  !.overwritten = overwritten]
  /\ policy' = DeriveActive(Load)
  /\ bucket' = FullBucket(policy'.rate)
  /\ sweep' = NoSweep /\ probes' = <<>> /\ late' = 0
  /\ UNCHANGED <<cast, configVars, toolVars>>

(* A poll that fails changes nothing, an empty answer turns the sensor on. *)
(* A newer version goes to the poll's own copy of the settings, which      *)
(* nobody reads; `enabled` is obeyed whatever the version.                 *)
PollConfig ==
  /\ daemon.at = "up"
  /\ \E remote \in UNION {FetchConfig(answer) : answer \in cast.answers} :
       daemon' =
         [daemon EXCEPT
            !.enabled = RemoteEnabled(remote),
            !.settings = IF Applies(remote, daemon.version)
                           THEN Apply(remote, @) ELSE @,
            !.version = IF Applies(remote, daemon.version)
                          THEN remote.version ELSE @]
  /\ UNCHANGED <<cast, left, configVars, toolVars, scannerVars>>

BeginSweep ==
  /\ daemon.at = "up" /\ daemon.enabled
  /\ StartSweep
  /\ UNCHANGED <<cast, left, configVars, toolVars, daemon>>

Sweep ==
  /\ daemon.at # "down"
  /\ SweepStep(daemon.at = "stopping")
  /\ UNCHANGED <<cast, left, configVars, toolVars, daemon>>

TimePasses ==
  /\ daemon.at # "down"
  /\ Tick \/ Forget
  /\ UNCHANGED <<cast, left, configVars, toolVars, daemon>>

StopDaemon ==
  /\ daemon.at = "up"
  /\ daemon' = [daemon EXCEPT !.at = "stopping"]
  /\ UNCHANGED <<cast, left, configVars, toolVars, scannerVars>>

(* When the sweep has ended, or the limit for it; or by a failure. *)
EndDaemon ==
  /\ daemon.at # "down"
  /\ daemon' = DaemonDown
  /\ policy' = Off /\ sweep' = NoSweep /\ bucket' = FullBucket(1)
  /\ probes' = <<>> /\ late' = 0
  /\ UNCHANGED <<cast, left, configVars, toolVars>>

(* Configuration and credentials were synced before they were renamed; an  *)
(* identity may be cut off.                                                *)
PowerFails ==
  /\ Spend("outages")
  /\ daemon' = DaemonDown
  /\ policy' = Off /\ sweep' = NoSweep /\ bucket' = FullBucket(1)
  /\ probes' = <<>> /\ late' = 0
  /\ setup' = NoSetup
  /\ \E state \in {identity.stored.state} \cup
                  (IF identity.stored.synced THEN {} ELSE {"partial"}) :
       identity' = [identity EXCEPT !.at = "idle", !.stored.state = state,
                      !.stored.synced = TRUE]
  /\ outage' = (outage \/ ~identity.stored.synced)
  /\ UNCHANGED <<cast, configVars, secrets>>

-----------------------------------------------------------------------------
Next ==
  \/ EditByHand \/ GarbleByHand \/ RemoveByHand
  \/ StartSetup \/ AnswerSetup \/ DraftCredentials \/ StoreCredentials
  \/ ReadDocument \/ CreateTemporary \/ WriteTemporary \/ ReplaceFile
  \/ ReplaceFails \/ EndSetup
  \/ Enroll \/ DraftIdentity \/ TightenIdentity \/ StoreIdentity
  \/ EndEnroll \/ Reset \/ SyncIdentity
  \/ StartDaemon \/ PollConfig \/ BeginSweep \/ Sweep \/ TimePasses
  \/ StopDaemon \/ EndDaemon \/ PowerFails

Spec == Init /\ [][Next]_vars

-----------------------------------------------------------------------------
(* Properties. *)

(* What the file by hand permits, in the words of its comments. *)
Consented(config, probe) ==
  /\ config.mode # "passive_only"
  /\ config.active.enabled /\ config.active.acknowledged
  /\ \E text \in config.active.targets :
       CidrContains(Parse(text), probe.ip)
  /\ \A text \in config.active.exclude :
       ~CidrContains(Parse(text), probe.ip)
  /\ probe.kind = "icmp" => config.active.icmp
  /\ probe.kind = "snmp" =>
       /\ config.mode = "active" /\ config.active.snmp
       /\ probe.with \subseteq config.active.communities
  /\ probe.kind \in {"connect", "banner"} =>
       /\ config.active.tcp_connect
       /\ probe.with \subseteq config.active.ports
       /\ config.mode = "active" \/ probe.with \subseteq AllowedPorts
  /\ probe.kind = "banner" =>
       config.mode = "active" /\ config.active.banner

(* Every probe is one that the operator permitted in the settings he had   *)
(* last written by hand before the daemon started; or, where setup then    *)
(* replaced that edit unseen (setup.rs write_config reads the file, then   *)
(* renames its own over it), in the settings by hand that setup had read.  *)
(* Setup's answers, the settings of the backend and the cuts by mode,      *)
(* exclusion and port list never add to it (config.rs DiscoveryPolicy,     *)
(* remote_config.rs, scanner.rs "die eigentliche Zusage").                 *)
ProbesConsented ==
  \A i \in DOMAIN probes :
    /\ Consented(daemon.origin, probes[i])
    /\ Consented(daemon.hand, probes[i]) \/ daemon.overwritten

(* setup.rs:15-18: setup does not touch what active discovery may do, "a   *)
(* decision made by hand in the config file on the host", and can "never   *)
(* turn a sensor into something that sends packets it did not send         *)
(* before": every probe is permitted by what was last written by hand.     *)
(* The code breaks it: write_config undoes an edit, a withdrawn permission *)
(* too, that comes between its reading and its rename.                     *)
SetupAddsNoProbe ==
  \A i \in DOMAIN probes : Consented(daemon.hand, probes[i])

(* In any stretch of time the probes are no more than one bucket and what  *)
(* flows in meanwhile, and at most one probe leaves after the shutdown was *)
(* announced (rate_limit.rs, scanner.rs). *)
ProbesPaced ==
  /\ \A i, j \in DOMAIN probes :
       i <= j =>
         (j - i + 1) * TokenTicks
           <= Capacity + policy.rate * (probes[i].age - probes[j].age)
  /\ late <= 1

(* The settings setup has no question for. *)
Elsewhere(config) ==
  <<config.mode, config.active, config.passive, config.privacy,
    config.exceeded, config.fritzbox.timeouts, config.fritzbox.packet>>

(* However setup, enrol and the machine end: no file is found cut off (an  *)
(* identity only when the power failed), an identity is never open to      *)
(* others, and the daemon can read the configuration or setup said         *)
(* otherwise.  The settings setup has no question for are those last       *)
(* written by hand; an edit that came between setup's reading and its      *)
(* rename is lost as a whole, and they are those of the document it had    *)
(* read, never a mixture.  A file that loaded still loads unless it was    *)
(* edited while setup ran, for the answers are checked against the file of *)
(* setup's start (setup.rs run, write_config, write_atomically,            *)
(* identity.rs and secrets.rs save). *)
FilesSurvive ==
  /\ file.state # "partial" /\ secrets.stored # "partial"
  /\ identity.stored.state = "partial" => outage
  /\ identity.stored.tight
  /\ file.state = "whole" =>
       /\ Elsewhere(file.config) = Elsewhere(origin)
       /\ Elsewhere(file.config) = Elsewhere(hand) \/ overwritten
  /\ sound => Loads(file)
  /\ file.readable \/ warned

=============================================================================
