---------------------------- MODULE Host_proofs -----------------------------
(***************************************************************************)
(* What the host promises, for every configuration an operator may write,  *)
(* any number of edits, runs, outages and probes, every width of an        *)
(* address, every rate and every resolution of the clock: the probes are   *)
(* those that were permitted by hand, they keep the pace, and the files    *)
(* survive.                                                                *)
(***************************************************************************)
EXTENDS Host, SequenceTheorems, TLAPS

-----------------------------------------------------------------------------
(* The inductive invariant, part by part. *)

Busy == {"creating", "writing", "replacing"}
Settled == {"credentials", "storing", "reading"} \cup Busy

(* What loads is what was written by hand, but for setup's questions; last *)
(* by hand, as long as setup has overwritten nothing.                      *)
FileInv ==
  /\ DOMAIN file = {"state", "config", "readable"}
  /\ file.state \in {"absent", "whole", "garbled"}
  /\ IsConfig(file.config) /\ IsConfig(origin)
  /\ file.state = "absent" => file.config = Defaults
  /\ file.state # "garbled" => Elsewhere(file.config) = Elsewhere(origin)
  /\ origin = hand \/ overwritten
  /\ sound => Loads(file)
  /\ file.readable \/ warned

(* As long as nobody edits the file, setup works on what is in it. *)
SetupInv ==
  /\ DOMAIN setup = DOMAIN NoSetup
  /\ setup.at \in {"idle", "asking"} \cup Settled
  /\ IsConfig(setup.start) /\ IsConfig(setup.document)
  /\ setup.at # "idle" /\ sound => setup.start = file.config
  /\ setup.at \in Settled => Valid(Preview(setup.plan, setup.start))
  /\ setup.at \in Busy /\ sound => setup.document = setup.start
  /\ setup.at \in Busy /\ ~setup.raced =>
       Elsewhere(setup.document) = Elsewhere(origin)
  /\ setup.at = "replacing" =>
       temp = [state |-> "whole",
               config |-> UpdateDocument(setup.plan, setup.document)]

StoreInv ==
  /\ DOMAIN secrets = {"stored", "draft"} /\ secrets.stored # "partial"
  /\ DOMAIN identity = {"stored", "draft", "at"}
  /\ DOMAIN identity.stored = DOMAIN NoIdentity
  /\ DOMAIN identity.draft = DOMAIN NoIdentity
  /\ identity.at = "tight" =>
       identity.draft.state = "whole" /\ identity.draft.tight
  /\ identity.stored.tight
  /\ identity.stored.state = "partial" => outage

FilesInv == FileInv /\ SetupInv /\ StoreInv

-----------------------------------------------------------------------------
(* Configurations. *)

LEMMA DefaultsShape ==
  /\ DOMAIN Defaults = {"mode", "active", "passive", "privacy", "deployment",
                        "interfaces", "promiscuous", "fritzbox", "backend",
                        "exceeded"}
  /\ DOMAIN Defaults.fritzbox = {"enabled", "address", "interfaces",
                                 "timeouts", "packet"}
  /\ Defaults.active.rate = 5
BY DEF Defaults

LEMMA DefaultsIsConfig == IsConfig(Defaults)
BY DefaultsShape DEF IsConfig

(* Setup changes none of the settings it has no question for. *)
LEMMA UpdateKeeps ==
  ASSUME NEW plan, NEW d, IsConfig(d)
  PROVE  /\ IsConfig(UpdateDocument(plan, d))
         /\ Elsewhere(UpdateDocument(plan, d)) = Elsewhere(d)
<1> DEFINE u == UpdateDocument(plan, d)
<1>1. DOMAIN d = {"mode", "active", "passive", "privacy", "deployment",
                  "interfaces", "promiscuous", "fritzbox", "backend",
                  "exceeded"}
      /\ DOMAIN d.fritzbox = {"enabled", "address", "interfaces",
                              "timeouts", "packet"}
  BY DefaultsShape DEF IsConfig
<1>2. DOMAIN u = DOMAIN d
  BY <1>1 DEF UpdateDocument, Preview
<1>3. u.fritzbox = Router(plan.fritz, d.fritzbox)
  BY <1>1 DEF UpdateDocument, Preview
<1>4. DOMAIN u = DOMAIN d /\ DOMAIN u.fritzbox = DOMAIN d.fritzbox
  BY <1>1, <1>2, <1>3 DEF Router
<1>5. /\ u.mode = d.mode /\ u.active = d.active /\ u.passive = d.passive
      /\ u.privacy = d.privacy /\ u.exceeded = d.exceeded
  BY <1>1 DEF UpdateDocument, Preview
<1>6. /\ u.fritzbox.timeouts = d.fritzbox.timeouts
      /\ u.fritzbox.packet = d.fritzbox.packet
  BY <1>3 DEF Router
<1> HIDE DEF u
<1>7. IsConfig(u)
  BY <1>4, <1>5 DEF IsConfig
<1>8. Elsewhere(u) = Elsewhere(d)
  BY <1>5, <1>6 DEF Elsewhere
<1> QED BY <1>7, <1>8 DEF u

LEMMA LoadIsConfig ==
  ASSUME FileInv PROVE Load = file.config
BY DEF FileInv, Load

-----------------------------------------------------------------------------
(* Files. *)

LEMMA InitFiles == Init => FilesInv
<1> SUFFICES ASSUME Init PROVE FilesInv
  OBVIOUS
<1>1. FileInv
  <2>1. PICK config \in cast.first :
          /\ file = [state |-> "whole", config |-> config, readable |-> TRUE]
          /\ hand = config /\ origin = config /\ sound = Valid(config)
    BY DEF Init
  <2>2. IsConfig(config)
    BY CastsAssumption DEF Init
  <2> QED BY <2>1, <2>2 DEF FileInv, Loads
<1>2. SetupInv
  BY DefaultsIsConfig DEF Init, SetupInv, NoSetup, Settled, Busy
<1>3. StoreInv
  BY CastsAssumption DEF Init, StoreInv, NoIdentity
<1> QED BY <1>1, <1>2, <1>3 DEF FilesInv

(* What a step leaves alone keeps its part of the invariant. *)
LEMMA StoreKept ==
  ASSUME StoreInv, UNCHANGED <<secrets, identity, outage>> PROVE StoreInv'
BY DEF StoreInv

LEMMA ConfigKept ==
  ASSUME FileInv, SetupInv, UNCHANGED <<configVars, setup>>
  PROVE  FileInv' /\ SetupInv'
BY DEF FileInv, SetupInv, configVars, history, Loads

(* An edit by hand. *)
LEMMA EditFiles ==
  ASSUME FilesInv, NEW f, NEW config, Edit(f, config),
         DOMAIN f = {"state", "config", "readable"}, f.readable,
         f.state \in {"absent", "whole", "garbled"}, IsConfig(f.config),
         f.state = "absent" => f.config = Defaults, IsConfig(config),
         f.state # "garbled" => Elsewhere(f.config) = Elsewhere(config)
  PROVE  FilesInv'
<1>1. FileInv'
  BY DEF Edit, FileInv, Loads
<1>2. SetupInv'
  <2>1. /\ setup' = [setup EXCEPT !.raced =
                       setup.at \in {"creating", "writing", "replacing"}]
        /\ sound' = (Loads(f) /\ setup.at = "idle") /\ temp' = temp
    BY DEF Edit
  <2>2. /\ DOMAIN setup' = DOMAIN setup /\ setup'.at = setup.at
        /\ setup'.start = setup.start /\ setup'.plan = setup.plan
        /\ setup'.document = setup.document
        /\ setup'.raced = (setup.at \in Busy)
    BY <2>1 DEF FilesInv, SetupInv, NoSetup, Busy
  <2> QED BY <2>1, <2>2 DEF FilesInv, SetupInv, Settled, Busy
<1>3. StoreInv'
  BY StoreKept DEF FilesInv, Edit
<1> QED BY <1>1, <1>2, <1>3 DEF FilesInv

LEMMA EditsFiles ==
  ASSUME FilesInv, cast \in Casts, EditByHand \/ GarbleByHand \/ RemoveByHand
  PROVE  FilesInv'
<1>1. CASE EditByHand
  <2>1. PICK config \in cast.documents :
          Edit([state |-> "whole", config |-> config, readable |-> TRUE],
               config)
    BY <1>1 DEF EditByHand
  <2>2. IsConfig(config)
    BY CastsAssumption
  <2> QED BY <2>1, <2>2, EditFiles
<1>2. CASE GarbleByHand
  <2> DEFINE f == [file EXCEPT !.state = "garbled", !.readable = TRUE]
  <2>1. /\ DOMAIN f = {"state", "config", "readable"} /\ f.readable
        /\ f.state = "garbled" /\ f.config = file.config
    BY DEF FilesInv, FileInv
  <2>2. Edit(f, origin)
    BY <1>2 DEF GarbleByHand
  <2> HIDE DEF f
  <2> QED BY <2>1, <2>2, EditFiles DEF FilesInv, FileInv
<1>3. CASE RemoveByHand
  <2> DEFINE f == [state |-> "absent", config |-> Defaults, readable |-> TRUE]
  <2>1. /\ DOMAIN f = {"state", "config", "readable"} /\ f.readable
        /\ f.state = "absent" /\ f.config = Defaults
    OBVIOUS
  <2>2. Edit(f, Defaults)
    BY <1>3 DEF RemoveByHand
  <2> HIDE DEF f
  <2> QED BY <2>1, <2>2, EditFiles, DefaultsIsConfig
<1> QED BY <1>1, <1>2, <1>3

(* Setup. *)
LEMMA SetupFiles ==
  ASSUME FilesInv,
         \/ StartSetup \/ AnswerSetup \/ ReadDocument \/ CreateTemporary
         \/ WriteTemporary \/ ReplaceFile \/ ReplaceFails \/ EndSetup
  PROVE  FilesInv'
<1>1. FileInv /\ SetupInv /\ StoreInv
  BY DEF FilesInv
<1>2. CASE StartSetup
  <2>1. /\ setup' = [NoSetup EXCEPT !.at = "asking",
                       !.start = IF Loads(file) THEN Load ELSE Defaults]
        /\ sound' = Loads(file) /\ UNCHANGED <<file, temp, history, warned>>
    BY <1>2 DEF StartSetup
  <2>2. /\ setup'.at = "asking" /\ setup'.document = Defaults
        /\ setup'.start = IF Loads(file) THEN file.config ELSE Defaults
        /\ DOMAIN setup' = DOMAIN NoSetup
    BY <1>1, <2>1, LoadIsConfig DEF NoSetup
  <2>3. FileInv'
    BY <1>1, <2>1 DEF FileInv, Loads, history
  <2>4. SetupInv'
    BY <1>1, <2>1, <2>2, DefaultsIsConfig
       DEF FileInv, SetupInv, Settled, Busy
  <2>5. StoreInv'
    BY <1>1, <1>2, StoreKept DEF StartSetup
  <2> QED BY <2>3, <2>4, <2>5 DEF FilesInv
<1>3. CASE AnswerSetup
  <2>1. PICK a \in cast.args :
          \E plan \in Plans(setup.start, a, cast.host) :
            /\ Valid(Preview(plan, setup.start))
            /\ setup' = [setup EXCEPT !.plan = plan,
                           !.at = IF a.interactive /\ plan.fritz.enabled
                                    THEN "credentials"
                                    ELSE AfterCredentials(plan)]
    BY <1>3 DEF AnswerSetup
  <2>2. PICK plan \in Plans(setup.start, a, cast.host) :
          /\ Valid(Preview(plan, setup.start))
          /\ setup' = [setup EXCEPT !.plan = plan,
                         !.at = IF a.interactive /\ plan.fritz.enabled
                                  THEN "credentials"
                                  ELSE AfterCredentials(plan)]
    BY <2>1
  <2>3. /\ setup.at = "asking"
        /\ UNCHANGED configVars /\ UNCHANGED <<secrets, identity, outage>>
    BY <1>3 DEF AnswerSetup
  <2>4. /\ setup'.at \in {"credentials", "idle", "reading"}
        /\ setup'.plan = plan /\ setup'.start = setup.start
        /\ setup'.document = setup.document
        /\ DOMAIN setup' = DOMAIN NoSetup
    BY <1>1, <2>2 DEF SetupInv, NoSetup, AfterCredentials
  <2>5. FileInv'
    BY <1>1, <2>3 DEF FileInv, configVars, history, Loads
  <2>6. SetupInv'
    BY <1>1, <2>2, <2>3, <2>4
       DEF SetupInv, configVars, history, Settled, Busy
  <2> QED BY <1>1, <2>3, <2>5, <2>6, StoreKept DEF FilesInv
<1>4. CASE ReadDocument
  <2>1. /\ setup.at = "reading" /\ file.state # "garbled"
        /\ setup' = [setup EXCEPT !.at = "creating", !.document = Load,
                       !.raced = FALSE]
        /\ UNCHANGED configVars /\ UNCHANGED <<secrets, identity, outage>>
    BY <1>4 DEF ReadDocument
  <2>2. /\ setup'.at = "creating" /\ setup'.document = file.config
        /\ setup'.plan = setup.plan /\ setup'.start = setup.start
        /\ DOMAIN setup' = DOMAIN NoSetup
    BY <1>1, <2>1, LoadIsConfig DEF SetupInv, NoSetup
  <2>3. FileInv'
    BY <1>1, <2>1 DEF FileInv, configVars, history, Loads
  <2>4. SetupInv'
    BY <1>1, <2>1, <2>2
       DEF FileInv, SetupInv, configVars, history, Settled, Busy
  <2> QED BY <1>1, <2>1, <2>3, <2>4, StoreKept DEF FilesInv
<1>5. CASE CreateTemporary \/ WriteTemporary
  <2>1. /\ setup' = [setup EXCEPT !.at = setup'.at]
        /\ UNCHANGED <<file, history, sound, warned>>
        /\ UNCHANGED <<secrets, identity, outage>>
    BY <1>1, <1>5 DEF CreateTemporary, WriteTemporary, SetupStep, SetupInv,
                      NoSetup
  <2>2. /\ setup.at \in Busy /\ setup'.at \in {"writing", "replacing"}
        /\ setup'.at = "replacing" =>
             temp' = [state |-> "whole",
                      config |-> UpdateDocument(setup.plan, setup.document)]
    BY <1>1, <1>5 DEF CreateTemporary, WriteTemporary, SetupStep, SetupInv,
                      NoSetup, Busy
  <2>3. /\ setup'.start = setup.start /\ setup'.plan = setup.plan
        /\ setup'.document = setup.document /\ setup'.raced = setup.raced
        /\ DOMAIN setup' = DOMAIN NoSetup
    BY <1>1, <2>1 DEF SetupInv, NoSetup
  <2>4. FileInv'
    BY <1>1, <2>1 DEF FileInv, Loads, history
  <2>5. SetupInv'
    BY <1>1, <2>1, <2>2, <2>3 DEF SetupInv, Settled, Busy, history
  <2> QED BY <1>1, <2>1, <2>4, <2>5, StoreKept DEF FilesInv
<1>6. CASE ReplaceFile
  <2> DEFINE new == UpdateDocument(setup.plan, setup.document)
  <2>1. PICK owned \in BOOLEAN :
          /\ file' = [state |-> temp.state, config |-> temp.config,
                      readable |-> owned /\ file.readable]
          /\ warned' = (warned \/ ~owned)
    BY <1>6 DEF ReplaceFile
  <2>2. /\ setup.at = "replacing" /\ setup' = [setup EXCEPT !.at = "idle"]
        /\ IF setup.raced
             THEN origin' = setup.document /\ overwritten' = TRUE
             ELSE UNCHANGED <<origin, overwritten>>
        /\ UNCHANGED <<hand, sound, secrets, identity, outage>>
    BY <1>6 DEF ReplaceFile, SetupStep
  <2>3. /\ file'.state = "whole" /\ file'.config = new
        /\ DOMAIN file' = {"state", "config", "readable"}
        /\ file'.readable = (owned /\ file.readable)
    BY <1>1, <2>1, <2>2 DEF SetupInv
  <2>4. file'.readable \/ warned'
    BY <1>1, <2>1, <2>3, Zenon DEF FileInv
  <2>5. IsConfig(new) /\ Elsewhere(new) = Elsewhere(setup.document)
    BY <1>1, UpdateKeeps DEF SetupInv
  <2>6. sound => Valid(new)
    BY <1>1, <2>2 DEF SetupInv, UpdateDocument, Settled, Busy
  <2>7. IsConfig(origin') /\ Elsewhere(origin') = Elsewhere(setup.document)
    BY <1>1, <2>2 DEF FileInv, SetupInv, Busy
  <2>8. origin' = hand' \/ overwritten'
    BY <1>1, <2>2, Zenon DEF FileInv
  <2> HIDE DEF new
  <2>9. FileInv'
    BY <2>2, <2>3, <2>4, <2>5, <2>6, <2>7, <2>8 DEF FileInv, Loads
  <2>10. /\ setup'.at = "idle" /\ setup'.start = setup.start
        /\ setup'.document = setup.document
        /\ DOMAIN setup' = DOMAIN NoSetup
    BY <1>1, <2>2 DEF SetupInv, NoSetup
  <2>11. SetupInv'
    BY <1>1, <2>10 DEF SetupInv, Settled, Busy
  <2> QED BY <1>1, <2>2, <2>9, <2>11, StoreKept DEF FilesInv
<1>7. CASE ReplaceFails \/ EndSetup
  <2>1. /\ setup'.at = "idle"
        /\ IsConfig(setup'.start) /\ IsConfig(setup'.document)
        /\ DOMAIN setup' = DOMAIN NoSetup
    BY <1>1, <1>7, DefaultsIsConfig
       DEF SetupInv, ReplaceFails, SetupStep, EndSetup, NoSetup
  <2>2. /\ UNCHANGED <<file, history, sound, warned>>
        /\ UNCHANGED <<secrets, identity, outage>>
    BY <1>7 DEF ReplaceFails, EndSetup, configVars, history
  <2>3. FileInv'
    BY <1>1, <2>2 DEF FileInv, Loads, history
  <2>4. SetupInv'
    BY <2>1 DEF SetupInv, Settled, Busy
  <2> QED BY <1>1, <2>2, <2>3, <2>4, StoreKept DEF FilesInv
<1> QED BY <1>2, <1>3, <1>4, <1>5, <1>6, <1>7

(* Credentials. *)
LEMMA CredentialsFiles ==
  ASSUME FilesInv, DraftCredentials \/ StoreCredentials
  PROVE  FilesInv'
<1>1. FileInv /\ SetupInv /\ StoreInv
  BY DEF FilesInv
<1>2. UNCHANGED configVars /\ UNCHANGED <<identity, outage>>
  BY DEF DraftCredentials, StoreCredentials
<1>3. FileInv'
  BY <1>1, <1>2 DEF FileInv, configVars, history, Loads
<1>4. /\ setup.at \in Settled
      /\ setup'.at \in {"storing", "idle", "reading"}
      /\ setup'.plan = setup.plan /\ setup'.start = setup.start
      /\ setup'.document = setup.document
      /\ DOMAIN setup' = DOMAIN NoSetup
  BY <1>1 DEF SetupInv, DraftCredentials, StoreCredentials, SetupStep,
              AfterCredentials, NoSetup, Settled
<1>5. SetupInv'
  BY <1>1, <1>2, <1>4 DEF SetupInv, configVars, history, Settled, Busy
<1>6. DOMAIN secrets' = {"stored", "draft"} /\ secrets'.stored # "partial"
  <2>1. CASE DraftCredentials
    BY <1>1, <2>1 DEF DraftCredentials, StoreInv
  <2>2. CASE StoreCredentials
    BY <1>1, <2>2 DEF StoreCredentials, StoreInv
  <2> QED BY <2>1, <2>2
<1>7. StoreInv'
  BY <1>1, <1>2, <1>6 DEF StoreInv
<1> QED BY <1>3, <1>5, <1>7 DEF FilesInv

(* The identity. *)
IdentitySteps ==
  \/ Enroll \/ DraftIdentity \/ TightenIdentity \/ StoreIdentity
  \/ EndEnroll \/ Reset \/ SyncIdentity

LEMMA IdentityStore ==
  ASSUME StoreInv, IdentitySteps
  PROVE  StoreInv'
<1>1. UNCHANGED <<secrets, outage>>
  BY DEF IdentitySteps, Enroll, DraftIdentity, TightenIdentity,
         StoreIdentity, EndEnroll, Reset, SyncIdentity, IdentityStep
<1>2. DOMAIN secrets' = {"stored", "draft"} /\ secrets'.stored # "partial"
  BY <1>1 DEF StoreInv
<1>3. /\ DOMAIN identity = {"stored", "draft", "at"}
      /\ DOMAIN identity.stored = DOMAIN NoIdentity
      /\ DOMAIN identity.draft = DOMAIN NoIdentity
      /\ identity.at = "tight" =>
           identity.draft.state = "whole" /\ identity.draft.tight
      /\ identity.stored.tight
      /\ identity.stored.state = "partial" => outage
  BY DEF StoreInv
<1>4. CASE Enroll \/ EndEnroll
  <2>1. /\ DOMAIN identity' = DOMAIN identity
        /\ identity'.stored = identity.stored
        /\ identity'.draft = identity.draft
        /\ identity'.at \in {"asking", "idle"}
    BY <1>3, <1>4 DEF Enroll, EndEnroll, IdentityStep
  <2> QED BY <1>1, <1>2, <1>3, <2>1 DEF StoreInv
<1>5. CASE DraftIdentity
  <2>1. PICK state \in {"partial", "whole"} :
          identity' = [identity EXCEPT !.at = "drafted",
            !.draft = [state |-> state, tight |-> FALSE, synced |-> FALSE]]
    BY <1>5 DEF DraftIdentity, IdentityStep
  <2>2. /\ DOMAIN identity' = DOMAIN identity
        /\ identity'.stored = identity.stored
        /\ DOMAIN identity'.draft = DOMAIN NoIdentity
        /\ identity'.at = "drafted"
    BY <1>1, <1>2, <1>3, <2>1 DEF NoIdentity
  <2> QED BY <1>1, <1>2, <1>3, <2>2 DEF StoreInv
<1>6. CASE TightenIdentity
  <2>1. /\ identity.draft.state = "whole"
        /\ identity' = [identity EXCEPT !.at = "tight", !.draft.tight = TRUE]
    BY <1>6 DEF TightenIdentity, IdentityStep
  <2>2. /\ DOMAIN identity' = DOMAIN identity
        /\ identity'.stored = identity.stored
        /\ identity'.draft = [identity.draft EXCEPT !.tight = TRUE]
    BY <1>1, <1>2, <1>3, <2>1
  <2>3. /\ DOMAIN identity'.draft = DOMAIN NoIdentity
        /\ identity'.draft.state = "whole" /\ identity'.draft.tight
    BY <1>1, <1>2, <1>3, <2>1, <2>2 DEF NoIdentity
  <2> QED BY <1>1, <1>2, <1>3, <2>2, <2>3 DEF StoreInv
<1>7. CASE StoreIdentity
  <2>1. /\ identity.at = "tight"
        /\ identity' = [stored |-> identity.draft, draft |-> NoIdentity,
                        at |-> "idle"]
    BY <1>7 DEF StoreIdentity, IdentityStep
  <2> QED BY <1>1, <1>2, <1>3, <2>1 DEF StoreInv
<1>8. CASE Reset
  <2>1. identity' = [identity EXCEPT !.stored = NoIdentity]
    BY <1>8 DEF Reset, IdentityStep
  <2>2. /\ DOMAIN identity' = DOMAIN identity
        /\ identity'.stored = NoIdentity
        /\ identity'.draft = identity.draft /\ identity'.at = identity.at
    BY <1>1, <1>2, <1>3, <2>1
  <2>3. NoIdentity.tight /\ NoIdentity.state = "absent"
    BY DEF NoIdentity
  <2> QED BY <1>1, <1>2, <1>3, <2>2, <2>3 DEF StoreInv
<1>9. CASE SyncIdentity
  <2>1. identity' = [identity EXCEPT !.stored.synced = TRUE]
    BY <1>9 DEF SyncIdentity, IdentityStep
  <2>2. /\ DOMAIN identity' = DOMAIN identity
        /\ identity'.stored = [identity.stored EXCEPT !.synced = TRUE]
        /\ identity'.draft = identity.draft /\ identity'.at = identity.at
    BY <1>1, <1>2, <1>3, <2>1
  <2>3. /\ DOMAIN identity'.stored = DOMAIN NoIdentity
        /\ identity'.stored.tight = identity.stored.tight
        /\ identity'.stored.state = identity.stored.state
    BY <1>1, <1>2, <1>3, <2>2 DEF NoIdentity
  <2> QED BY <1>1, <1>2, <1>3, <2>2, <2>3 DEF StoreInv
<1> QED BY <1>4, <1>5, <1>6, <1>7, <1>8, <1>9 DEF IdentitySteps

LEMMA IdentityFiles ==
  ASSUME FilesInv, IdentitySteps PROVE FilesInv'
<1>1. UNCHANGED <<configVars, setup>>
  BY DEF IdentitySteps, Enroll, DraftIdentity, TightenIdentity,
         StoreIdentity, EndEnroll, Reset, SyncIdentity, IdentityStep
<1> QED BY <1>1, ConfigKept, IdentityStore DEF FilesInv

LEMMA PowerFiles ==
  ASSUME FilesInv, PowerFails PROVE FilesInv'
<1>1. FileInv /\ SetupInv /\ StoreInv
  BY DEF FilesInv
<1>2. /\ UNCHANGED configVars /\ UNCHANGED secrets /\ setup' = NoSetup
      /\ outage' = (outage \/ ~identity.stored.synced)
  BY DEF PowerFails
<1>3. PICK state \in {identity.stored.state} \cup
                     (IF identity.stored.synced THEN {} ELSE {"partial"}) :
        identity' = [identity EXCEPT !.at = "idle", !.stored.state = state,
                       !.stored.synced = TRUE]
  BY DEF PowerFails
<1>4. FileInv'
  BY <1>1, <1>2 DEF FileInv, configVars, history, Loads
<1>5. SetupInv'
  BY <1>2, DefaultsIsConfig DEF SetupInv, NoSetup, Settled, Busy
<1>6. /\ DOMAIN identity' = {"stored", "draft", "at"}
      /\ identity'.at = "idle" /\ identity'.draft = identity.draft
      /\ DOMAIN identity'.stored = DOMAIN NoIdentity
      /\ identity'.stored.tight = identity.stored.tight
      /\ identity'.stored.state = state
  BY <1>1, <1>3 DEF StoreInv, NoIdentity
<1>7. state = "partial" => outage'
  BY <1>1, <1>2, <1>3 DEF StoreInv
<1>8. StoreInv'
  BY <1>1, <1>2, <1>6, <1>7 DEF StoreInv
<1> QED BY <1>4, <1>5, <1>8 DEF FilesInv

(* The daemon writes no file. *)
LEMMA DaemonFiles ==
  ASSUME FilesInv,
         \/ StartDaemon \/ PollConfig \/ BeginSweep \/ Sweep \/ TimePasses
         \/ StopDaemon \/ EndDaemon \/ UNCHANGED vars
  PROVE  FilesInv'
<1>1. /\ UNCHANGED <<configVars, setup>>
      /\ UNCHANGED <<secrets, identity, outage>>
  BY DEF StartDaemon, PollConfig, BeginSweep, Sweep, TimePasses, StopDaemon,
         EndDaemon, vars, toolVars
<1> QED BY <1>1, ConfigKept, StoreKept DEF FilesInv

LEMMA CastStays == Next => cast' = cast
BY DEF Next, Edit, EditByHand, GarbleByHand, RemoveByHand, StartSetup,
       AnswerSetup, DraftCredentials, StoreCredentials, ReadDocument,
       CreateTemporary, WriteTemporary, ReplaceFile, ReplaceFails, EndSetup,
       Enroll, DraftIdentity, TightenIdentity, StoreIdentity, EndEnroll,
       Reset, SyncIdentity, IdentityStep, StartDaemon, PollConfig,
       BeginSweep, Sweep, TimePasses, StopDaemon, EndDaemon, PowerFails

LEMMA NextFiles ==
  ASSUME FilesInv, cast \in Casts, [Next]_vars
  PROVE  FilesInv' /\ cast' \in Casts
<1>1. cast' \in Casts
  BY CastStays DEF vars
<1>2. CASE EditByHand \/ GarbleByHand \/ RemoveByHand
  BY <1>1, <1>2, EditsFiles
<1>3. CASE \/ StartSetup \/ AnswerSetup \/ ReadDocument \/ CreateTemporary
           \/ WriteTemporary \/ ReplaceFile \/ ReplaceFails \/ EndSetup
  BY <1>1, <1>3, SetupFiles
<1>4. CASE DraftCredentials \/ StoreCredentials
  BY <1>1, <1>4, CredentialsFiles
<1>5. CASE IdentitySteps
  BY <1>1, <1>5, IdentityFiles
<1>6. CASE PowerFails
  BY <1>1, <1>6, PowerFiles
<1>7. CASE \/ StartDaemon \/ PollConfig \/ BeginSweep \/ Sweep
           \/ TimePasses \/ StopDaemon \/ EndDaemon \/ UNCHANGED vars
  BY <1>1, <1>7, DaemonFiles
<1> QED BY <1>1, <1>2, <1>3, <1>4, <1>5, <1>6, <1>7 DEF Next, IdentitySteps

(* However setup, enrol and the machine end: no file is found cut off but  *)
(* an identity when the power failed, no identity is open to others, the   *)
(* settings setup does not ask about are those last written by hand (those *)
(* of the document setup had read, where it overwrote an edit made since), *)
(* and a file that loaded still loads unless it was edited while setup ran *)
(* (setup.rs run, write_config and write_atomically, identity.rs and       *)
(* secrets.rs save). *)
THEOREM FilesSurviveAlways == Spec => []FilesSurvive
<1>1. Init => FilesInv /\ cast \in Casts
  BY InitFiles DEF Init
<1>2. (FilesInv /\ cast \in Casts) /\ [Next]_vars
        => (FilesInv /\ cast \in Casts)'
  BY NextFiles
<1>3. FilesInv => FilesSurvive
  <2> SUFFICES ASSUME FilesInv PROVE FilesSurvive
    OBVIOUS
  <2>1. file.state # "partial" /\ (file.state = "whole" =>
          /\ Elsewhere(file.config) = Elsewhere(origin)
          /\ Elsewhere(file.config) = Elsewhere(hand) \/ overwritten)
    BY DEF FilesInv, FileInv
  <2>2. secrets.stored # "partial"
    BY DEF FilesInv, StoreInv
  <2>3. identity.stored.tight /\ (identity.stored.state = "partial" => outage)
    BY Zenon DEF FilesInv, StoreInv
  <2>4. (sound => Loads(file)) /\ (file.readable \/ warned)
    BY Zenon DEF FilesInv, FileInv
  <2> QED BY <2>1, <2>2, <2>3, <2>4, Zenon DEF FilesSurvive
<1> QED BY <1>1, <1>2, <1>3, PTL DEF Spec

-----------------------------------------------------------------------------
(* The probes.  What the daemon holds in memory follows the file it was    *)
(* started with. *)

DaemonInv ==
  /\ DOMAIN daemon = DOMAIN DaemonDown
  /\ daemon.at \in {"down", "up", "stopping"}
  /\ IsConfig(daemon.origin)
  /\ daemon.origin = daemon.hand \/ daemon.overwritten
  /\ policy = IF daemon.at = "down" THEN Off
              ELSE DeriveActive(daemon.origin)

(* A host whose turn it is may be probed, with what the policy lists. *)
SweepInv ==
  /\ DOMAIN sweep = DOMAIN NoSweep
  /\ sweep.at \in {"idle", "host", "icmp", "community", "snmp", "port",
                   "connect"}
  /\ sweep.at \notin {"idle", "host"} =>
       /\ MayProbe(policy, sweep.ip)
       /\ sweep.communities \subseteq policy.communities
       /\ sweep.ports \subseteq policy.ports
  /\ sweep.at = "icmp" => policy.icmp

IsProbes(ps) ==
  /\ \E S : ps \in Seq(S)
  /\ \A i \in 1..Len(ps) :
       /\ DOMAIN ps[i] = {"kind", "with", "ip", "age"}
       /\ ps[i].age \in Nat

AllConsented(ps, config) == \A i \in 1..Len(ps) : Consented(config, ps[i])

(* What was sent since a probe and what is left in the bucket, `units`,    *)
(* were a full bucket and what flowed in. *)
Paced(ps, rate, units) ==
  \A i \in 1..Len(ps) :
    /\ (Len(ps) - i + 1) * TokenTicks + units
         <= rate * TokenTicks + rate * ps[i].age
    /\ \A j \in i..Len(ps) :
         (j - i + 1) * TokenTicks
           <= rate * TokenTicks + rate * (ps[i].age - ps[j].age)

BucketInv ==
  /\ policy.rate \in Nat
  /\ DOMAIN bucket = {"units", "since"}
  /\ bucket.units \in Nat /\ bucket.since \in Nat

ProbesInv ==
  /\ IsProbes(probes)
  /\ AllConsented(probes, daemon.origin)
  /\ Paced(probes, policy.rate, Refilled(bucket))

(* The one probe that was waiting for its token. *)
LateInv ==
  /\ late \in {0, 1}
  /\ daemon.at # "stopping" => late = 0
  /\ sweep.at \in {"icmp", "snmp", "connect"} => late = 0

ProbingInv == DaemonInv /\ SweepInv /\ BucketInv /\ ProbesInv /\ LateInv

-----------------------------------------------------------------------------
(* The policy permits no more than the file it is made from. *)

LEMMA RateIsNat ==
  ASSUME NEW config, IsConfig(config) PROVE DeriveActive(config).rate \in Nat
BY DEF DeriveActive, IsConfig, Off

LEMMA PolicyConsents ==
  ASSUME NEW config, NEW ip, MayProbe(DeriveActive(config), ip)
  PROVE  /\ config.mode # "passive_only"
         /\ config.active.enabled /\ config.active.acknowledged
         /\ \E text \in config.active.targets : CidrContains(Parse(text), ip)
         /\ \A text \in config.active.exclude :
              ~CidrContains(Parse(text), ip)
<1> DEFINE p == DeriveActive(config)
<1>1. DisabledReason(config) = "none"
  BY DEF DeriveActive, MayProbe, Off
<1>2. AllowsActive(config.mode) /\ config.active.enabled
      /\ config.active.acknowledged
  BY <1>1, Zenon DEF DisabledReason
<1>3. /\ p.targets = {Parse(t) : t \in config.active.targets}
      /\ p.exclude = {Parse(t) : t \in config.active.exclude}
  BY <1>1 DEF DeriveActive
<1>4. config.mode # "passive_only"
  BY <1>2 DEF AllowsActive
<1> HIDE DEF p
<1>5. /\ \E cidr \in p.targets : CidrContains(cidr, ip)
      /\ \A cidr \in p.exclude : ~CidrContains(cidr, ip)
  BY DEF MayProbe, p
<1> QED BY <1>2, <1>3, <1>4, <1>5

LEMMA ProbeConsents ==
  ASSUME NEW config, NEW probe,
         MayProbe(DeriveActive(config), probe.ip),
         probe.kind = "icmp" => DeriveActive(config).icmp,
         probe.kind = "snmp" =>
           probe.with \subseteq DeriveActive(config).communities,
         probe.kind = "snmp" => probe.with # {},
         probe.kind \in {"connect", "banner"} =>
           probe.with \subseteq DeriveActive(config).ports,
         probe.kind \in {"connect", "banner"} => probe.with # {},
         probe.kind = "banner" => DeriveActive(config).banner
  PROVE  Consented(config, probe)
<1> DEFINE p == DeriveActive(config)
<1>1. DisabledReason(config) = "none"
  BY DEF DeriveActive, MayProbe, Off
<1>2. /\ p.icmp = config.active.icmp
      /\ p.banner = (config.active.banner /\ config.mode = "active")
      /\ p.communities = IF config.mode = "active" /\ config.active.snmp
                           THEN config.active.communities ELSE {}
      /\ p.ports = IF ~config.active.tcp_connect THEN {}
                   ELSE IF config.mode = "active" THEN config.active.ports
                   ELSE config.active.ports \cap AllowedPorts
  BY <1>1 DEF DeriveActive, AllowsExtendedActive
<1> HIDE DEF p
<1>3. probe.kind = "icmp" => config.active.icmp
  BY <1>2 DEF p
<1>4. probe.kind = "snmp" =>
        /\ config.mode = "active" /\ config.active.snmp
        /\ probe.with \subseteq config.active.communities
  BY <1>2 DEF p
<1>5. probe.kind \in {"connect", "banner"} =>
        /\ config.active.tcp_connect
        /\ probe.with \subseteq config.active.ports
        /\ config.mode = "active" \/ probe.with \subseteq AllowedPorts
  BY <1>2 DEF p
<1>6. probe.kind = "banner" =>
        config.mode = "active" /\ config.active.banner
  BY <1>2 DEF p
<1> QED BY <1>3, <1>4, <1>5, <1>6, PolicyConsents, Zenon DEF Consented

-----------------------------------------------------------------------------
(* Lists of probes. *)

LEMMA TimesNext ==
  ASSUME NEW n \in Int, NEW k \in Int PROVE (n + 1) * k = n * k + k
OBVIOUS

LEMMA AppendProbe ==
  ASSUME NEW ps, IsProbes(ps), NEW p, p.age = 0,
         DOMAIN p = {"kind", "with", "ip", "age"},
         NEW config, AllConsented(ps, config), Consented(config, p),
         NEW rate \in Nat, NEW units \in Nat, Paced(ps, rate, units),
         units >= TokenTicks, units <= rate * TokenTicks
  PROVE  LET all == Append(ps, p) IN
         /\ IsProbes(all) /\ AllConsented(all, config)
         /\ Paced(all, rate, units - TokenTicks)
<1> DEFINE all == Append(ps, p)
<1>1. PICK S : ps \in Seq(S)
  BY DEF IsProbes
<1>2. /\ ps \in Seq(S \cup {p}) /\ Len(ps) \in Nat
  BY <1>1
<1>3. /\ all \in Seq(S \cup {p}) /\ Len(all) = Len(ps) + 1
      /\ \A i \in 1..Len(ps) : all[i] = ps[i]
      /\ all[Len(ps) + 1] = p
  BY <1>2
<1> HIDE DEF all
<1>4. IsProbes(all)
  BY <1>2, <1>3 DEF IsProbes
<1>5. AllConsented(all, config)
  BY <1>2, <1>3 DEF AllConsented
<1>6. Paced(all, rate, units - TokenTicks)
  <2> SUFFICES ASSUME NEW i \in 1..Len(all)
               PROVE  /\ (Len(all) - i + 1) * TokenTicks
                           + (units - TokenTicks)
                           <= rate * TokenTicks + rate * all[i].age
                      /\ \A j \in i..Len(all) :
                           (j - i + 1) * TokenTicks
                             <= rate * TokenTicks
                                + rate * (all[i].age - all[j].age)
    BY DEF Paced
  <2>1. TokenTicks \in Nat
    BY ScannerAssumption
  <2>2. CASE i = Len(ps) + 1
    <3>1. all[i].age = 0 /\ Len(all) - i + 1 = 1 /\ 1 * TokenTicks = TokenTicks
          /\ rate * 0 = 0
      BY <1>2, <1>3, <2>1, <2>2
    <3>2. i..Len(all) = {i}
      BY <1>2, <1>3, <2>2
    <3>3. i - i + 1 = 1 /\ all[i].age - all[i].age = 0
      BY <3>1, <1>2, <2>2
    <3>4. rate * TokenTicks \in Nat
      BY <2>1
    <3>5. (Len(all) - i + 1) * TokenTicks + (units - TokenTicks) = units
      BY <2>1, <3>1
    <3>6. rate * TokenTicks + rate * all[i].age = rate * TokenTicks
      BY <3>1, <3>4
    <3>7. (i - i + 1) * TokenTicks = TokenTicks
          /\ rate * TokenTicks + rate * (all[i].age - all[i].age)
               = rate * TokenTicks
      BY <2>1, <3>1, <3>3, <3>4
    <3>8. TokenTicks <= rate * TokenTicks
      BY <2>1, <3>4
    <3> QED BY <3>2, <3>5, <3>6, <3>7, <3>8
  <2>3. CASE i \in 1..Len(ps)
    <3>1. all[i] = ps[i] /\ ps[i].age \in Nat
      BY <1>3, <2>3 DEF IsProbes
    <3>2. /\ (Len(ps) - i + 1) * TokenTicks + units
               <= rate * TokenTicks + rate * ps[i].age
          /\ \A j \in i..Len(ps) :
               (j - i + 1) * TokenTicks
                 <= rate * TokenTicks + rate * (ps[i].age - ps[j].age)
      BY <2>3 DEF Paced
    <3>3. (Len(all) - i + 1) * TokenTicks
            = (Len(ps) - i + 1) * TokenTicks + TokenTicks
      <4>1. Len(all) - i + 1 = (Len(ps) - i + 1) + 1
            /\ Len(ps) - i + 1 \in Int
        BY <1>2, <1>3, <2>3
      <4> QED BY <2>1, <4>1, TimesNext
    <3>4. /\ (Len(ps) - i + 1) * TokenTicks \in Int
          /\ rate * TokenTicks \in Int /\ rate * ps[i].age \in Int
      BY <1>2, <2>1, <2>3, <3>1
    <3>5. (Len(all) - i + 1) * TokenTicks + (units - TokenTicks)
            <= rate * TokenTicks + rate * all[i].age
      BY <2>1, <3>1, <3>2, <3>3, <3>4
    <3>6. ASSUME NEW j \in i..Len(all)
          PROVE  (j - i + 1) * TokenTicks
                   <= rate * TokenTicks + rate * (all[i].age - all[j].age)
      <4>1. CASE j \in i..Len(ps)
        <5>1. all[j] = ps[j]
          BY <1>3, <2>3, <4>1
        <5> QED BY <3>1, <3>2, <4>1, <5>1
      <4>2. CASE j = Len(ps) + 1
        <5>1. all[j].age = 0 /\ all[i].age - 0 = ps[i].age
              /\ j = Len(all)
          BY <1>3, <3>1, <4>2
        <5> QED BY <2>1, <3>1, <3>2, <3>3, <3>4, <5>1
      <4> QED BY <1>2, <1>3, <2>3, <4>1, <4>2
    <3> QED BY <3>5, <3>6
  <2> QED BY <1>2, <1>3, <2>2, <2>3
<1> QED BY <1>4, <1>5, <1>6 DEF all

LEMMA TailProbes ==
  ASSUME NEW ps, IsProbes(ps), ps # <<>>,
         NEW config, AllConsented(ps, config),
         NEW rate \in Nat, NEW units \in Int, Paced(ps, rate, units)
  PROVE  /\ IsProbes(Tail(ps)) /\ AllConsented(Tail(ps), config)
         /\ Paced(Tail(ps), rate, units)
<1> DEFINE tail == Tail(ps)
<1>1. PICK S : ps \in Seq(S)
  BY DEF IsProbes
<1>2. /\ tail \in Seq(S) /\ Len(ps) \in Nat /\ Len(tail) = Len(ps) - 1
      /\ \A i \in 1..Len(tail) : tail[i] = ps[i + 1]
      /\ Len(ps) > 0
  BY <1>1
<1> HIDE DEF tail
<1>3. \A i \in 1..Len(tail) : i + 1 \in 1..Len(ps)
  BY <1>2
<1>4. IsProbes(tail)
  BY <1>2, <1>3 DEF IsProbes
<1>5. AllConsented(tail, config)
  BY <1>2, <1>3 DEF AllConsented
<1>6. Paced(tail, rate, units)
  <2> SUFFICES ASSUME NEW i \in 1..Len(tail)
               PROVE  /\ (Len(tail) - i + 1) * TokenTicks + units
                           <= rate * TokenTicks + rate * tail[i].age
                      /\ \A j \in i..Len(tail) :
                           (j - i + 1) * TokenTicks
                             <= rate * TokenTicks
                                + rate * (tail[i].age - tail[j].age)
    BY DEF Paced
  <2>1. /\ (Len(ps) - (i + 1) + 1) * TokenTicks + units
             <= rate * TokenTicks + rate * ps[i + 1].age
        /\ \A j \in (i + 1)..Len(ps) :
             (j - (i + 1) + 1) * TokenTicks
               <= rate * TokenTicks + rate * (ps[i + 1].age - ps[j].age)
    BY <1>3 DEF Paced
  <2>2. Len(ps) - (i + 1) + 1 = Len(tail) - i + 1
    BY <1>2
  <2>3. ASSUME NEW j \in i..Len(tail)
        PROVE  (j - i + 1) * TokenTicks
                 <= rate * TokenTicks + rate * (tail[i].age - tail[j].age)
    <3>1. /\ j + 1 \in (i + 1)..Len(ps) /\ tail[j] = ps[j + 1]
          /\ (j + 1) - (i + 1) + 1 = j - i + 1
      BY <1>2
    <3> QED BY <1>2, <2>1, <3>1
  <2> QED BY <1>2, <2>1, <2>2, <2>3
<1> QED BY <1>4, <1>5, <1>6 DEF tail

-----------------------------------------------------------------------------
(* The steps. *)

LEMMA RefilledAtMost ==
  ASSUME BucketInv
  PROVE  /\ Refilled(bucket) \in Nat
         /\ Refilled(bucket) <= policy.rate * TokenTicks
<1>1. /\ policy.rate * TokenTicks \in Nat
      /\ bucket.since * policy.rate \in Nat /\ bucket.units \in Nat
  BY ScannerAssumption DEF BucketInv
<1> QED BY <1>1 DEF Refilled, Least, Capacity

(* Nothing has been sent and the bucket is full. *)
LEMMA FreshProbing ==
  ASSUME policy'.rate \in Nat, bucket' = FullBucket(policy'.rate),
         sweep' = NoSweep, probes' = <<>>, late' = 0
  PROVE  SweepInv' /\ BucketInv' /\ ProbesInv' /\ LateInv'
<1>1. SweepInv'
  BY DEF SweepInv, NoSweep
<1>2. BucketInv'
  BY ScannerAssumption DEF BucketInv, FullBucket
<1>3. probes' \in Seq({}) /\ 1..Len(probes') = {}
  OBVIOUS
<1>4. ProbesInv'
  BY <1>3 DEF ProbesInv, IsProbes, AllConsented, Paced
<1>5. LateInv'
  BY DEF LateInv
<1> QED BY <1>1, <1>2, <1>4, <1>5

LEMMA InitProbing == Init => ProbingInv
<1> SUFFICES ASSUME Init PROVE ProbingInv
  OBVIOUS
<1>1. DaemonInv
  BY DefaultsIsConfig DEF Init, ScannerInit, DaemonInv, DaemonDown
<1>2. /\ policy = Off /\ Off.rate = 1 /\ sweep = NoSweep
      /\ bucket = FullBucket(1) /\ probes = <<>> /\ late = 0
  BY DEF Init, ScannerInit, Off
<1>3. SweepInv
  BY <1>2 DEF SweepInv, NoSweep
<1>4. BucketInv
  BY <1>2, ScannerAssumption DEF BucketInv, FullBucket
<1>5. probes \in Seq({}) /\ 1..Len(probes) = {}
  BY <1>2
<1>6. ProbesInv
  BY <1>5 DEF ProbesInv, IsProbes, AllConsented, Paced
<1>7. LateInv
  BY <1>2 DEF LateInv
<1> QED BY <1>1, <1>3, <1>4, <1>6, <1>7 DEF ProbingInv

LEMMA StillProbing ==
  ASSUME ProbingInv, UNCHANGED <<daemon, scannerVars>> PROVE ProbingInv'
BY DEF ProbingInv, DaemonInv, SweepInv, BucketInv, ProbesInv, LateInv,
       scannerVars, Refilled, Capacity

(* The policy comes from what was written by hand, not only from what      *)
(* setup left in the file. *)
LEMMA StartProbing ==
  ASSUME FileInv, StartDaemon PROVE ProbingInv'
<1>1. /\ daemon' = [DaemonDown EXCEPT !.at = "up", !.settings = Load,
                      !.hand = hand, !.origin = origin,
                      !.overwritten = overwritten]
      /\ policy' = DeriveActive(Load) /\ Loads(file)
      /\ bucket' = FullBucket(policy'.rate)
      /\ sweep' = NoSweep /\ probes' = <<>> /\ late' = 0
  BY DEF StartDaemon
<1>2. Load = file.config /\ Elsewhere(file.config) = Elsewhere(origin)
  BY <1>1, LoadIsConfig DEF FileInv, Loads
<1>3. file.config.mode = origin.mode /\ file.config.active = origin.active
  BY <1>2 DEF Elsewhere
<1>4. DeriveActive(file.config) = DeriveActive(origin)
  BY <1>3 DEF DeriveActive, DisabledReason
<1>5. DaemonInv'
  BY <1>1, <1>2, <1>4 DEF DaemonInv, DaemonDown, FileInv
<1>6. policy'.rate \in Nat
  BY <1>1, <1>2, RateIsNat DEF FileInv
<1> QED BY <1>1, <1>5, <1>6, FreshProbing DEF ProbingInv

(* However it ends, nothing is sent any more. *)
LEMMA EndProbing ==
  ASSUME EndDaemon \/ PowerFails PROVE ProbingInv'
<1>1. /\ daemon' = DaemonDown /\ policy' = Off /\ sweep' = NoSweep
      /\ bucket' = FullBucket(1) /\ probes' = <<>> /\ late' = 0
  BY DEF EndDaemon, PowerFails
<1>2. DaemonInv'
  BY <1>1, DefaultsIsConfig DEF DaemonInv, DaemonDown
<1>3. policy'.rate = 1
  BY <1>1 DEF Off
<1> QED BY <1>1, <1>2, <1>3, FreshProbing DEF ProbingInv

(* The settings of the backend reach a copy; a stop is announced. *)
LEMMA DaemonProbing ==
  ASSUME ProbingInv, PollConfig \/ StopDaemon PROVE ProbingInv'
<1>1. /\ UNCHANGED scannerVars /\ daemon.at = "up"
      /\ daemon'.at \in {"up", "stopping"}
      /\ daemon'.origin = daemon.origin /\ daemon'.hand = daemon.hand
      /\ daemon'.overwritten = daemon.overwritten
      /\ DOMAIN daemon' = DOMAIN DaemonDown
  BY DEF ProbingInv, DaemonInv, DaemonDown, PollConfig, StopDaemon
<1>2. UNCHANGED <<policy, sweep, bucket, probes, late>>
  BY <1>1 DEF scannerVars
<1>3. DaemonInv'
  BY <1>1, <1>2 DEF ProbingInv, DaemonInv
<1>4. SweepInv' /\ BucketInv'
  BY <1>2 DEF ProbingInv, SweepInv, BucketInv
<1>5. ProbesInv'
  BY <1>1, <1>2 DEF ProbingInv, ProbesInv, Refilled, Capacity
<1>6. LateInv'
  BY <1>1, <1>2 DEF ProbingInv, LateInv
<1> QED BY <1>3, <1>4, <1>5, <1>6 DEF ProbingInv

LEMMA BeginProbing ==
  ASSUME ProbingInv, BeginSweep PROVE ProbingInv'
<1>1. /\ UNCHANGED <<daemon, policy, bucket, probes, late>>
      /\ DOMAIN sweep' = DOMAIN NoSweep /\ sweep'.at = "host"
  BY DEF BeginSweep, StartSweep, NoSweep
<1>2. DaemonInv' /\ BucketInv'
  BY <1>1 DEF ProbingInv, DaemonInv, BucketInv
<1>3. SweepInv' /\ LateInv'
  BY <1>1 DEF ProbingInv, SweepInv, LateInv
<1>4. ProbesInv'
  BY <1>1 DEF ProbingInv, ProbesInv, Refilled, Capacity
<1> QED BY <1>2, <1>3, <1>4 DEF ProbingInv

LEMMA SendProbe ==
  ASSUME ProbingInv, UNCHANGED daemon, NEW kind, NEW with,
         NEW stopping, Send(kind, with, stopping),
         Consented(daemon.origin, [kind |-> kind, with |-> with,
                                    ip |-> sweep.ip, age |-> 0])
  PROVE  BucketInv' /\ ProbesInv' /\ policy' = policy
<1> DEFINE p == [kind |-> kind, with |-> with, ip |-> sweep.ip, age |-> 0]
           all == Append(probes, p)
           units == Refilled(bucket)
<1>1. /\ units >= TokenTicks /\ policy' = policy
      /\ bucket' = [units |-> units - TokenTicks, since |-> 0]
      /\ probes' = IF Len(all) > Remembered THEN Tail(all) ELSE all
  BY DEF Send, Acquire
<1>2. BucketInv
  BY DEF ProbingInv
<1>3. units \in Nat /\ units <= policy.rate * TokenTicks
      /\ policy.rate \in Nat /\ TokenTicks \in Nat
  BY <1>2, RefilledAtMost, ScannerAssumption DEF BucketInv
<1>4. /\ IsProbes(probes) /\ AllConsented(probes, daemon.origin)
      /\ Paced(probes, policy.rate, units)
  BY DEF ProbingInv, ProbesInv
<1>5. p.age = 0 /\ DOMAIN p = {"kind", "with", "ip", "age"}
  OBVIOUS
<1> HIDE DEF units
<1>6. Consented(daemon.origin, p)
  OBVIOUS
<1> HIDE DEF p
<1>7. /\ IsProbes(all) /\ AllConsented(all, daemon.origin)
      /\ Paced(all, policy.rate, units - TokenTicks)
  BY <1>1, <1>3, <1>4, <1>5, <1>6, AppendProbe
<1>8. all # <<>>
  <2>1. PICK S : probes \in Seq(S)
    BY <1>4 DEF IsProbes
  <2>2. probes \in Seq(S \cup {p})
    BY <2>1
  <2> QED BY <2>2
<1> HIDE DEF all
<1>9. units - TokenTicks \in Int
  BY <1>3
<1>10. /\ IsProbes(Tail(all)) /\ AllConsented(Tail(all), daemon.origin)
       /\ Paced(Tail(all), policy.rate, units - TokenTicks)
  BY <1>3, <1>7, <1>8, <1>9, TailProbes
<1>11. /\ IsProbes(probes') /\ AllConsented(probes', daemon.origin)
       /\ Paced(probes', policy.rate, units - TokenTicks)
  BY <1>1, <1>7, <1>10
<1>12. BucketInv'
  BY <1>1, <1>3 DEF BucketInv
<1>13. Refilled(bucket)' = units - TokenTicks
  <2>1. 0 * policy.rate = 0 /\ policy.rate * TokenTicks \in Nat
    BY <1>3
  <2> QED BY <1>1, <1>3, <2>1 DEF Refilled, Least, Capacity
<1>14. ProbesInv'
  BY <1>1, <1>11, <1>13 DEF ProbesInv
<1> QED BY <1>1, <1>12, <1>14

LEMMA SweepProbing ==
  ASSUME ProbingInv, Sweep PROVE ProbingInv'
<1> DEFINE stopping == daemon.at = "stopping"
<1>1. /\ DaemonInv /\ SweepInv /\ BucketInv /\ ProbesInv /\ LateInv
      /\ daemon.at # "down" /\ policy = DeriveActive(daemon.origin)
      /\ UNCHANGED daemon
  BY DEF ProbingInv, DaemonInv, Sweep
<1>2. CASE NextHost(stopping) \/ NextCommunity(stopping)
           \/ NextPort(stopping)
  <2>1. UNCHANGED <<daemon, policy, bucket, probes, late>>
    BY <1>1, <1>2 DEF NextHost, NextCommunity, NextPort
  <2>2. DaemonInv' /\ BucketInv'
    BY <1>1, <2>1 DEF DaemonInv, BucketInv
  <2>3. ProbesInv'
    BY <1>1, <2>1 DEF ProbesInv, Refilled, Capacity
  <2>4. SweepInv' /\ LateInv'
    <3>1. CASE NextHost(stopping)
      <4>1. CASE sweep.hosts = {} \/ stopping
        <5>1. sweep' = NoSweep
          BY <3>1, <4>1 DEF NextHost
        <5> QED BY <1>1, <2>1, <5>1 DEF SweepInv, LateInv, NoSweep
      <4>2. CASE ~(sweep.hosts = {} \/ stopping)
        <5>1. PICK ip \in sweep.hosts :
                sweep' =
                  IF MayProbe(policy, ip)
                    THEN [at |-> IF policy.icmp THEN "icmp" ELSE "community",
                          hosts |-> sweep.hosts \ {ip}, ip |-> ip,
                          communities |-> policy.communities,
                          ports |-> policy.ports]
                    ELSE [sweep EXCEPT !.hosts = @ \ {ip}]
          BY <3>1, <4>2 DEF NextHost, TakeHost
        <5>2. CASE MayProbe(policy, ip)
          <6>1. /\ sweep'.at = IF policy.icmp THEN "icmp" ELSE "community"
                /\ sweep'.ip = ip /\ sweep'.ports = policy.ports
                /\ sweep'.communities = policy.communities
                /\ DOMAIN sweep' = DOMAIN NoSweep
            BY <5>1, <5>2 DEF NoSweep
          <6> QED BY <1>1, <2>1, <4>2, <5>2, <6>1 DEF SweepInv, LateInv
        <5>3. CASE ~MayProbe(policy, ip)
          <6>1. /\ sweep'.at = "host" /\ DOMAIN sweep' = DOMAIN NoSweep
            BY <1>1, <3>1, <5>1, <5>3 DEF SweepInv, NoSweep, NextHost
          <6> QED BY <1>1, <2>1, <6>1 DEF SweepInv, LateInv
        <5> QED BY <5>2, <5>3
      <4> QED BY <4>1, <4>2
    <3>2. CASE NextCommunity(stopping)
      <4>1. /\ sweep.at = "community" /\ sweep'.at \in {"snmp", "port"}
            /\ sweep'.at = "snmp" => ~stopping
            /\ sweep'.ip = sweep.ip /\ sweep'.ports = sweep.ports
            /\ sweep'.communities = sweep.communities
            /\ DOMAIN sweep' = DOMAIN NoSweep
        BY <1>1, <3>2 DEF NextCommunity, GoesOn, SweepInv, NoSweep
      <4> QED BY <1>1, <2>1, <4>1 DEF SweepInv, LateInv
    <3>3. CASE NextPort(stopping)
      <4>1. /\ sweep.at = "port" /\ sweep'.at \in {"connect", "host"}
            /\ sweep'.at = "connect" => ~stopping
            /\ sweep'.ip = sweep.ip /\ sweep'.ports = sweep.ports
            /\ sweep'.communities = sweep.communities
            /\ DOMAIN sweep' = DOMAIN NoSweep
        BY <1>1, <3>3 DEF NextPort, GoesOn, SweepInv, NoSweep
      <4> QED BY <1>1, <2>1, <4>1 DEF SweepInv, LateInv
    <3> QED BY <1>2, <3>1, <3>2, <3>3
  <2> QED BY <2>2, <2>3, <2>4 DEF ProbingInv
<1>3. ASSUME NEW kind, NEW with, Send(kind, with, stopping),
             sweep.at \in {"icmp", "snmp", "connect"},
             kind = "icmp" => policy.icmp,
             kind = "snmp" => with \subseteq policy.communities,
             kind = "snmp" => with # {},
             kind \in {"connect", "banner"} => with \subseteq policy.ports,
             kind \in {"connect", "banner"} => with # {},
             kind = "banner" => policy.banner,
             sweep'.at \in {"community", "port"},
             sweep'.ip = sweep.ip, DOMAIN sweep' = DOMAIN NoSweep,
             sweep'.communities \subseteq sweep.communities,
             sweep'.ports \subseteq sweep.ports
      PROVE  ProbingInv'
  <2> DEFINE p == [kind |-> kind, with |-> with, ip |-> sweep.ip, age |-> 0]
  <2>1. MayProbe(policy, sweep.ip)
    BY <1>1, <1>3 DEF SweepInv
  <2>2. p.kind = kind /\ p.with = with /\ p.ip = sweep.ip
    OBVIOUS
  <2>3. Consented(daemon.origin, p)
    <3> HIDE DEF p
    <3> QED BY <1>1, <1>3, <2>1, <2>2, ProbeConsents
  <2>4. BucketInv' /\ ProbesInv' /\ policy' = policy
    BY <1>1, <1>3, <2>3, SendProbe
  <2>5. DaemonInv' /\ SweepInv'
    BY <1>1, <1>3, <2>4 DEF DaemonInv, SweepInv
  <2>6. LateInv'
    <3>1. late = 0 /\ late' = IF stopping THEN Least(late + 1, 2) ELSE 0
      BY <1>1, <1>3 DEF LateInv, Send
    <3> QED BY <1>1, <1>3, <3>1 DEF LateInv, Least
  <2> QED BY <2>4, <2>5, <2>6 DEF ProbingInv
<1>4. CASE IcmpEcho(stopping)
  <2>1. /\ sweep.at = "icmp" /\ Send("icmp", {}, stopping)
        /\ sweep' = [sweep EXCEPT !.at = "community"]
    BY <1>4 DEF IcmpEcho
  <2> QED BY <1>1, <1>3, <2>1 DEF SweepInv, NoSweep
<1>5. CASE GetSystem(stopping)
  <2>1. PICK community \in sweep.communities :
          /\ Send("snmp", {community}, stopping)
          /\ \E answered \in BOOLEAN :
               sweep' = [sweep EXCEPT !.at = "community",
                           !.communities = IF answered THEN {}
                                           ELSE @ \ {community}]
    BY <1>5 DEF GetSystem
  <2>2. /\ sweep.at = "snmp" /\ {community} \subseteq policy.communities
        /\ {community} # {}
    BY <1>1, <1>5, <2>1 DEF GetSystem, SweepInv
  <2>3. /\ sweep'.at = "community" /\ sweep'.ip = sweep.ip
        /\ DOMAIN sweep' = DOMAIN NoSweep /\ sweep'.ports = sweep.ports
        /\ sweep'.communities \subseteq sweep.communities
    BY <1>1, <2>1 DEF SweepInv, NoSweep
  <2> QED BY <1>3, <2>1, <2>2, <2>3
<1>6. CASE TcpProbe(stopping)
  <2> DEFINE kind == IF policy.banner THEN "banner" ELSE "connect"
  <2>1. PICK port \in sweep.ports :
          /\ Send(kind, {port}, stopping)
          /\ sweep' = [sweep EXCEPT !.at = "port", !.ports = @ \ {port}]
    BY <1>6 DEF TcpProbe
  <2>2. /\ sweep.at = "connect" /\ {port} \subseteq policy.ports
        /\ {port} # {}
    BY <1>1, <1>6, <2>1 DEF TcpProbe, SweepInv
  <2>3. /\ sweep'.at = "port" /\ sweep'.ip = sweep.ip
        /\ DOMAIN sweep' = DOMAIN NoSweep
        /\ sweep'.communities = sweep.communities
        /\ sweep'.ports \subseteq sweep.ports
    BY <1>1, <2>1 DEF SweepInv, NoSweep
  <2>4. /\ kind \in {"connect", "banner"}
        /\ kind = "banner" => policy.banner
    BY Zenon
  <2> HIDE DEF kind
  <2> QED BY <1>3, <2>1, <2>2, <2>3, <2>4
<1> QED BY <1>2, <1>4, <1>5, <1>6 DEF Sweep, SweepStep

LEMMA TickProbing ==
  ASSUME ProbingInv, UNCHANGED daemon, Tick PROVE ProbingInv'
<1> DEFINE rate == policy.rate
<1>1. /\ DaemonInv /\ SweepInv /\ BucketInv /\ ProbesInv /\ LateInv
  BY DEF ProbingInv
<1>2. /\ bucket' = [bucket EXCEPT !.since = Least(@ + 1, 2 * TokenTicks)]
      /\ probes' = [i \in DOMAIN probes |-> [probes[i] EXCEPT !.age = @ + 1]]
      /\ UNCHANGED <<policy, sweep, late>>
  BY DEF Tick
<1>3. DaemonInv' /\ SweepInv' /\ LateInv'
  BY <1>1, <1>2 DEF DaemonInv, SweepInv, LateInv
<1>4. /\ TokenTicks \in Nat /\ rate \in Nat /\ bucket.since \in Nat
      /\ bucket.units \in Nat
  BY <1>1, ScannerAssumption DEF BucketInv
<1>5. /\ DOMAIN bucket' = {"units", "since"}
      /\ bucket'.units = bucket.units /\ bucket'.since \in Nat
      /\ bucket'.since <= bucket.since + 1
  BY <1>1, <1>2, <1>4 DEF BucketInv, Least
<1>6. BucketInv'
  BY <1>1, <1>2, <1>4, <1>5 DEF BucketInv
<1>7. /\ Refilled(bucket)' \in Nat /\ Refilled(bucket) \in Nat
      /\ Refilled(bucket)' <= Refilled(bucket) + rate
  <2>1. bucket'.since * rate <= bucket.since * rate + rate
    <3>1. (bucket.since + 1) * rate = bucket.since * rate + rate
      <4> HIDE DEF rate
      <4>1. bucket.since \in Int /\ rate \in Int
        BY <1>4
      <4> QED BY <4>1, TimesNext
    <3>2. bucket'.since * rate <= (bucket.since + 1) * rate
      BY <1>4, <1>5
    <3> QED BY <3>1, <3>2
  <2>2. /\ bucket'.since * rate \in Nat /\ bucket.since * rate \in Nat
        /\ rate * TokenTicks \in Nat
    BY <1>4, <1>5
  <2>3. Refilled(bucket)' =
          Least(bucket.units + bucket'.since * rate, rate * TokenTicks)
    BY <1>2, <1>5 DEF Refilled, Capacity
  <2>4. Refilled(bucket) =
          Least(bucket.units + bucket.since * rate, rate * TokenTicks)
    BY DEF Refilled, Capacity
  <2> HIDE DEF rate
  <2> QED BY <1>4, <2>1, <2>2, <2>3, <2>4 DEF Least
<1>8. PICK S : probes \in Seq(S)
  BY <1>1 DEF ProbesInv, IsProbes
<1>9. /\ DOMAIN probes = 1..Len(probes) /\ Len(probes) \in Nat
  BY <1>8
<1>10. \A i \in 1..Len(probes) :
        /\ DOMAIN probes'[i] = {"kind", "with", "ip", "age"}
        /\ probes[i].age \in Nat /\ probes'[i].age = probes[i].age + 1
        /\ probes'[i].kind = probes[i].kind
        /\ probes'[i].with = probes[i].with /\ probes'[i].ip = probes[i].ip
  <2>1. \A i \in 1..Len(probes) :
          /\ probes'[i] = [probes[i] EXCEPT !.age = @ + 1]
          /\ DOMAIN probes[i] = {"kind", "with", "ip", "age"}
          /\ probes[i].age \in Nat
    BY <1>1, <1>2, <1>9 DEF ProbesInv, IsProbes
  <2> QED BY <2>1
<1>11. \E T : probes' \in Seq(T)
  <2> DEFINE T == {[probes[i] EXCEPT !.age = @ + 1] : i \in DOMAIN probes}
  <2>1. probes' \in [1..Len(probes) -> T]
    BY <1>2, <1>9
  <2>2. probes' \in Seq(T)
    <3> HIDE DEF T
    <3> QED BY <1>9, <2>1, SeqDef
  <2> QED BY <2>2
<1>12. Len(probes') = Len(probes)
  <2>1. PICK T : probes' \in Seq(T)
    BY <1>11
  <2>2. DOMAIN probes' = DOMAIN probes
    BY <1>2
  <2> QED BY <1>9, <2>1, <2>2
<1>13. IsProbes(probes')
  <2>1. \A i \in 1..Len(probes') :
          /\ DOMAIN probes'[i] = {"kind", "with", "ip", "age"}
          /\ probes'[i].age \in Nat
    BY <1>10, <1>12
  <2> QED BY <1>11, <2>1 DEF IsProbes
<1>14. AllConsented(probes', daemon.origin)
  <2>1. \A i \in 1..Len(probes) : Consented(daemon.origin, probes[i])
    BY <1>1 DEF ProbesInv, AllConsented
  <2>2. ASSUME NEW i \in 1..Len(probes)
        PROVE  Consented(daemon.origin, probes'[i])
    BY <1>10, <2>1 DEF Consented
  <2> QED BY <1>12, <2>2 DEF AllConsented
<1>15. Paced(probes', rate, Refilled(bucket)')
  <2> SUFFICES ASSUME NEW i \in 1..Len(probes)
               PROVE  /\ (Len(probes) - i + 1) * TokenTicks
                           + Refilled(bucket)'
                           <= rate * TokenTicks + rate * probes'[i].age
                      /\ \A j \in i..Len(probes) :
                           (j - i + 1) * TokenTicks
                             <= rate * TokenTicks
                                + rate * (probes'[i].age - probes'[j].age)
    BY <1>12 DEF Paced
  <2>1. /\ (Len(probes) - i + 1) * TokenTicks + Refilled(bucket)
             <= rate * TokenTicks + rate * probes[i].age
        /\ \A j \in i..Len(probes) :
             (j - i + 1) * TokenTicks
               <= rate * TokenTicks
                  + rate * (probes[i].age - probes[j].age)
    BY <1>1 DEF ProbesInv, Paced
  <2>2. /\ probes[i].age \in Nat
        /\ probes'[i].age = probes[i].age + 1
    BY <1>10
  <2>3. rate * probes'[i].age = rate * probes[i].age + rate
    <3> HIDE DEF rate
    <3> QED BY <1>4, <2>2
  <2>4. /\ (Len(probes) - i + 1) * TokenTicks \in Int
        /\ rate * TokenTicks \in Int /\ rate * probes[i].age \in Int
    <3> HIDE DEF rate
    <3> QED BY <1>4, <1>9, <2>2
  <2>5. (Len(probes) - i + 1) * TokenTicks + Refilled(bucket)'
          <= rate * TokenTicks + rate * probes'[i].age
    <3> HIDE DEF rate
    <3> QED BY <1>4, <1>7, <2>1, <2>3, <2>4
  <2>6. \A j \in i..Len(probes) :
          probes'[i].age - probes'[j].age = probes[i].age - probes[j].age
    <3> SUFFICES ASSUME NEW j \in i..Len(probes)
                 PROVE  probes'[i].age - probes'[j].age
                          = probes[i].age - probes[j].age
      OBVIOUS
    <3>1. /\ probes[j].age \in Nat
          /\ probes'[j].age = probes[j].age + 1
      BY <1>9, <1>10
    <3> QED BY <2>2, <3>1
  <2> QED BY <2>1, <2>5, <2>6
<1>16. ProbesInv'
  BY <1>2, <1>13, <1>14, <1>15 DEF ProbesInv
<1> QED BY <1>3, <1>6, <1>16 DEF ProbingInv

LEMMA TimeProbing ==
  ASSUME ProbingInv, TimePasses PROVE ProbingInv'
<1>1. CASE Tick
  BY <1>1, TickProbing DEF TimePasses
<1>2. CASE Forget
  <2>1. /\ probes # <<>> /\ probes' = Tail(probes)
        /\ UNCHANGED <<daemon, policy, sweep, bucket, late>>
    BY <1>2 DEF Forget, TimePasses
  <2>2. DaemonInv' /\ SweepInv' /\ BucketInv' /\ LateInv'
    BY <2>1 DEF ProbingInv, DaemonInv, SweepInv, BucketInv, LateInv
  <2>3. /\ policy.rate \in Nat /\ Refilled(bucket) \in Int
        /\ Refilled(bucket)' = Refilled(bucket)
    BY <2>1, RefilledAtMost DEF ProbingInv, BucketInv, Refilled, Capacity
  <2>4. ProbesInv'
    BY <2>1, <2>3, TailProbes DEF ProbingInv, ProbesInv
  <2> QED BY <2>2, <2>4 DEF ProbingInv
<1> QED BY <1>1, <1>2 DEF TimePasses

LEMMA NextProbing ==
  ASSUME FileInv, ProbingInv, [Next]_vars PROVE ProbingInv'
<1>1. CASE StartDaemon
  BY <1>1, StartProbing
<1>2. CASE PollConfig \/ StopDaemon
  BY <1>2, DaemonProbing
<1>3. CASE BeginSweep
  BY <1>3, BeginProbing
<1>4. CASE Sweep
  BY <1>4, SweepProbing
<1>5. CASE TimePasses
  BY <1>5, TimeProbing
<1>6. CASE EndDaemon \/ PowerFails
  BY <1>6, EndProbing
<1>7. CASE \/ EditByHand \/ GarbleByHand \/ RemoveByHand \/ UNCHANGED vars
           \/ StartSetup \/ AnswerSetup \/ DraftCredentials
           \/ StoreCredentials \/ ReadDocument \/ CreateTemporary
           \/ WriteTemporary \/ ReplaceFile \/ ReplaceFails \/ EndSetup
           \/ IdentitySteps
  <2>1. UNCHANGED <<daemon, scannerVars>>
    BY <1>7 DEF Edit, EditByHand, GarbleByHand, RemoveByHand, vars,
         StartSetup, AnswerSetup, DraftCredentials, StoreCredentials,
         ReadDocument, CreateTemporary, WriteTemporary, ReplaceFile,
         ReplaceFails, EndSetup, IdentitySteps, Enroll, DraftIdentity,
         TightenIdentity, StoreIdentity, EndEnroll, Reset, SyncIdentity,
         IdentityStep
  <2> QED BY <2>1, StillProbing
<1> QED BY <1>1, <1>2, <1>3, <1>4, <1>5, <1>6, <1>7
        DEF Next, IdentitySteps

-----------------------------------------------------------------------------
(* The theorems about the probes. *)

Inv == FilesInv /\ ProbingInv /\ cast \in Casts

LEMMA Inductive == Spec => []Inv
<1>1. Init => Inv
  BY InitFiles, InitProbing DEF Init, Inv
<1>2. Inv /\ [Next]_vars => Inv'
  BY NextFiles, NextProbing DEF Inv, FilesInv
<1> QED BY <1>1, <1>2, PTL DEF Spec

(* Every probe is one that was permitted in the settings last written by   *)
(* hand before the daemon started, or, where setup overwrote that edit     *)
(* unseen, in those it had read; whatever setup asked and the backend said *)
(* (setup.rs write_config, config.rs DiscoveryPolicy, remote_config.rs     *)
(* apply, scanner.rs). *)
THEOREM ProbesConsentedAlways == Spec => []ProbesConsented
<1>1. Inv => ProbesConsented
  <2> SUFFICES ASSUME Inv PROVE ProbesConsented
    OBVIOUS
  <2>1. PICK S : probes \in Seq(S)
    BY DEF Inv, ProbingInv, ProbesInv, IsProbes
  <2>2. DOMAIN probes = 1..Len(probes)
    BY <2>1
  <2>3. \A i \in DOMAIN probes : Consented(daemon.origin, probes[i])
    BY <2>2 DEF Inv, ProbingInv, ProbesInv, AllConsented
  <2>4. daemon.origin = daemon.hand \/ daemon.overwritten
    BY DEF Inv, ProbingInv, DaemonInv
  <2> QED BY <2>3, <2>4, Zenon DEF ProbesConsented
<1> QED BY <1>1, Inductive, PTL

(* In any stretch of time the probes are no more than one bucket and what  *)
(* flows in meanwhile, and at most one leaves after the shutdown was       *)
(* announced (rate_limit.rs acquire, scanner.rs sweep). *)
THEOREM ProbesPacedAlways == Spec => []ProbesPaced
<1>1. Inv => ProbesPaced
  <2> SUFFICES ASSUME Inv PROVE ProbesPaced
    OBVIOUS
  <2>1. PICK S : probes \in Seq(S)
    BY DEF Inv, ProbingInv, ProbesInv, IsProbes
  <2>2. DOMAIN probes = 1..Len(probes) /\ Len(probes) \in Nat
    BY <2>1
  <2>3. Paced(probes, policy.rate, Refilled(bucket)) /\ late \in {0, 1}
    BY DEF Inv, ProbingInv, ProbesInv, LateInv
  <2>4. ASSUME NEW i \in DOMAIN probes, NEW j \in DOMAIN probes, i <= j
        PROVE  (j - i + 1) * TokenTicks
                 <= Capacity + policy.rate * (probes[i].age - probes[j].age)
    <3>1. i \in 1..Len(probes) /\ j \in i..Len(probes)
      BY <2>2, <2>4
    <3> QED BY <2>3, <3>1 DEF Paced, Capacity
  <2> QED BY <2>3, <2>4 DEF ProbesPaced
<1> QED BY <1>1, Inductive, PTL

=============================================================================
