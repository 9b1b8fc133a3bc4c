------------------------------- MODULE Daemon -------------------------------
(***************************************************************************)
(* The daemon's tasks (crates/sensor-daemon/src/runtime.rs, main.rs and    *)
(* the life cycle of admin.rs): producers of observations, the processor,  *)
(* the uploader, the supervisor that starts them, watches the critical     *)
(* ones and stops all in order, and the process around it.                 *)
(*                                                                         *)
(* Both channels are bounded; an observation is a unit that is counted     *)
(* where it is.  The uploader is coarse here (Uploader has its loop): it   *)
(* takes events, is away while an attempt lasts, and may be revoked.       *)
(***************************************************************************)
EXTENDS Integers, Sequences, FiniteSets

CONSTANTS
  Captures,   (* local interfaces that are selected                        *)
  Remotes,    (* FRITZ!Box interfaces; not empty when fritzbox.enabled     *)
  Scenarios,  (* bound of the model: the producers that take part, and the *)
              (* tasks that may panic, together                            *)
  Capacity    (* buffer.channel_capacity, of both channels                 *)

ASSUME ProducersAssumption ==
  /\ IsFiniteSet(Captures) /\ IsFiniteSet(Remotes)
  /\ Captures \cap Remotes = {}
  /\ {"heartbeat", "sweep", "poll"} \cap (Captures \cup Remotes) = {}
ASSUME ScenariosAssumption ==
  \A s \in Scenarios :
    s.producers \subseteq
      Captures \cup Remotes \cup {"heartbeat", "sweep", "poll"}
ASSUME CapacityAssumption == Capacity \in Nat \ {0}

VARIABLES
  scenario,   (* who takes part, and who may panic                         *)
  phase,      (* of `Daemon::run`                                          *)
  stage,      (* the step of the stop sequence that is waited for          *)
  failure,    (* the critical task that failed, "none"                     *)
  result,     (* what `Daemon::run` returned                               *)
  task,       (* where each producer and the configuration poll is         *)
  outbox,     (* a producer has an observation in hand to send             *)
  window,     (* the observer of a capture has open flows to report        *)
  obs,        (* observations in their channel                             *)
  processor,  (* where it is, event in hand, devices to report             *)
  events,     (* events in their channel                                   *)
  uploader,   (* where the uploader is                                     *)
  shutdown,   (* the process-wide shutdown watch                           *)
  admin,      (* the admin server                                          *)
  process     (* `main`: waiting for a task, closing, or its exit          *)

vars == <<scenario, phase, stage, failure, result, task, outbox, window, obs,
          processor, events, uploader, shutdown, admin, process>>

supervision == <<phase, stage, failure, result>>
producers == <<task, outbox, window>>
sink == <<events, uploader>>
world == <<scenario, shutdown, admin, process>>

Observers == Captures \cup Remotes
Senders == Observers \cup {"heartbeat", "sweep"}
Tasks == Senders \cup {"poll"}

(* What the stop sequence waits for, in order. *)
Stages ==
  <<Captures, Remotes, {"heartbeat"}, {"poll"}, {"sweep"},
    {"processor"}, {"uploader"}>>

(* A task that is over, or never was. *)
Over == {"absent", "ended", "failed"}
TaskStates == Over \cup
  {"untried", "reported", "checking", "reading", "draining", "request",
   "stream", "closing", "backoff", "idle", "busy"}

Init ==
  /\ scenario \in Scenarios
  /\ phase = "starting" /\ stage = 1
  /\ failure = "none" /\ result = "none"
  /\ task = [t \in Tasks |->
               IF t \in Captures \cap scenario.producers THEN "untried"
               ELSE "absent"]
  /\ outbox = [t \in Senders |-> FALSE]
  /\ window = [t \in Observers |-> FALSE]
  /\ obs = 0 /\ events = 0
  /\ processor = [at |-> "running", hand |-> FALSE, dirty |-> FALSE]
  /\ uploader = "running"
  /\ shutdown = FALSE
  /\ admin = "serving" /\ process = "waiting"

(* The producers' shutdown watch holds true from the first step of the     *)
(* stop sequence on.                                                       *)
Stopping == phase = "stopping"

(* The tasks run until `run` returns; what is left of them then dies with  *)
(* the process, and is not followed.                                       *)
Up == phase # "ended"

(* `run` and the tasks still hold a sender of the channel. *)
ObsOpen ==
  \/ stage <= 5
  \/ \E t \in Senders : task[t] \notin Over

(* Slip: `run` keeps its own sender of the event channel. *)
EventsStayOpen == TRUE

EventsOpen ==
  \/ stage <= 6
  \/ processor.at \in {"running", "flushing"}

(* Slip: the channels grow without limit. *)
AlwaysRoom(n) == TRUE

HasRoom(n) == n < Capacity

ObsReceiver == processor.at \in {"running", "flushing"}
EventsReceiver == uploader \in {"running", "attempt", "last"}

-----------------------------------------------------------------------------
(* Start.                                                                  *)

(* Each interface is opened in turn; one that cannot be opened is reported *)
(* as a status observation before the next is tried.                       *)
OpenInterface(c) ==
  /\ phase = "starting" /\ task[c] = "untried"
  /\ \A d \in Captures : task[d] # "reported"
  /\ \/ task' = [task EXCEPT ![c] = "checking"] /\ outbox' = outbox
     \/ /\ task' = [task EXCEPT ![c] = "reported"]
        /\ outbox' = [outbox EXCEPT ![c] = TRUE]
  /\ UNCHANGED <<supervision, window, obs, processor, sink, world>>

Opened == {c \in Captures : task[c] # "absent"}

(* Without any source the start fails; else the other tasks are spawned. *)
Started ==
  /\ phase = "starting"
  /\ \A c \in Captures : task[c] \notin {"untried", "reported"}
  /\ IF Opened = {} /\ Remotes \cap scenario.producers = {}
       THEN /\ phase' = "ended"
            /\ failure' = "start" /\ result' = "failure"
            /\ task' = task
       ELSE /\ phase' = "supervising"
            /\ task' = [t \in Tasks |->
                          IF t \in scenario.producers \ Captures THEN "idle"
                          ELSE task[t]]
            /\ UNCHANGED <<failure, result>>
  /\ UNCHANGED <<stage, outbox, window, obs, processor, sink, world>>

-----------------------------------------------------------------------------
(* Producers.                                                              *)

(* Where a producer goes on after a send, and after a send that found the  *)
(* channel's receiver gone. *)
AfterSend(t) ==
  CASE task[t] = "reported" -> "absent"
    [] task[t] = "reading" -> "checking"
    [] task[t] = "draining" -> "ended"
    [] t = "heartbeat" -> "idle"
    [] OTHER -> task[t]

AfterRefusal(t) ==
  CASE task[t] = "reported" -> "absent"
    [] task[t] \in {"reading", "draining"} \/ t = "heartbeat" -> "ended"
    [] t \in Remotes -> "closing"
    [] OTHER -> task[t]

Deliver(t) ==
  /\ Up /\ outbox[t]
  /\ outbox' = [outbox EXCEPT ![t] = FALSE]
  /\ \/ /\ ObsReceiver /\ HasRoom(obs)
        /\ obs' = obs + 1
        /\ task' = [task EXCEPT ![t] = AfterSend(t)]
     \/ /\ ~ObsReceiver
        /\ task' = [task EXCEPT ![t] = AfterRefusal(t)]
        /\ obs' = obs
  /\ UNCHANGED <<supervision, window, processor, sink, world>>

(* t goes to state s, with an observation in hand if out, with its flow    *)
(* window open if w. *)
Move(t, s, out, w) ==
  /\ Up /\ ~outbox[t]
  /\ task' = [task EXCEPT ![t] = s]
  /\ outbox' = [outbox EXCEPT ![t] = out]
  /\ window' = [window EXCEPT ![t] = w]
  /\ UNCHANGED <<supervision, obs, processor, sink, world>>

(* Every flow of a window that is given up is reported. *)
Reports(t, out, w) ==
  window[t] /\ ~w => out

(* The top of the capture loop: on shutdown the open window is drained. *)
CaptureCheck(c) ==
  /\ task[c] = "checking"
  /\ IF ~Stopping THEN Move(c, "reading", FALSE, window[c])
     ELSE IF window[c] THEN Move(c, "draining", TRUE, FALSE)
     ELSE Move(c, "ended", FALSE, FALSE)

(* `recv` returns a frame or nothing, flow windows may expire; the frame   *)
(* socket may fail, which ends the task before it has drained: the open    *)
(* window stays behind and no one reports it.                              *)
CaptureRead(c) ==
  /\ task[c] = "reading"
  /\ \/ \E out, w \in BOOLEAN :
          /\ Reports(c, out, w)
          /\ Move(c, IF out THEN "reading" ELSE "checking", out, w)
     \/ Move(c, "failed", FALSE, window[c])

(* A router's capture: the requests that set up a session do not look at   *)
(* the shutdown, the stream and the backoff do. *)
RemoteStart(r) ==
  /\ task[r] = "idle"
  /\ Move(r, IF Stopping THEN "ended" ELSE "request", FALSE, FALSE)

RemoteRequest(r) ==
  /\ task[r] = "request"
  /\ \E s \in {"stream", "closing"} : Move(r, s, FALSE, FALSE)

(* A chunk that wins against the shutdown in the select is as good as one  *)
(* that came before it; so is a tick below.                                *)
RemoteStream(r) ==
  /\ task[r] = "stream" /\ ~Stopping
  /\ \E out, w \in BOOLEAN :
       /\ Reports(r, out, w)
       /\ Move(r, "stream", out, w)

(* The stream ends, by an error or the shutdown: what it saw is drained. *)
RemoteClose(r) ==
  /\ task[r] = "stream"
  /\ Move(r, "closing", window[r], FALSE)

RemoteClosed(r) ==
  /\ task[r] = "closing"
  /\ Move(r, IF Stopping THEN "ended" ELSE "backoff", FALSE, FALSE)

RemoteRetry(r) ==
  /\ task[r] = "backoff"
  /\ Move(r, IF Stopping THEN "ended" ELSE "idle", FALSE, FALSE)

(* Tasks without an observer: heartbeat, configuration poll, sweeps. *)
Step(t, s, out) ==
  /\ Up
  /\ t \in Senders => ~outbox[t]
  /\ task' = [task EXCEPT ![t] = s]
  /\ outbox' = IF t \in Senders THEN [outbox EXCEPT ![t] = out] ELSE outbox
  /\ UNCHANGED <<supervision, window, obs, processor, sink, world>>

(* A tick of the task's interval; a request, a sweep or a send follows,    *)
(* none of which is given up for the shutdown. *)
Tick(t) ==
  /\ task[t] = "idle" /\ ~Stopping
  /\ Step(t, "busy", t = "heartbeat")

SweepFinds ==
  /\ task["sweep"] = "busy" /\ ~Stopping
  /\ Step("sweep", "busy", TRUE)

(* The request is answered, the sweep is through its targets. *)
Finish(t) ==
  /\ task[t] = "busy"
  /\ Step(t, "idle", FALSE)

SeeStop(t) ==
  /\ task[t] = "idle" /\ Stopping
  /\ Step(t, "ended", FALSE)

-----------------------------------------------------------------------------
(* The processor: the one place where an observation becomes an event.     *)

Processing(p) ==
  /\ Up
  /\ processor' = p
  /\ UNCHANGED <<supervision, producers, uploader, world>>

(* An observation may tell something new of a device. *)
ProcessorReceives ==
  /\ processor.at = "running" /\ ~processor.hand /\ obs > 0
  /\ obs' = obs - 1
  /\ \E news \in BOOLEAN :
       Processing([processor EXCEPT !.hand = TRUE, !.dirty = @ \/ news])
  /\ events' = events

(* Slip: the loop ends on the shutdown watch, not on the closed channel. *)
ProcessorClosesEarly ==
  /\ processor.at = "running" /\ ~processor.hand /\ Stopping
  /\ Processing([at |-> "flushing", hand |-> processor.dirty, dirty |-> FALSE])
  /\ UNCHANGED <<obs, events>>

(* Every sender is gone and the channel is empty: what the registry still  *)
(* knows follows. *)
ProcessorCloses ==
  /\ processor.at = "running" /\ ~processor.hand
  /\ obs = 0 /\ ~ObsOpen
  /\ Processing([at |-> "flushing", hand |-> processor.dirty, dirty |-> FALSE])
  /\ UNCHANGED <<obs, events>>

(* The 30 s ticker: fingerprints of the devices with news. *)
ProcessorReports ==
  /\ processor.at = "running" /\ ~processor.hand /\ processor.dirty
  /\ Processing([processor EXCEPT !.hand = TRUE, !.dirty = FALSE])
  /\ UNCHANGED <<obs, events>>

(* `event_tx.send` waits for room; without a receiver the processor ends. *)
ProcessorForwards ==
  /\ ObsReceiver /\ processor.hand
  /\ \/ /\ EventsReceiver /\ HasRoom(events)
        /\ events' = events + 1
        /\ Processing([processor EXCEPT !.hand = FALSE])
     \/ /\ ~EventsReceiver
        /\ events' = events
        /\ Processing([processor EXCEPT !.at = "ended"])
  /\ obs' = obs

ProcessorEnds ==
  /\ processor.at = "flushing" /\ ~processor.hand
  /\ Processing([processor EXCEPT !.at = "ended"])
  /\ UNCHANGED <<obs, events>>

-----------------------------------------------------------------------------
(* The uploader.                                                           *)

Uploading(u) ==
  /\ Up
  /\ uploader' = u
  /\ UNCHANGED <<supervision, producers, obs, processor, world>>

UploaderReceives ==
  /\ uploader = "running" /\ events > 0
  /\ events' = events - 1
  /\ \E u \in {"running", "attempt"} : Uploading(u)

UploaderTicks ==
  /\ uploader = "running" /\ events = 0 /\ EventsOpen
  /\ Uploading("attempt")
  /\ events' = events

(* Nothing more comes: a last attempt, then the end. *)
UploaderDrained ==
  /\ uploader = "running" /\ events = 0 /\ ~EventsOpen
  /\ Uploading("last")
  /\ events' = events

(* A request and its backoff are over.  A verdict against the sensor ends  *)
(* the task, except in the last attempt, which ends it anyway. *)
AttemptEnds ==
  /\ \/ uploader = "attempt" /\ \E u \in {"running", "revoked"} : Uploading(u)
     \/ uploader = "last" /\ Uploading("drained")
  /\ events' = events

-----------------------------------------------------------------------------
(* A task panics.                                                          *)

Panic(t) ==
  /\ Up
  /\ t \in scenario.panics
  /\ \/ /\ t \in Tasks /\ task[t] \notin Over \cup {"untried", "reported"}
        /\ task' = [task EXCEPT ![t] = "failed"]
        /\ outbox' = [u \in Senders |-> outbox[u] /\ u # t]
        /\ UNCHANGED <<processor, uploader>>
     \/ /\ t = "processor" /\ ObsReceiver
        /\ processor' = [processor EXCEPT !.at = "failed"]
        /\ UNCHANGED <<task, outbox, uploader>>
     \/ /\ t = "uploader" /\ EventsReceiver
        /\ uploader' = "failed"
        /\ UNCHANGED <<task, outbox, processor>>
  /\ UNCHANGED <<scenario, supervision, window, obs, events, shutdown,
                 admin, process>>

-----------------------------------------------------------------------------
(* The supervisor.                                                         *)

(* The end of the supervisor's select, and the start of the stop sequence. *)
Stop(cause) ==
  /\ phase = "supervising"
  /\ phase' = "stopping" /\ failure' = cause
  /\ UNCHANGED <<stage, result, producers, obs, processor, sink, world>>

SeeShutdown == shutdown /\ Stop("none")

SeeProcessor == ~ObsReceiver /\ Stop("processor")

(* `join_next` returns when a capture is over, and with nothing to join. *)
SeeCapture ==
  /\ \/ \E c \in Opened : task[c] \in Over
     \/ Opened = {}
  /\ Stop("capture")

(* Slip: only a revocation counts, not a panic. *)
SeeRevocation == uploader = "revoked" /\ Stop("uploader")

SeeUploader == ~EventsReceiver /\ Stop("uploader")

IsOver(t) ==
  CASE t = "processor" -> ~ObsReceiver
    [] t = "uploader" -> ~EventsReceiver
    [] OTHER -> task[t] \in Over

(* One wait of the stop sequence is over; the channels' own senders are    *)
(* dropped before the processor and before the uploader is waited for. *)
Join ==
  /\ Stopping
  /\ \A t \in Stages[stage] : IsOver(t)
  /\ IF stage < Len(Stages)
       THEN stage' = stage + 1 /\ UNCHANGED <<phase, result>>
       ELSE /\ phase' = "ended"
            /\ result' = IF failure = "none" THEN "ok" ELSE "failure"
            /\ stage' = stage
  /\ UNCHANGED <<failure, producers, obs, processor, sink, world>>

(* SHUTDOWN_TIMEOUT: the tasks and what they hold die with the process. *)
StopTimeout ==
  /\ Stopping
  /\ phase' = "ended" /\ result' = "timeout"
  /\ task' = [t \in Tasks |-> "absent"]
  /\ outbox' = [t \in Senders |-> FALSE]
  /\ window' = [t \in Observers |-> FALSE]
  /\ obs' = 0 /\ events' = 0
  /\ processor' = [at |-> "failed", hand |-> FALSE, dirty |-> FALSE]
  /\ uploader' = "failed"
  /\ UNCHANGED <<stage, failure, world>>

-----------------------------------------------------------------------------
(* The process.                                                            *)

Outside(sh, a, p) ==
  /\ shutdown' = sh /\ admin' = a /\ process' = p
  /\ UNCHANGED <<scenario, supervision, producers, obs, processor, sink>>

Signal == ~shutdown /\ Outside(TRUE, admin, process)

(* It cannot bind, or panics. *)
AdminFails ==
  /\ "admin" \in scenario.panics /\ admin = "serving"
  /\ Outside(shutdown, "failed", process)

AdminStops ==
  /\ admin = "serving" /\ shutdown
  /\ Outside(shutdown, "stopped", process)

(* The first of the two tasks to end decides the exit code; the other is   *)
(* told to stop. *)
MainSeesDaemon ==
  /\ process = "waiting" /\ phase = "ended"
  /\ Outside(TRUE, admin, IF result = "ok" THEN "closing" ELSE "closing_error")

MainSeesAdmin ==
  /\ process = "waiting" /\ admin # "serving"
  /\ Outside(TRUE, admin, "closing_error")

(* `main` waits for the other (20 s, more than the stop sequence may take) *)
(* and returns. *)
MainExits ==
  /\ process \in {"closing", "closing_error"}
  /\ phase = "ended" /\ admin # "serving"
  /\ Outside(shutdown, admin, IF process = "closing" THEN "ok" ELSE "error")

-----------------------------------------------------------------------------

CaptureSteps(c) == OpenInterface(c) \/ CaptureCheck(c) \/ CaptureRead(c)

RemoteSteps(r) ==
  \/ RemoteStart(r) \/ RemoteRequest(r) \/ RemoteClose(r)
  \/ RemoteClosed(r) \/ RemoteRetry(r)

ProcessorSteps ==
  \/ ProcessorReceives \/ ProcessorCloses \/ ProcessorReports
  \/ ProcessorForwards \/ ProcessorEnds

UploaderSteps == UploaderReceives \/ UploaderDrained \/ AttemptEnds

SupervisorSteps ==
  Started \/ SeeShutdown \/ SeeProcessor \/ SeeCapture \/ SeeUploader \/ Join

MainSteps == AdminStops \/ MainSeesDaemon \/ MainSeesAdmin \/ MainExits

Periodic == {"heartbeat", "poll", "sweep"}

Next ==
  \/ \E t \in Senders : Deliver(t)
  \/ \E c \in Captures : CaptureSteps(c)
  \/ \E r \in Remotes : RemoteSteps(r) \/ RemoteStream(r)
  \/ \E t \in Periodic : Tick(t) \/ SeeStop(t)
  \/ \E t \in {"poll", "sweep"} : Finish(t)
  \/ SweepFinds
  \/ ProcessorSteps
  \/ UploaderSteps \/ UploaderTicks
  \/ \E t \in Tasks \cup {"processor", "uploader"} : Panic(t)
  \/ SupervisorSteps \/ StopTimeout
  \/ Signal \/ AdminFails \/ MainSteps

Spec == Init /\ [][Next]_vars

(* The runtime polls a task that is ready, `recv` returns within 500 ms,   *)
(* requests, sweeps and backoffs are bounded, and after the shutdown a     *)
(* producer makes few observations.  Nothing makes a frame, a tick, a      *)
(* signal, a failure or the timeout happen.                                *)
ProducerProceeds(t) ==
  IF t \in Captures THEN CaptureSteps(t)
  ELSE IF t \in Remotes
    THEN \/ RemoteStart(t) \/ RemoteRequest(t) \/ RemoteClosed(t)
         \/ RemoteRetry(t) \/ (Stopping /\ RemoteClose(t))
    ELSE SeeStop(t) \/ (t # "heartbeat" /\ Finish(t))

Fairness ==
  /\ \A t \in Senders : WF_vars(Deliver(t))
  /\ \A t \in Tasks : WF_vars(ProducerProceeds(t))
  /\ WF_vars(ProcessorSteps) /\ WF_vars(UploaderSteps)
  /\ WF_vars(SupervisorSteps) /\ WF_vars(MainSteps)

FairSpec == Spec /\ Fairness

-----------------------------------------------------------------------------

(* The channels keep their bounds, and a producer that is over has nothing *)
(* in hand. *)
TypeOK ==
  /\ scenario \in Scenarios
  /\ phase \in {"starting", "supervising", "stopping", "ended"}
  /\ stage \in 1..Len(Stages)
  /\ failure \in {"none", "start", "processor", "capture", "uploader"}
  /\ result \in {"none", "ok", "failure", "timeout"}
  /\ task \in [Tasks -> TaskStates]
  /\ outbox \in [Senders -> BOOLEAN]
  /\ \A t \in Senders : outbox[t] => task[t] \notin Over
  /\ window \in [Observers -> BOOLEAN]
  /\ obs \in 0..Capacity /\ events \in 0..Capacity
  /\ processor \in [at : {"running", "flushing", "ended", "failed"},
                    hand : BOOLEAN, dirty : BOOLEAN]
  /\ uploader \in
       {"running", "attempt", "last", "drained", "revoked", "failed"}
  /\ shutdown \in BOOLEAN
  /\ admin \in {"serving", "stopped", "failed"}
  /\ process \in {"waiting", "closing", "closing_error", "ok", "error"}

(* When `run` or the process ends within the timeout and neither processor *)
(* nor uploader failed nor the start, every observation that its channel   *)
(* accepted and every fingerprint was handed to the persistent queue,      *)
(* whatever ended the daemon: a signal, a capture that failed or the admin *)
(* server (runtime.rs:318-346, the order of the stop; main.rs:97-99).  An  *)
(* open flow window is left behind by a task that failed and by no other:  *)
(* a read error returns before the drain (runtime.rs:451-455), as a panic  *)
(* does, and the flows of that window are lost.                            *)
EndHandsOver ==
  /\ phase = "ended" \/ process \in {"ok", "error"}
  /\ failure # "start" /\ result # "timeout"
  /\ processor.at # "failed" /\ uploader \notin {"failed", "revoked"}
  => /\ obs = 0 /\ events = 0
     /\ ~processor.hand /\ ~processor.dirty
     /\ \A t \in Senders : ~outbox[t]
     /\ \A t \in Observers : window[t] => task[t] = "failed"

(* The stop sequence needs no timeout: full channels, a dead processor, a  *)
(* dead or revoked uploader and tasks between two awaits cannot block it   *)
(* (runtime.rs:318-346). *)
StopsWithoutTimeout == Stopping ~> phase = "ended"

(* A critical task that ends while the daemon runs, by an error, a panic   *)
(* or a revocation, takes the process down for systemd to restart it       *)
(* (runtime.rs:285-301: critical tasks may never disappear silently). *)
CriticalTaskOver ==
  \/ ~ObsReceiver \/ ~EventsReceiver
  \/ \E c \in Captures : task[c] \in {"ended", "failed"}

FailureEndsProcess ==
  phase = "supervising" /\ CriticalTaskOver ~> process \in {"ok", "error"}

(* runtime.rs:226-228: a router's capture is a recoverable producer and    *)
(* never part of the supervisor's select.  So the supervisor reports a     *)
(* failed capture only if a local one is over. *)
CaptureFailureHasCause ==
  failure = "capture" => \E c \in Captures : task[c] \in {"ended", "failed"}

(* docs/architecture.md:24-26: the stop sequence finally stops the admin   *)
(* server, after everything else. *)
AdminStopsLast == admin = "stopped" => phase = "ended"

=============================================================================
