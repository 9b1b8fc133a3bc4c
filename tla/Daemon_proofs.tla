--------------------------- MODULE Daemon_proofs ----------------------------
(***************************************************************************)
(* Proofs about the daemon's tasks (module Daemon): for any interfaces,    *)
(* any producers that take part, any tasks that panic and any capacity of  *)
(* the channels, an end of `run` within the timeout leaves nothing behind  *)
(* but the open windows of captures that failed.                           *)
(*                                                                         *)
(* EndHandsOver speaks of the end only; IInv says what each earlier        *)
(* state contributes.  The stop sequence makes every task the last user of *)
(* what it empties: the processor flushes once no sender is left           *)
(* (ProcessorLast), the uploader makes its last attempt once no processor  *)
(* is left (UploaderLast), the open flows of an observer are reported      *)
(* before it is over (WindowsReported), and `run` returns after the        *)
(* uploader (EndOrder).  A task that is over stays over because only the   *)
(* start spawns tasks (StartOrder).                                        *)
(***************************************************************************)
EXTENDS Daemon, TLAPS

(* Processor or uploader did not end in order. *)
Failing ==
  processor.at = "failed" \/ uploader \in {"failed", "revoked"}

StartOrder ==
  /\ phase \in {"starting", "supervising"} => stage = 1
  /\ phase = "starting" => \A t \in Tasks \ Captures : task[t] = "absent"

Windowed == {"checking", "reading", "stream", "failed"}

WindowsReported ==
  \A t \in Observers : window[t] /\ ~Failing => task[t] \in Windowed

ProcessorLast ==
  /\ processor.at = "flushing" => obs = 0 /\ ~ObsOpen /\ ~processor.dirty
  /\ processor.at = "ended" /\ ~Failing =>
       obs = 0 /\ ~ObsOpen /\ ~processor.hand /\ ~processor.dirty

UploaderLast ==
  uploader \in {"last", "drained"} => events = 0 /\ ~EventsOpen

EndOrder ==
  /\ process \in {"ok", "error"} => phase = "ended"
  /\ phase = "ended" /\ failure # "start" /\ result # "timeout" =>
       ~EventsReceiver

IInv ==
  /\ TypeOK
  /\ StartOrder /\ WindowsReported
  /\ ProcessorLast /\ UploaderLast /\ EndOrder

(* What every step of a producer t has in common: it is not over, and      *)
(* nothing but what belongs to producers and their channel changes.        *)
ProducerStep(t) ==
  /\ phase # "ended" /\ task[t] \notin Over
  /\ \A u \in Tasks : u # t => task'[u] = task[u]
  /\ t \notin Senders => obs' = obs
  /\ UNCHANGED <<supervision, processor, sink, world>>

-----------------------------------------------------------------------------
(* Facts about the names.                                                  *)

LEMMA Names ==
  /\ Observers \subseteq Senders /\ Senders \subseteq Tasks
  /\ Captures \subseteq Observers /\ Remotes \subseteq Observers
  /\ Captures \cap Remotes = {}
  /\ Periodic \subseteq Tasks /\ Periodic \cap Observers = {}
  /\ "heartbeat" \in Senders /\ "sweep" \in Senders /\ "poll" \notin Senders
  BY ProducersAssumption DEF Observers, Senders, Tasks, Periodic

LEMMA StageNames ==
  /\ Len(Stages) = 7
  /\ Stages[7] = {"uploader"}
  BY DEF Stages

LEMMA LastStage ==
  ASSUME \A t \in Stages[7] : IsOver(t)
  PROVE  ~EventsReceiver
  <1>1. IsOver("uploader")
    BY StageNames
  <1>2. QED BY <1>1 DEF IsOver

LEMMA InitInvariant ==
  ASSUME Init
  PROVE  IInv
  <1>1. /\ task \in [Tasks -> TaskStates]
        /\ \A t \in Tasks \ Captures : task[t] = "absent"
    BY Names DEF Init, TaskStates, Over
  <1>2. TypeOK
    <2>1. /\ stage \in 1..Len(Stages)
          /\ obs \in 0..Capacity /\ events \in 0..Capacity
      BY CapacityAssumption, StageNames DEF Init
    <2>2. processor \in [at : {"running", "flushing", "ended", "failed"},
                         hand : BOOLEAN, dirty : BOOLEAN]
      BY DEF Init
    <2>3. /\ outbox \in [Senders -> BOOLEAN]
          /\ window \in [Observers -> BOOLEAN]
          /\ \A t \in Senders : ~outbox[t]
      BY DEF Init
    <2>4. QED BY <1>1, <2>1, <2>2, <2>3 DEF Init, TypeOK
  <1>3. StartOrder
    BY <1>1 DEF Init, StartOrder
  <1>4. WindowsReported /\ ProcessorLast
    BY DEF Init, WindowsReported, ProcessorLast
  <1>5. UploaderLast /\ EndOrder
    BY DEF Init, UploaderLast, EndOrder
  <1>6. QED BY <1>2, <1>3, <1>4, <1>5 DEF IInv

-----------------------------------------------------------------------------
(* Producers.                                                              *)

(* What a producer does with its channel leaves the later parts of the     *)
(* daemon in order: while a sender is not over, the processor runs or has  *)
(* failed.                                                                 *)
LEMMA ProducerKeepsOrder ==
  ASSUME IInv, NEW t \in Tasks, ProducerStep(t)
  PROVE  StartOrder' /\ ProcessorLast' /\ UploaderLast' /\ EndOrder'
  <1> USE DEF IInv
  <1>1. StartOrder'
    BY DEF StartOrder, ProducerStep, supervision, Over
  <1>2. ProcessorLast'
    <2>1. CASE t \in Senders
      <3>1. ObsOpen
        BY <2>1 DEF ProducerStep, ObsOpen
      <3>2. processor.at # "flushing" /\ (processor.at = "ended" => Failing)
        BY <3>1 DEF ProcessorLast
      <3>3. QED
        BY <3>2 DEF ProcessorLast, ProducerStep, sink, Failing
    <2>2. CASE t \notin Senders
      <3>1. \A u \in Senders : task'[u] = task[u]
        BY <2>2, Names DEF ProducerStep
      <3>2. ObsOpen' <=> ObsOpen
        BY <3>1 DEF ObsOpen, ProducerStep, supervision
      <3>3. QED
        BY <2>2, <3>2 DEF ProcessorLast, ProducerStep, sink, Failing
    <2>3. QED BY <2>1, <2>2
  <1>3. UploaderLast'
    BY DEF UploaderLast, ProducerStep, supervision, sink, EventsOpen
  <1>4. EndOrder'
    BY DEF EndOrder, ProducerStep, supervision, sink, world, EventsReceiver
  <1>5. QED BY <1>1, <1>2, <1>3, <1>4

LEMMA DeliverStep ==
  ASSUME IInv, NEW t \in Senders, Deliver(t)
  PROVE  IInv'
  <1> USE DEF IInv
  <1>1. /\ t \in Tasks /\ task[t] \notin Over
        /\ task \in [Tasks -> TaskStates]
    BY Names DEF TypeOK, Deliver
  <1>2. /\ AfterSend(t) \in TaskStates
        /\ AfterRefusal(t) \in TaskStates
    BY <1>1 DEF AfterSend, AfterRefusal, TaskStates, Over
  <1>3. /\ \A u \in Tasks : u # t => task'[u] = task[u]
        /\ task'[t] = AfterSend(t) \/ ~ObsReceiver
        /\ task' \in [Tasks -> TaskStates]
    BY <1>1, <1>2 DEF Deliver
  <1>4. /\ outbox' \in [Senders -> BOOLEAN]
        /\ ~outbox'[t]
        /\ \A u \in Senders : u # t => outbox'[u] = outbox[u]
    BY DEF Deliver, TypeOK
  <1>5. ProducerStep(t)
    BY <1>1, <1>3 DEF Deliver, ProducerStep, Up
  <1>6. obs' \in 0..Capacity
    BY CapacityAssumption DEF Deliver, HasRoom, TypeOK
  <1>7. \A u \in Senders : outbox'[u] => task'[u] \notin Over
    BY <1>3, <1>4, Names DEF TypeOK
  <1>8. window' = window
    BY DEF Deliver
  <1>9. TypeOK'
    BY <1>3, <1>4, <1>5, <1>6, <1>7, <1>8
    DEF TypeOK, ProducerStep, supervision, sink, world
  <1>10. WindowsReported'
    <2>1. ~ObsReceiver => Failing
      <3>1. ObsOpen
        BY <1>1 DEF ObsOpen
      <3>2. QED
        BY <3>1 DEF ProcessorLast, ObsReceiver, TypeOK, Failing
    <2>2. Failing' <=> Failing
      BY <1>5 DEF ProducerStep, sink, Failing
    <2>3. t \in Observers /\ task[t] \in Windowed =>
            AfterSend(t) \in Windowed
      BY Names DEF AfterSend, Windowed, Periodic
    <2>4. QED
      BY <1>3, <1>8, <2>1, <2>2, <2>3, Names DEF WindowsReported
  <1>11. QED
    BY <1>5, <1>1, <1>9, <1>10, ProducerKeepsOrder

(* A step of an observer that reports the flows it gives up.               *)
LEMMA MoveStep ==
  ASSUME IInv, NEW t \in Observers, NEW s \in TaskStates,
         NEW out \in BOOLEAN, NEW w \in BOOLEAN,
         task[t] \notin Over, out => s \notin Over, w => s \in Windowed,
         Move(t, s, out, w)
  PROVE  IInv'
  <1> USE DEF IInv
  <1>1. /\ t \in Tasks /\ t \in Senders
        /\ task \in [Tasks -> TaskStates]
        /\ outbox \in [Senders -> BOOLEAN]
        /\ window \in [Observers -> BOOLEAN]
    BY Names DEF TypeOK
  <1>2. /\ \A u \in Tasks : u # t => task'[u] = task[u]
        /\ task'[t] = s
        /\ task' \in [Tasks -> TaskStates]
    BY <1>1 DEF Move
  <1>3. /\ outbox' \in [Senders -> BOOLEAN]
        /\ outbox'[t] = out
        /\ \A u \in Senders : u # t => outbox'[u] = outbox[u]
    BY <1>1 DEF Move
  <1>4. /\ window' \in [Observers -> BOOLEAN]
        /\ window'[t] = w
        /\ \A u \in Observers : u # t => window'[u] = window[u]
    BY <1>1 DEF Move
  <1>5. ProducerStep(t) /\ obs' = obs
    BY <1>2 DEF Move, ProducerStep, Up
  <1>6. \A u \in Senders : outbox'[u] => task'[u] \notin Over
    BY <1>2, <1>3, Names DEF TypeOK
  <1>7. TypeOK'
    BY <1>2, <1>3, <1>4, <1>5, <1>6
    DEF TypeOK, ProducerStep, supervision, sink, world
  <1>8. Failing' <=> Failing
    BY <1>5 DEF ProducerStep, sink, Failing
  <1>9. WindowsReported'
    BY <1>2, <1>4, <1>8, Names DEF WindowsReported
  <1>10. QED
    BY <1>1, <1>5, <1>7, <1>9, ProducerKeepsOrder

(* A step of a task without an observer.                                   *)
LEMMA StepStep ==
  ASSUME IInv, NEW t \in Periodic, NEW s \in TaskStates,
         NEW out \in BOOLEAN,
         task[t] \notin Over, out => s \notin Over,
         Step(t, s, out)
  PROVE  IInv'
  <1> USE DEF IInv
  <1>1. /\ t \in Tasks /\ t \notin Observers
        /\ task \in [Tasks -> TaskStates]
        /\ outbox \in [Senders -> BOOLEAN]
    BY Names DEF TypeOK
  <1>2. /\ \A u \in Tasks : u # t => task'[u] = task[u]
        /\ task'[t] = s
        /\ task' \in [Tasks -> TaskStates]
    BY <1>1 DEF Step
  <1>3. /\ outbox' \in [Senders -> BOOLEAN]
        /\ t \in Senders => outbox'[t] = out
        /\ \A u \in Senders : u # t => outbox'[u] = outbox[u]
    BY <1>1 DEF Step
  <1>4. ProducerStep(t) /\ obs' = obs /\ window' = window
    BY <1>2 DEF Step, ProducerStep, Up
  <1>5. \A u \in Senders : outbox'[u] => task'[u] \notin Over
    BY <1>2, <1>3, Names DEF TypeOK
  <1>6. TypeOK'
    BY <1>2, <1>3, <1>4, <1>5
    DEF TypeOK, ProducerStep, supervision, sink, world
  <1>7. Failing' <=> Failing
    BY <1>4 DEF ProducerStep, sink, Failing
  <1>8. WindowsReported'
    BY <1>1, <1>2, <1>4, <1>7, Names DEF WindowsReported
  <1>9. QED
    BY <1>1, <1>4, <1>6, <1>8, ProducerKeepsOrder

(* OpenInterface leaves the window of its interface, which nothing has     *)
(* opened yet.                                                             *)
LEMMA OpenStep ==
  ASSUME IInv, NEW c \in Captures, OpenInterface(c)
  PROVE  IInv'
  <1> USE DEF IInv
  <1>1. /\ c \in Tasks /\ c \in Senders /\ c \in Observers
        /\ task \in [Tasks -> TaskStates]
        /\ outbox \in [Senders -> BOOLEAN]
    BY Names DEF TypeOK
  <1>2. task[c] = "untried" /\ phase = "starting"
    BY DEF OpenInterface
  <1>3. /\ \A u \in Tasks : u # c => task'[u] = task[u]
        /\ task'[c] \in {"checking", "reported"}
        /\ task' \in [Tasks -> TaskStates]
    BY <1>1 DEF OpenInterface, TaskStates
  <1>4. /\ outbox' \in [Senders -> BOOLEAN]
        /\ \A u \in Senders : u # c => outbox'[u] = outbox[u]
    BY <1>1 DEF OpenInterface
  <1>5. ProducerStep(c) /\ obs' = obs /\ window' = window
    BY <1>2, <1>3 DEF OpenInterface, ProducerStep, Over
  <1>6. \A u \in Senders : outbox'[u] => task'[u] \notin Over
    BY <1>3, <1>4, Names DEF TypeOK, Over
  <1>7. TypeOK'
    BY <1>3, <1>4, <1>5, <1>6
    DEF TypeOK, ProducerStep, supervision, sink, world
  <1>8. Failing' <=> Failing
    BY <1>5 DEF ProducerStep, sink, Failing
  <1>9. WindowsReported'
    <2>1. window[c] => Failing
      BY <1>1, <1>2 DEF WindowsReported, Windowed
    <2>2. QED
      BY <1>1, <1>3, <1>5, <1>8, <2>1, Names DEF WindowsReported
  <1>10. QED
    BY <1>1, <1>5, <1>7, <1>9, ProducerKeepsOrder

LEMMA CaptureStep ==
  ASSUME IInv, NEW c \in Captures, CaptureSteps(c)
  PROVE  IInv'
  <1>1. c \in Observers /\ window[c] \in BOOLEAN
    BY Names DEF IInv, TypeOK
  <1>2. CASE OpenInterface(c)
    BY <1>2, OpenStep
  <1>3. CASE CaptureCheck(c)
    <2>1. task[c] = "checking" /\ task[c] \notin Over
      BY <1>3 DEF CaptureCheck, Over
    <2>2. CASE ~Stopping
      <3>1. Move(c, "reading", FALSE, window[c])
        BY <1>3, <2>2 DEF CaptureCheck
      <3>2. QED
        BY <1>1, <2>1, <3>1, MoveStep DEF TaskStates, Windowed
    <2>3. CASE Stopping /\ window[c]
      <3>1. Move(c, "draining", TRUE, FALSE)
        BY <1>3, <2>3 DEF CaptureCheck
      <3>2. QED
        BY <1>1, <2>1, <3>1, MoveStep DEF TaskStates, Over
    <2>4. CASE Stopping /\ ~window[c]
      <3>1. Move(c, "ended", FALSE, FALSE)
        BY <1>3, <2>4 DEF CaptureCheck
      <3>2. QED
        BY <1>1, <2>1, <3>1, MoveStep DEF TaskStates, Over
    <2>5. QED BY <2>2, <2>3, <2>4
  <1>4. CASE CaptureRead(c)
    <2>1. task[c] \notin Over
      BY <1>4 DEF CaptureRead, Over
    <2>2. CASE Move(c, "failed", FALSE, window[c])
      BY <1>1, <2>1, <2>2, MoveStep DEF TaskStates, Over, Windowed
    <2>3. CASE \E out, w \in BOOLEAN :
                 Move(c, IF out THEN "reading" ELSE "checking", out, w)
      <3>1. PICK out \in BOOLEAN, w \in BOOLEAN :
              Move(c, IF out THEN "reading" ELSE "checking", out, w)
        BY <2>3
      <3>2. QED
        BY <1>1, <2>1, <3>1, MoveStep DEF TaskStates, Over, Windowed
    <2>4. QED BY <1>4, <2>2, <2>3 DEF CaptureRead
  <1>5. QED BY <1>2, <1>3, <1>4 DEF CaptureSteps

LEMMA RemoteStep ==
  ASSUME IInv, NEW r \in Remotes, RemoteSteps(r) \/ RemoteStream(r)
  PROVE  IInv'
  <1>1. r \in Observers /\ window[r] \in BOOLEAN
    BY Names DEF IInv, TypeOK
  <1>2. CASE RemoteStart(r)
    <2>1. task[r] \notin Over
      BY <1>2 DEF RemoteStart, Over
    <2>2. \E s \in {"ended", "request"} : Move(r, s, FALSE, FALSE)
      BY <1>2 DEF RemoteStart
    <2>3. QED BY <1>1, <2>1, <2>2, MoveStep DEF TaskStates, Over
  <1>3. CASE RemoteRequest(r)
    <2>1. task[r] \notin Over
      BY <1>3 DEF RemoteRequest, Over
    <2>2. \E s \in {"stream", "closing"} : Move(r, s, FALSE, FALSE)
      BY <1>3 DEF RemoteRequest
    <2>3. QED BY <1>1, <2>1, <2>2, MoveStep DEF TaskStates, Over
  <1>4. CASE RemoteStream(r)
    <2>1. task[r] \notin Over
      BY <1>4 DEF RemoteStream, Over
    <2>2. PICK out \in BOOLEAN, w \in BOOLEAN : Move(r, "stream", out, w)
      BY <1>4 DEF RemoteStream
    <2>3. QED
      BY <1>1, <2>1, <2>2, MoveStep DEF TaskStates, Over, Windowed
  <1>5. CASE RemoteClose(r)
    <2>1. task[r] \notin Over
      BY <1>5 DEF RemoteClose, Over
    <2>2. Move(r, "closing", window[r], FALSE)
      BY <1>5 DEF RemoteClose
    <2>3. QED BY <1>1, <2>1, <2>2, MoveStep DEF TaskStates, Over
  <1>6. CASE RemoteClosed(r)
    <2>1. task[r] \notin Over
      BY <1>6 DEF RemoteClosed, Over
    <2>2. \E s \in {"ended", "backoff"} : Move(r, s, FALSE, FALSE)
      BY <1>6 DEF RemoteClosed
    <2>3. QED BY <1>1, <2>1, <2>2, MoveStep DEF TaskStates, Over
  <1>7. CASE RemoteRetry(r)
    <2>1. task[r] \notin Over
      BY <1>7 DEF RemoteRetry, Over
    <2>2. \E s \in {"ended", "idle"} : Move(r, s, FALSE, FALSE)
      BY <1>7 DEF RemoteRetry
    <2>3. QED BY <1>1, <2>1, <2>2, MoveStep DEF TaskStates, Over
  <1>8. QED
    BY <1>2, <1>3, <1>4, <1>5, <1>6, <1>7 DEF RemoteSteps

LEMMA PeriodicStep ==
  ASSUME IInv, NEW t \in Periodic,
         Tick(t) \/ SeeStop(t) \/ Finish(t) \/ (t = "sweep" /\ SweepFinds)
  PROVE  IInv'
  <1>1. CASE Tick(t)
    <2>1. task[t] \notin Over /\ (t = "heartbeat") \in BOOLEAN
      BY <1>1 DEF Tick, Over
    <2>2. Step(t, "busy", t = "heartbeat")
      BY <1>1 DEF Tick
    <2>3. QED BY <2>1, <2>2, StepStep DEF TaskStates, Over
  <1>2. CASE SeeStop(t)
    <2>1. task[t] \notin Over
      BY <1>2 DEF SeeStop, Over
    <2>2. Step(t, "ended", FALSE)
      BY <1>2 DEF SeeStop
    <2>3. QED BY <2>1, <2>2, StepStep DEF TaskStates, Over
  <1>3. CASE Finish(t)
    <2>1. task[t] \notin Over
      BY <1>3 DEF Finish, Over
    <2>2. Step(t, "idle", FALSE)
      BY <1>3 DEF Finish
    <2>3. QED BY <2>1, <2>2, StepStep DEF TaskStates, Over
  <1>4. CASE t = "sweep" /\ SweepFinds
    <2>1. task[t] \notin Over
      BY <1>4 DEF SweepFinds, Over
    <2>2. Step(t, "busy", TRUE)
      BY <1>4 DEF SweepFinds
    <2>3. QED BY <2>1, <2>2, StepStep DEF TaskStates, Over
  <1>5. QED BY <1>1, <1>2, <1>3, <1>4

-----------------------------------------------------------------------------
(* The processor.                                                          *)

Processors == [at : {"running", "flushing", "ended", "failed"},
               hand : BOOLEAN, dirty : BOOLEAN]

(* What a step of the processor must show for the rest to follow.          *)
LEMMA ProcessingStep ==
  ASSUME IInv, NEW p \in Processors, Processing(p),
         obs' \in 0..Capacity, events' \in 0..Capacity,
         EventsReceiver \/ events' = events,
         ObsReceiver, p.at # "failed",
         p.at = "flushing" =>
           obs' = 0 /\ ~ObsOpen /\ ~p.dirty,
         p.at = "ended" /\ uploader \notin {"failed", "revoked"} =>
           obs' = 0 /\ ~ObsOpen /\ ~p.hand /\ ~p.dirty
  PROVE  IInv'
  <1> USE DEF IInv
  <1>1. /\ processor' = p /\ uploader' = uploader /\ phase # "ended"
        /\ UNCHANGED <<supervision, producers, world>>
    BY DEF Processing, Up
  <1>2. TypeOK'
    BY <1>1 DEF TypeOK, supervision, producers, world, Processors
  <1>3. StartOrder'
    BY <1>1 DEF StartOrder, supervision, producers
  <1>4. WindowsReported'
    <2>1. Failing => Failing'
      BY <1>1 DEF Failing, ObsReceiver
    <2>2. QED BY <1>1, <2>1 DEF WindowsReported, producers
  <1>5. ProcessorLast'
    <2>1. ObsOpen' <=> ObsOpen
      BY <1>1 DEF ObsOpen, supervision, producers
    <2>2. QED BY <1>1, <2>1 DEF ProcessorLast, Failing
  <1>6. UploaderLast'
    <2>1. uploader \notin {"last", "drained"}
      BY DEF UploaderLast, EventsOpen, ObsReceiver
    <2>2. QED BY <1>1, <2>1 DEF UploaderLast
  <1>7. EndOrder'
    BY <1>1 DEF EndOrder, supervision, world, EventsReceiver
  <1>8. QED BY <1>2, <1>3, <1>4, <1>5, <1>6, <1>7

LEMMA ProcessorStep ==
  ASSUME IInv, ProcessorSteps
  PROVE  IInv'
  <1> USE DEF IInv
  <1>1. /\ processor \in Processors
        /\ obs \in 0..Capacity /\ events \in 0..Capacity
        /\ Capacity \in Nat
    BY CapacityAssumption DEF TypeOK, Processors
  <1>2. CASE ProcessorReceives
    <2>1. PICK news \in BOOLEAN :
            Processing([processor EXCEPT !.hand = TRUE,
                                         !.dirty = @ \/ news])
      BY <1>2 DEF ProcessorReceives
    <2> DEFINE p == [processor EXCEPT !.hand = TRUE, !.dirty = @ \/ news]
    <2>2. p \in Processors /\ p.at = processor.at
      BY <1>1 DEF Processors
    <2>3. /\ ObsReceiver /\ p.at = "running"
          /\ obs' \in 0..Capacity /\ events' = events
      BY <1>1, <1>2, <2>2 DEF ProcessorReceives, ObsReceiver
    <2> HIDE DEF p
    <2>4. Processing(p)
      BY <2>1 DEF p
    <2>5. QED BY <1>1, <2>2, <2>3, <2>4, ProcessingStep
  <1>3. CASE ProcessorCloses
    <2> DEFINE p ==
          [at |-> "flushing", hand |-> processor.dirty, dirty |-> FALSE]
    <2>1. /\ p \in Processors /\ p.at = "flushing" /\ ~p.dirty
          /\ Processing(p)
      BY <1>1, <1>3 DEF Processors, ProcessorCloses
    <2>2. /\ ObsReceiver /\ obs' = obs /\ events' = events
          /\ obs = 0 /\ ~ObsOpen
      BY <1>3 DEF ProcessorCloses, ObsReceiver
    <2> HIDE DEF p
    <2>3. QED BY <1>1, <2>1, <2>2, ProcessingStep
  <1>4. CASE ProcessorReports
    <2> DEFINE p == [processor EXCEPT !.hand = TRUE, !.dirty = FALSE]
    <2>1. /\ p \in Processors /\ p.at = processor.at
          /\ Processing(p)
      BY <1>1, <1>4 DEF Processors, ProcessorReports
    <2>2. /\ ObsReceiver /\ obs' = obs /\ events' = events
          /\ p.at = "running"
      BY <1>4, <2>1 DEF ProcessorReports, ObsReceiver
    <2> HIDE DEF p
    <2>3. QED BY <1>1, <2>1, <2>2, ProcessingStep
  <1>5. CASE ProcessorForwards
    <2>1. ObsReceiver /\ obs' = obs
      BY <1>5 DEF ProcessorForwards
    <2>2. CASE EventsReceiver /\ HasRoom(events) /\ events' = events + 1
                 /\ Processing([processor EXCEPT !.hand = FALSE])
      <3> DEFINE p == [processor EXCEPT !.hand = FALSE]
      <3>1. /\ p \in Processors /\ p.at = processor.at
            /\ p.dirty = processor.dirty
            /\ Processing(p)
        BY <1>1, <2>2 DEF Processors
      <3>2. events' \in 0..Capacity
        BY <1>1, <2>2 DEF HasRoom
      <3>3. /\ p.at \in {"running", "flushing"}
            /\ p.at = "flushing" => obs' = 0 /\ ~ObsOpen /\ ~p.dirty
        BY <2>1, <3>1 DEF ProcessorLast, ObsReceiver
      <3> HIDE DEF p
      <3>4. QED BY <1>1, <2>1, <2>2, <3>1, <3>2, <3>3, ProcessingStep
    <2>3. CASE ~EventsReceiver /\ events' = events
                 /\ Processing([processor EXCEPT !.at = "ended"])
      <3> DEFINE p == [processor EXCEPT !.at = "ended"]
      <3>1. p \in Processors /\ p.at = "ended" /\ Processing(p)
        BY <1>1, <2>3 DEF Processors
      <3>2. uploader \in {"failed", "revoked"}
        BY <2>1, <2>3
        DEF UploaderLast, EventsOpen, ObsReceiver, EventsReceiver, TypeOK
      <3> HIDE DEF p
      <3>3. QED BY <1>1, <2>1, <2>3, <3>1, <3>2, ProcessingStep
    <2>4. QED BY <1>5, <2>2, <2>3 DEF ProcessorForwards
  <1>6. CASE ProcessorEnds
    <2> DEFINE p == [processor EXCEPT !.at = "ended"]
    <2>1. /\ p \in Processors /\ p.at = "ended" /\ Processing(p)
          /\ p.hand = processor.hand /\ p.dirty = processor.dirty
      BY <1>1, <1>6 DEF Processors, ProcessorEnds
    <2>2. /\ ObsReceiver /\ obs' = obs /\ events' = events
          /\ obs = 0 /\ ~ObsOpen /\ ~p.hand /\ ~p.dirty
      BY <1>6, <2>1 DEF ProcessorEnds, ObsReceiver, ProcessorLast
    <2> HIDE DEF p
    <2>3. QED BY <1>1, <2>1, <2>2, ProcessingStep
  <1>7. QED
    BY <1>2, <1>3, <1>4, <1>5, <1>6 DEF ProcessorSteps

-----------------------------------------------------------------------------
(* The uploader.                                                           *)

LEMMA UploaderStep ==
  ASSUME IInv, UploaderSteps \/ UploaderTicks
  PROVE  IInv'
  <1> USE DEF IInv
  <1>1. /\ UNCHANGED <<supervision, producers, obs, processor, world>>
        /\ phase # "ended" /\ EventsReceiver
    BY DEF UploaderSteps, UploaderReceives, UploaderTicks, UploaderDrained,
           AttemptEnds, Uploading, Up, EventsReceiver
  <1>2. /\ events' = events \/ (events > 0 /\ events' = events - 1)
        /\ uploader' \in
             {"running", "attempt", "last", "drained", "revoked"}
        /\ uploader' \in {"last", "drained"} =>
             events' = 0 /\ ~EventsOpen
    BY DEF UploaderSteps, UploaderReceives, UploaderTicks, UploaderDrained,
           AttemptEnds, Uploading, UploaderLast
  <1>3. events' \in 0..Capacity
    BY <1>2, CapacityAssumption DEF TypeOK
  <1>4. TypeOK'
    BY <1>1, <1>2, <1>3 DEF TypeOK, supervision, producers, world
  <1>5. StartOrder'
    BY <1>1 DEF StartOrder, supervision, producers
  <1>6. Failing => Failing'
    BY <1>1 DEF Failing, EventsReceiver
  <1>7. WindowsReported'
    BY <1>1, <1>6 DEF WindowsReported, producers
  <1>8. ProcessorLast'
    <2>1. ObsOpen' <=> ObsOpen
      BY <1>1 DEF ObsOpen, supervision, producers
    <2>2. QED BY <1>1, <1>6, <2>1 DEF ProcessorLast
  <1>9. UploaderLast'
    <2>1. EventsOpen' <=> EventsOpen
      BY <1>1 DEF EventsOpen, supervision
    <2>2. QED BY <1>2, <2>1 DEF UploaderLast
  <1>10. EndOrder'
    BY <1>1 DEF EndOrder, supervision, world
  <1>11. QED BY <1>4, <1>5, <1>7, <1>8, <1>9, <1>10

-----------------------------------------------------------------------------
(* Panics.                                                                 *)

LEMMA PanicTask ==
  ASSUME IInv, NEW t \in Tasks, Panic(t), task' # task
  PROVE  IInv'
  <1> USE DEF IInv
  <1>1. /\ task[t] \notin Over
        /\ task' = [task EXCEPT ![t] = "failed"]
        /\ outbox' = [u \in Senders |-> outbox[u] /\ u # t]
        /\ UNCHANGED <<processor, uploader>>
    BY DEF Panic
  <1>2. /\ UNCHANGED <<supervision, window, obs, events, world>>
        /\ phase # "ended"
    BY DEF Panic, Up, world
  <1>3. /\ \A u \in Tasks : u # t => task'[u] = task[u]
        /\ task'[t] = "failed"
        /\ task' \in [Tasks -> TaskStates]
    BY <1>1 DEF TypeOK, TaskStates, Over
  <1>4. /\ outbox' \in [Senders -> BOOLEAN]
        /\ \A u \in Senders : outbox'[u] => outbox[u] /\ u # t
    BY <1>1 DEF TypeOK
  <1>5. ProducerStep(t)
    BY <1>1, <1>2, <1>3 DEF ProducerStep, sink
  <1>6. \A u \in Senders : outbox'[u] => task'[u] \notin Over
    BY <1>3, <1>4, Names DEF TypeOK
  <1>7. TypeOK'
    BY <1>1, <1>2, <1>3, <1>4, <1>6
    DEF TypeOK, supervision, world
  <1>8. WindowsReported'
    BY <1>1, <1>2, <1>3, Names DEF WindowsReported, Windowed, Failing
  <1>9. QED BY <1>5, <1>7, <1>8, ProducerKeepsOrder

LEMMA PanicStep ==
  ASSUME IInv, NEW t \in Tasks \cup {"processor", "uploader"}, Panic(t)
  PROVE  IInv'
  <1> USE DEF IInv
  <1>1. /\ UNCHANGED <<supervision, window, obs, events, world>>
        /\ phase # "ended"
    BY DEF Panic, Up, world
  <1>2. CASE t \in Tasks /\ task' # task
    BY <1>2, PanicTask
  <1>3. CASE t = "processor" /\ ObsReceiver
              /\ processor' = [processor EXCEPT !.at = "failed"]
              /\ UNCHANGED <<task, outbox, uploader>>
    <2>1. processor' \in Processors /\ processor'.at = "failed"
      BY <1>3 DEF TypeOK, Processors
    <2>2. TypeOK'
      BY <1>1, <1>3, <2>1 DEF TypeOK, supervision, world, Processors
    <2>3. StartOrder'
      BY <1>1, <1>3 DEF StartOrder, supervision
    <2>4. WindowsReported' /\ ProcessorLast'
      BY <2>1 DEF WindowsReported, ProcessorLast, Failing
    <2>5. UploaderLast'
      BY <1>1, <1>3 DEF UploaderLast, EventsOpen, ObsReceiver
    <2>6. EndOrder'
      BY <1>1, <1>3 DEF EndOrder, supervision, world, EventsReceiver
    <2>7. QED BY <2>2, <2>3, <2>4, <2>5, <2>6
  <1>4. CASE t = "uploader" /\ EventsReceiver /\ uploader' = "failed"
              /\ UNCHANGED <<task, outbox, processor>>
    <2>1. TypeOK'
      BY <1>1, <1>4 DEF TypeOK, supervision, world
    <2>2. StartOrder'
      BY <1>1, <1>4 DEF StartOrder, supervision
    <2>3. WindowsReported'
      BY <1>4 DEF WindowsReported, Failing
    <2>4. ProcessorLast'
      BY <1>1, <1>4
      DEF ProcessorLast, Failing, ObsOpen, supervision
    <2>5. UploaderLast'
      BY <1>4 DEF UploaderLast
    <2>6. EndOrder'
      BY <1>1, <1>4 DEF EndOrder, supervision, world, EventsReceiver
    <2>7. QED BY <2>1, <2>2, <2>3, <2>4, <2>5, <2>6
  <1>5. QED
    <2>1. CASE t \in Tasks /\ task[t] \notin Over
                /\ task' = [task EXCEPT ![t] = "failed"]
      <3>1. task'[t] = "failed" /\ task[t] # "failed"
        BY <2>1 DEF TypeOK, Over
      <3>2. QED BY <1>2, <2>1, <3>1
    <2>2. QED BY <1>3, <1>4, <2>1 DEF Panic

-----------------------------------------------------------------------------
(* The supervisor.                                                         *)

LEMMA StartedStep ==
  ASSUME IInv, Started
  PROVE  IInv'
  <1> USE DEF IInv
  <1>1. /\ phase = "starting" /\ stage = 1
        /\ UNCHANGED <<stage, outbox, window, obs, processor, sink, world>>
    BY DEF Started, StartOrder
  <1>2. \A t \in Tasks : task'[t] = task[t] \/ task[t] = "absent"
    BY DEF Started, StartOrder, TypeOK
  <1>3. /\ task' \in [Tasks -> TaskStates]
        /\ \A t \in Tasks : task'[t] \in {task[t], "idle"}
    BY <1>2 DEF Started, TypeOK, TaskStates
  <1>4. \/ phase' = "supervising" /\ failure' = failure /\ result' = result
        \/ phase' = "ended" /\ failure' = "start" /\ result' = "failure"
    BY DEF Started
  <1>5. TypeOK'
    <2>1. \A t \in Senders : outbox'[t] => task'[t] \notin Over
      BY <1>1, <1>3, Names DEF TypeOK, Over
    <2>2. QED BY <1>1, <1>3, <1>4, <2>1 DEF TypeOK, sink, world
  <1>6. StartOrder'
    BY <1>1, <1>4 DEF StartOrder
  <1>7. WindowsReported'
    BY <1>1, <1>2, Names
    DEF WindowsReported, Windowed, Failing, sink
  <1>8. ProcessorLast'
    <2>1. ObsOpen
      BY <1>1 DEF ObsOpen
    <2>2. QED
      BY <1>1, <2>1 DEF ProcessorLast, Failing, sink
  <1>9. UploaderLast'
    BY <1>1 DEF UploaderLast, EventsOpen, sink
  <1>10. EndOrder'
    BY <1>1, <1>4 DEF EndOrder, world
  <1>11. QED BY <1>5, <1>6, <1>7, <1>8, <1>9, <1>10

(* What a step of the supervisor after the start leaves alone, and what    *)
(* it needs for the channels to stay closed.                               *)
LEMMA SupervisionStep ==
  ASSUME IInv,
         UNCHANGED <<producers, obs, processor, sink, world>>,
         stage' \in {stage, stage + 1}, stage' \in 1..7,
         phase' \in {"stopping", "ended"},
         failure' \in {"none", "start", "processor", "capture", "uploader"},
         result' \in {"none", "ok", "failure", "timeout"},
         phase # "ended", phase' = "ended" => ~EventsReceiver
  PROVE  IInv'
  <1> USE DEF IInv
  <1>1. TypeOK'
    BY StageNames DEF TypeOK, producers, sink, world
  <1>2. StartOrder'
    BY DEF StartOrder
  <1>3. WindowsReported'
    BY DEF WindowsReported, Failing, producers, sink
  <1>4. ProcessorLast'
    <2>1. ObsOpen' => ObsOpen
      BY DEF ObsOpen, producers, TypeOK
    <2>2. QED BY <2>1 DEF ProcessorLast, Failing, sink
  <1>5. UploaderLast'
    BY DEF UploaderLast, EventsOpen, sink, TypeOK
  <1>6. EndOrder'
    BY DEF EndOrder, EventsReceiver, sink, world
  <1>7. QED BY <1>1, <1>2, <1>3, <1>4, <1>5, <1>6

LEMMA StopStep ==
  ASSUME IInv, SeeShutdown \/ SeeProcessor \/ SeeCapture \/ SeeUploader
  PROVE  IInv'
  <1>1. PICK cause \in {"none", "processor", "capture", "uploader"} :
          Stop(cause)
    BY DEF SeeShutdown, SeeProcessor, SeeCapture, SeeUploader
  <1>2. /\ UNCHANGED <<producers, obs, processor, sink, world>>
        /\ stage' = stage /\ stage \in 1..7
        /\ phase' = "stopping" /\ phase = "supervising"
        /\ failure' = cause /\ result' = result
        /\ result \in {"none", "ok", "failure", "timeout"}
    BY <1>1, StageNames DEF Stop, IInv, TypeOK
  <1>3. QED BY <1>2, SupervisionStep

LEMMA JoinStep ==
  ASSUME IInv, Join
  PROVE  IInv'
  <1>1. /\ UNCHANGED <<producers, obs, processor, sink, world>>
        /\ phase = "stopping" /\ failure' = failure
        /\ \A t \in Stages[stage] : IsOver(t)
    BY DEF Join, Stopping
  <1>2. /\ stage \in 1..7
        /\ failure \in {"none", "start", "processor", "capture", "uploader"}
        /\ result \in {"none", "ok", "failure", "timeout"}
    BY StageNames DEF IInv, TypeOK
  <1>3. CASE stage < Len(Stages)
    <2>1. stage' = stage + 1 /\ phase' = phase /\ result' = result
      BY <1>3 DEF Join
    <2>2. stage' \in 1..7
      BY <1>2, <1>3, <2>1, StageNames
    <2>3. QED BY <1>1, <1>2, <2>1, <2>2, SupervisionStep
  <1>4. CASE ~(stage < Len(Stages))
    <2>1. stage = 7
      BY <1>2, <1>4, StageNames
    <2>2. ~EventsReceiver
      BY <1>1, <2>1, LastStage
    <2>3. /\ phase' = "ended" /\ stage' = stage
          /\ result' \in {"ok", "failure"}
      BY <1>4 DEF Join
    <2>4. QED BY <1>1, <1>2, <2>2, <2>3, SupervisionStep
  <1>5. QED BY <1>3, <1>4

(* After the timeout nothing is left to follow.                            *)
LEMMA StopTimeoutStep ==
  ASSUME IInv, StopTimeout
  PROVE  IInv'
  <1> USE DEF IInv
  <1>1. /\ phase' = "ended" /\ result' = "timeout"
        /\ processor' = [at |-> "failed", hand |-> FALSE, dirty |-> FALSE]
        /\ uploader' = "failed" /\ obs' = 0 /\ events' = 0
        /\ UNCHANGED <<stage, failure, world>>
    BY DEF StopTimeout
  <1>2. /\ task' \in [Tasks -> TaskStates]
        /\ outbox' \in [Senders -> BOOLEAN]
        /\ window' \in [Observers -> BOOLEAN]
        /\ \A t \in Senders : ~outbox'[t]
    BY DEF StopTimeout, TaskStates, Over
  <1>3. processor' \in Processors /\ Failing'
    BY <1>1 DEF Processors, Failing
  <1>4. TypeOK'
    BY <1>1, <1>2, <1>3, CapacityAssumption
    DEF TypeOK, world, Processors
  <1>5. StartOrder' /\ UploaderLast' /\ EndOrder'
    BY <1>1 DEF StartOrder, UploaderLast, EndOrder
  <1>6. WindowsReported' /\ ProcessorLast'
    BY <1>1, <1>3 DEF WindowsReported, ProcessorLast
  <1>7. QED BY <1>4, <1>5, <1>6

-----------------------------------------------------------------------------
(* The process.                                                            *)

LEMMA OutsideStep ==
  ASSUME IInv, Signal \/ AdminFails \/ MainSteps
  PROVE  IInv'
  <1> USE DEF IInv
  <1>1. UNCHANGED <<scenario, supervision, producers, obs, processor, sink>>
    BY DEF Signal, AdminFails, MainSteps, AdminStops, MainSeesDaemon,
           MainSeesAdmin, MainExits, Outside
  <1>2. /\ shutdown' \in BOOLEAN
        /\ admin' \in {"serving", "stopped", "failed"}
        /\ process' \in
             {"waiting", "closing", "closing_error", "ok", "error"}
    BY DEF Signal, AdminFails, MainSteps, AdminStops, MainSeesDaemon,
           MainSeesAdmin, MainExits, Outside, TypeOK
  <1>3. process' \in {"ok", "error"} =>
          process \in {"ok", "error"} \/ phase = "ended"
    BY DEF Signal, AdminFails, MainSteps, AdminStops, MainSeesDaemon,
           MainSeesAdmin, MainExits, Outside
  <1>4. TypeOK'
    BY <1>1, <1>2 DEF TypeOK, supervision, producers, sink
  <1>5. StartOrder' /\ WindowsReported'
    BY <1>1
    DEF StartOrder, WindowsReported, Failing, supervision, producers, sink
  <1>6. ProcessorLast' /\ UploaderLast'
    <2>1. (ObsOpen' <=> ObsOpen) /\ (EventsOpen' <=> EventsOpen)
      BY <1>1 DEF ObsOpen, EventsOpen, supervision, producers
    <2>2. QED
      BY <1>1, <2>1 DEF ProcessorLast, UploaderLast, Failing, sink
  <1>7. EndOrder'
    BY <1>1, <1>3 DEF EndOrder, EventsReceiver, supervision, sink
  <1>8. QED BY <1>4, <1>5, <1>6, <1>7

LEMMA StutterStep ==
  ASSUME IInv, UNCHANGED vars
  PROVE  IInv'
  <1> USE DEF IInv, vars
  <1>1. TypeOK'
    BY DEF TypeOK
  <1>2. StartOrder' /\ WindowsReported'
    BY DEF StartOrder, WindowsReported, Failing
  <1>3. ProcessorLast' /\ UploaderLast'
    <2>1. (ObsOpen' <=> ObsOpen) /\ (EventsOpen' <=> EventsOpen)
      BY DEF ObsOpen, EventsOpen
    <2>2. QED BY <2>1 DEF ProcessorLast, UploaderLast, Failing
  <1>4. EndOrder'
    BY DEF EndOrder, EventsReceiver
  <1>5. QED BY <1>1, <1>2, <1>3, <1>4

-----------------------------------------------------------------------------
(* The invariant and what follows from it.                                 *)

LEMMA NextInvariant ==
  ASSUME IInv, [Next]_vars
  PROVE  IInv'
  <1>1. CASE \E t \in Senders : Deliver(t)
    BY <1>1, DeliverStep
  <1>2. CASE \E c \in Captures : CaptureSteps(c)
    BY <1>2, CaptureStep
  <1>3. CASE \E r \in Remotes : RemoteSteps(r) \/ RemoteStream(r)
    BY <1>3, RemoteStep
  <1>4. CASE \E t \in Periodic : Tick(t) \/ SeeStop(t)
    BY <1>4, PeriodicStep
  <1>5. CASE \E t \in {"poll", "sweep"} : Finish(t)
    BY <1>5, PeriodicStep DEF Periodic
  <1>6. CASE SweepFinds
    BY <1>6, PeriodicStep DEF Periodic
  <1>7. CASE ProcessorSteps
    BY <1>7, ProcessorStep
  <1>8. CASE UploaderSteps \/ UploaderTicks
    BY <1>8, UploaderStep
  <1>9. CASE \E t \in Tasks \cup {"processor", "uploader"} : Panic(t)
    BY <1>9, PanicStep
  <1>10. CASE SupervisorSteps \/ StopTimeout
    BY <1>10, StartedStep, StopStep, JoinStep, StopTimeoutStep
    DEF SupervisorSteps
  <1>11. CASE Signal \/ AdminFails \/ MainSteps
    BY <1>11, OutsideStep
  <1>12. CASE UNCHANGED vars
    BY <1>12, StutterStep
  <1>13. QED
    BY <1>1, <1>2, <1>3, <1>4, <1>5, <1>6, <1>7, <1>8, <1>9, <1>10, <1>11,
       <1>12
    DEF Next

LEMMA Invariance == Spec => []IInv
  <1>1. Init => IInv
    BY InitInvariant
  <1>2. IInv /\ [Next]_vars => IInv'
    BY NextInvariant
  <1>3. QED BY <1>1, <1>2, PTL DEF Spec

(* Both channels keep their bound whatever fails, a task that is over has  *)
(* no observation in hand, and every task is in one of its states          *)
(* (runtime.rs, the channels of `run`).                                    *)
THEOREM TypeCorrect == Spec => []TypeOK
  <1>1. IInv => TypeOK
    BY DEF IInv
  <1>2. QED BY <1>1, Invariance, PTL

LEMMA EndFollows ==
  ASSUME IInv
  PROVE  EndHandsOver
  <1> USE DEF IInv
  <1> SUFFICES ASSUME phase = "ended" \/ process \in {"ok", "error"},
                      failure # "start", result # "timeout",
                      processor.at # "failed",
                      uploader \notin {"failed", "revoked"}
               PROVE  /\ obs = 0 /\ events = 0
                      /\ ~processor.hand /\ ~processor.dirty
                      /\ \A t \in Senders : ~outbox[t]
                      /\ \A t \in Observers :
                           window[t] => task[t] = "failed"
    BY DEF EndHandsOver
  <1>1. ~Failing
    BY DEF Failing
  <1>2. ~EventsReceiver
    BY DEF EndOrder
  <1>3. uploader = "drained"
    BY <1>2 DEF TypeOK, EventsReceiver
  <1>4. events = 0 /\ ~EventsOpen
    BY <1>3 DEF UploaderLast
  <1>5. processor.at = "ended"
    BY <1>4 DEF EventsOpen, TypeOK
  <1>6. obs = 0 /\ ~ObsOpen /\ ~processor.hand /\ ~processor.dirty
    BY <1>1, <1>5 DEF ProcessorLast
  <1>7. \A t \in Senders : task[t] \in Over
    BY <1>6 DEF ObsOpen
  <1>8. \A t \in Senders : ~outbox[t]
    BY <1>7 DEF TypeOK
  <1>9. \A t \in Observers : window[t] => task[t] = "failed"
    BY <1>1, <1>7, Names DEF WindowsReported, Windowed, Over
  <1>10. QED BY <1>4, <1>6, <1>8, <1>9

(* An end of `run` within the timeout, with start, processor and uploader  *)
(* not failed, leaves no accepted observation and no fingerprint outside   *)
(* the persistent queue, and no open flow window but that of a task that a *)
(* read error or a panic ended before its drain, whatever ended the daemon *)
(* and however full the channels were (runtime.rs:318-346, 451-455).       *)
THEOREM EndHandsOverAlways == Spec => []EndHandsOver
  <1>1. IInv => EndHandsOver
    BY EndFollows
  <1>2. QED BY <1>1, Invariance, PTL

=============================================================================
