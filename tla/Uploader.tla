------------------------------ MODULE Uploader ------------------------------
(***************************************************************************)
(* The uploader task (crates/sensor-transport/src/uploader.rs) between the *)
(* bounded event channel, the persistent queue and the backend.            *)
(*                                                                         *)
(* The task is one loop: a biased select over shutdown, channel, upload    *)
(* ticker and WAL ticker, and in it upload attempts (`flush_once`) that    *)
(* suspend the whole loop while a request or a backoff is under way.       *)
(* The queue is seen through its contract: one DurableQueue per priority,  *)
(* read most important first (EventQueue keeps that contract).  The        *)
(* backend may take all of a batch, part of it, or none, and its answer    *)
(* may be lost; delivered is its bookkeeping.                              *)
(***************************************************************************)
EXTENDS Integers, Sequences

CONSTANTS
  Senders,      (* priorities the producers emit                           *)
  Capacity,     (* capacity of the event channel                           *)
  BatchMax,     (* batch_max_events, at least 1                            *)
  Undecodable,  (* records <<priority, number>> that do not deserialise    *)
  MaxEvents,    (* bound of the model: events sent into the channel        *)
  MaxRestarts   (* bound of the model: restarts of the process             *)

Priority == {"bulk", "standard", "critical"}

ASSUME SendersAssumption == Senders \subseteq Priority
ASSUME CapacityAssumption == Capacity \in Nat \ {0}
ASSUME BatchMaxAssumption == BatchMax \in Nat \ {0}
ASSUME UndecodableAssumption == Undecodable \subseteq Priority \X Nat
ASSUME MaxEventsAssumption == MaxEvents \in Nat
ASSUME MaxRestartsAssumption == MaxRestarts \in Nat

VARIABLES
  channel,    (* priorities of the events in the channel, oldest first     *)
  sent,       (* events the producers have sent                            *)
  closed,     (* every sender of the channel is dropped                    *)
  shutdown,   (* the shutdown watch holds true                             *)
  queue,      (* head, tail, synced and saved of each log                  *)
  control,    (* where the loop is                                         *)
  reason,     (* why the loop ends, "none" while it goes on                *)
  batch,      (* end of the batch in flight in each log                    *)
  delivered,  (* history: records the backend has taken                    *)
  discarded,  (* history: records given up as invalid (upload_discarded)   *)
  evicted,    (* history: records given up by retention (queue_dropped)    *)
  refused,    (* history: events that got no record (counted by the code)  *)
  lost,       (* history: events a restart took before they were synced    *)
  unsynced,   (* history: the flush at the end of this process failed      *)
  restarts    (* history: restarts so far                                  *)

vars == <<channel, sent, closed, shutdown, queue, control, reason, batch,
          delivered, discarded, evicted, refused, lost, unsynced, restarts>>

environment == <<sent, closed, shutdown, restarts>>
verdicts == <<delivered, discarded>>
arrivals == <<evicted, refused, lost>>
history == <<verdicts, arrivals>>

(* "flush" and "send" are the two halves of `flush_once`, "sleep" is its   *)
(* backoff.                                                                *)
Controls == {"select", "flush", "send", "sleep", "stopped"}
Reasons == {"none", "drained", "shutdown", "revoked", "killed"}

EmptyQueue == [head |-> 0, tail |-> 0, synced |-> 0, saved |-> 0]

(* The batch is local to one attempt. *)
NoBatch == [p \in Priority |-> 0]

Init ==
  /\ channel = <<>> /\ sent = 0 /\ closed = FALSE /\ shutdown = FALSE
  /\ queue = [p \in Priority |-> EmptyQueue]
  /\ control = "select" /\ reason = "none"
  /\ batch = NoBatch
  /\ delivered = {} /\ discarded = {} /\ evicted = {}
  /\ refused = 0 /\ lost = 0 /\ unsynced = FALSE
  /\ restarts = 0

Pending(q, p) == q[p].tail - q[p].head

TotalPending(q) ==
  Pending(q, "bulk") + Pending(q, "standard") + Pending(q, "critical")

(* Records that the logs were given, not counting what a restart took. *)
Stored(q) == q["bulk"].tail + q["standard"].tail + q["critical"].tail

Records(p, from, to) == {p} \X (from..(to - 1))

InBatch == UNION {Records(p, queue[p].head, batch[p]) : p \in Priority}

(* What goes on the wire. *)
Wire == InBatch \ Undecodable

-----------------------------------------------------------------------------
(* Producers and the daemon.                                               *)

(* A producer's `event_tx.send`; it waits while the channel is full. *)
Send(p) ==
  /\ ~closed
  /\ control # "stopped"
  /\ sent < MaxEvents
  /\ Len(channel) < Capacity
  /\ channel' = Append(channel, p)
  /\ sent' = sent + 1
  /\ UNCHANGED <<closed, shutdown, queue, control, reason, batch, history,
                 unsynced, restarts>>

(* The producers have stopped and the last sender is dropped. *)
Close ==
  /\ ~closed
  /\ control # "stopped"
  /\ closed' = TRUE
  /\ UNCHANGED <<channel, sent, shutdown, queue, control, reason, batch,
                 history, unsynced, restarts>>

Shutdown ==
  /\ ~shutdown
  /\ control # "stopped"
  /\ shutdown' = TRUE
  /\ UNCHANGED <<channel, sent, closed, queue, control, reason, batch,
                 history, unsynced, restarts>>

(* The daemon's SHUTDOWN_TIMEOUT runs out after Close, while the uploader  *)
(* waits for the backend: the process ends around it.                      *)
ShutdownTimeout ==
  /\ closed
  /\ control \in {"send", "sleep"}
  /\ control' = "stopped"
  /\ reason' = "killed"
  /\ batch' = NoBatch
  /\ UNCHANGED <<channel, queue, unsynced, environment, history>>

-----------------------------------------------------------------------------
(* The select loop; its arms are asked in this order.                      *)

SeeShutdown ==
  /\ control = "select"
  /\ shutdown
  /\ control' = "flush"
  /\ reason' = "shutdown"
  /\ UNCHANGED <<channel, queue, batch, unsynced, environment, history>>

(* n records of log r give way to an incoming event (whole segments, which *)
(* are synced before they can be dropped).                                 *)
MakeRoom(r, n) ==
  IF n = 0 THEN queue
  ELSE LET gone == queue[r].head + n IN
       [queue EXCEPT ![r].head = gone, ![r].saved = gone,
                     ![r].synced = IF gone > @ THEN gone ELSE @]

(* `enqueue`: the event is stored, or is refused (dropped_total) or fails  *)
(* to persist (upload_discarded); with a full batch pending an upload      *)
(* starts at once.                                                         *)
Receive ==
  /\ control = "select" /\ ~shutdown
  /\ channel # <<>>
  /\ channel' = Tail(channel)
  /\ \E r \in Priority : \E n \in 0..Pending(queue, r) :
       LET room == MakeRoom(r, n) IN
       /\ \/ /\ queue' = [room EXCEPT ![Head(channel)].tail = @ + 1]
             /\ refused' = refused
          \/ /\ queue' = room
             /\ refused' = refused + 1
       /\ evicted' = evicted \cup Records(r, queue[r].head, queue[r].head + n)
  /\ control' = IF TotalPending(queue') >= BatchMax THEN "flush" ELSE "select"
  /\ UNCHANGED <<reason, batch, unsynced, lost, environment, verdicts>>

(* Slip: the closed channel is polled again and again. *)
ChannelClosedLoops ==
  /\ control = "select" /\ ~shutdown
  /\ channel = <<>> /\ closed
  /\ control' = "flush"
  /\ UNCHANGED <<channel, queue, reason, batch, unsynced, environment, history>>

ChannelClosed ==
  /\ control = "select" /\ ~shutdown
  /\ channel = <<>> /\ closed
  /\ control' = "flush"
  /\ reason' = "drained"
  /\ UNCHANGED <<channel, queue, batch, unsynced, environment, history>>

UploadTick ==
  /\ control = "select" /\ ~shutdown
  /\ channel = <<>> /\ ~closed
  /\ control' = "flush"
  /\ UNCHANGED <<channel, queue, reason, batch, unsynced, environment, history>>

(* The logs in the order of their slots. *)
LogOrder == <<"bulk", "standard", "critical">>

(* `flush` syncs one log after the other and ends at the first error: the  *)
(* first k logs are synced.                                                *)
Flushed(q, k) ==
  [p \in Priority |->
     IF \E i \in 1..k : LogOrder[i] = p THEN [q[p] EXCEPT !.synced = q[p].tail]
     ELSE q[p]]

(* An error is only logged. *)
WalTick ==
  /\ control = "select" /\ ~shutdown
  /\ channel = <<>> /\ ~closed
  /\ \E k \in 0..3 : queue' = Flushed(queue, k)
  /\ UNCHANGED <<channel, control, reason, batch, unsynced, environment,
                 history>>

-----------------------------------------------------------------------------
(* One upload attempt.                                                     *)

(* Slip: drained in EVICT_ORDER. *)
PendingAboveReversed(p) ==
  CASE p = "critical" -> Pending(queue, "bulk") + Pending(queue, "standard")
    [] p = "standard" -> Pending(queue, "bulk")
    [] p = "bulk" -> 0

PendingAbove(p) ==
  CASE p = "critical" -> 0
    [] p = "standard" -> Pending(queue, "critical")
    [] p = "bulk" -> Pending(queue, "critical") + Pending(queue, "standard")

(* Slip: a full batch leaves a negative rest. *)
TakenUnchecked(p) ==
  LET left == BatchMax - PendingAbove(p) IN
  IF left < Pending(queue, p) THEN left ELSE Pending(queue, p)

(* How many records of log p the batch takes. *)
Taken(p) ==
  LET left == BatchMax - PendingAbove(p) IN
  IF left <= 0 THEN 0
  ELSE IF left < Pending(queue, p) THEN left ELSE Pending(queue, p)

(* Slip: the end without the flush of the queue. *)
GoOnUnsynced(q) ==
  /\ queue' = q
  /\ control' = IF reason = "none" THEN "select" ELSE "stopped"
  /\ UNCHANGED unsynced

(* `flush_once` returns without a verdict: the loop goes on, or the last   *)
(* attempt is followed by the flush of the queue and the end, also when    *)
(* the flush fails.                                                        *)
GoOn(q) ==
  \/ /\ reason = "none"
     /\ control' = "select"
     /\ queue' = q
     /\ UNCHANGED unsynced
  \/ /\ reason # "none"
     /\ control' = "stopped"
     /\ \E k \in 0..3 : queue' = Flushed(q, k) /\ unsynced' = (k < 3)

(* Slip: the cursor file is written, the cursor in memory forgotten. *)
CommittedOnDisk(q, p) ==
  IF batch[p] > q[p].head THEN [q[p] EXCEPT !.saved = batch[p]] ELSE q[p]

Committed(q, p) ==
  IF batch[p] > q[p].head
    THEN [q[p] EXCEPT !.head = batch[p], !.saved = batch[p]]
    ELSE q[p]

(* `queue.commit`, in DRAIN_ORDER: the whole batch, or, when the cursor    *)
(* file of log p cannot be written, what comes before p and p in memory.   *)
DrainOrder == <<"critical", "standard", "bulk">>

CommitOutcomes(q) ==
  {[p \in Priority |-> Committed(q, p)]} \cup
  {[p \in Priority |->
      IF \E i \in 1..(k - 1) : DrainOrder[i] = p THEN Committed(q, p)
      ELSE IF p = DrainOrder[k] THEN [q[p] EXCEPT !.head = batch[p]]
      ELSE q[p]] :
     k \in {k \in 1..3 : batch[DrainOrder[k]] > q[DrainOrder[k]].head}}

(* Slip: read from the page cache. *)
ReadLogUnsynced(p) == queue[p]

(* A log that is read is flushed first, the others are not. *)
ReadLog(p) ==
  IF Taken(p) > 0 THEN [queue[p] EXCEPT !.synced = queue[p].tail] ELSE queue[p]

(* `read_batch` *)
Read ==
  /\ control = "flush"
  /\ \E p \in Priority : Taken(p) > 0
  /\ batch' = [p \in Priority |-> queue[p].head + Taken(p)]
  /\ queue' = [p \in Priority |-> ReadLog(p)]
  /\ control' = "send"
  /\ UNCHANGED <<channel, reason, unsynced, environment, history>>

(* An error of a log ends `read_batch`; the logs read before it, and       *)
(* perhaps itself, are synced.                                             *)
ReadFails ==
  /\ control = "flush"
  /\ \E p \in Priority : Taken(p) > 0
  /\ \E k \in 0..3 :
       GoOn([p \in Priority |->
               IF \E i \in 1..k : DrainOrder[i] = p THEN ReadLog(p)
               ELSE queue[p]])
  /\ UNCHANGED <<channel, reason, batch, environment, history>>

(* Nothing to read. *)
ReadNothing ==
  /\ control = "flush"
  /\ \A p \in Priority : Taken(p) = 0
  /\ GoOn(queue)
  /\ UNCHANGED <<channel, reason, batch, environment, history>>

(* Slip: an empty wire batch is just left alone. *)
SkipUndecodableStays ==
  /\ control = "send"
  /\ Wire = {}
  /\ GoOn(queue)
  /\ batch' = NoBatch
  /\ UNCHANGED <<channel, reason, environment, history>>

(* Only undecodable records: they are confirmed, so that they do not block *)
(* the queue.                                                              *)
SkipUndecodable ==
  /\ control = "send"
  /\ Wire = {}
  /\ \E q \in CommitOutcomes(queue) : GoOn(q)
  /\ batch' = NoBatch
  /\ UNCHANGED <<channel, reason, environment, history>>

(* 2xx for the whole batch. *)
Accepted ==
  /\ control = "send"
  /\ Wire # {}
  /\ delivered' = delivered \cup Wire
  /\ \E q \in CommitOutcomes(queue) : GoOn(q)
  /\ batch' = NoBatch
  /\ UNCHANGED <<channel, reason, environment, discarded, arrivals>>

(* Slip: a partial answer is taken for a full one. *)
UnconfirmedCommits ==
  /\ control = "send"
  /\ Wire # {}
  /\ \E some \in SUBSET Wire : delivered' = delivered \cup some
  /\ \E q \in CommitOutcomes(queue) : GoOn(q)
  /\ batch' = NoBatch
  /\ UNCHANGED <<channel, reason, environment, discarded, arrivals>>

(* No confirmation: 2xx with errors or for fewer records than were sent,   *)
(* or a network, 5xx, 429 or routing error.  The backend may have taken    *)
(* any part of the batch.  Nothing is committed; backoff.                  *)
Unconfirmed ==
  /\ control = "send"
  /\ Wire # {}
  /\ \E some \in SUBSET Wire : delivered' = delivered \cup some
  /\ control' = "sleep"
  /\ batch' = NoBatch
  /\ UNCHANGED <<channel, queue, reason, unsynced, environment, discarded,
                 arrivals>>

(* 401, 403, 410: the sensor is rejected for good.  The last attempt       *)
(* ignores the verdict, it ends anyway.                                    *)
Revoked ==
  /\ control = "send"
  /\ Wire # {}
  /\ \/ /\ reason = "none"
        /\ control' = "stopped"
        /\ reason' = "revoked"
        /\ queue' = queue
        /\ UNCHANGED unsynced
     \/ /\ reason # "none"
        /\ GoOn(queue)
        /\ reason' = reason
  /\ batch' = NoBatch
  /\ UNCHANGED <<channel, environment, history>>

(* Another 4xx, or the batch cannot be encoded: it is given up. *)
Invalid ==
  /\ control = "send"
  /\ Wire # {}
  /\ discarded' = discarded \cup Wire
  /\ \E q \in CommitOutcomes(queue) : GoOn(q)
  /\ batch' = NoBatch
  /\ UNCHANGED <<channel, reason, environment, delivered, arrivals>>

(* The backoff is over. *)
Wake ==
  /\ control = "sleep"
  /\ GoOn(queue)
  /\ UNCHANGED <<channel, reason, batch, environment, history>>

-----------------------------------------------------------------------------

(* The process stops at any point and is started again: what the channel   *)
(* holds is gone, and any unsynced end of a log may be.                    *)
Restart ==
  /\ restarts < MaxRestarts
  /\ restarts' = restarts + 1
  /\ \E cut \in [Priority -> 0..MaxEvents] :
       /\ \A p \in Priority : cut[p] <= queue[p].tail - queue[p].synced
       /\ queue' = [p \in Priority |->
                      [queue[p] EXCEPT !.head = queue[p].saved,
                                       !.tail = @ - cut[p]]]
       /\ lost' = lost + Len(channel)
                     + cut["bulk"] + cut["standard"] + cut["critical"]
  /\ channel' = <<>> /\ closed' = FALSE /\ shutdown' = FALSE
  /\ control' = "select" /\ reason' = "none" /\ unsynced' = FALSE
  /\ batch' = NoBatch
  /\ UNCHANGED <<sent, verdicts, evicted, refused>>

Attempt ==
  \/ Read \/ ReadFails \/ ReadNothing \/ SkipUndecodable
  \/ Accepted \/ Unconfirmed \/ Revoked \/ Invalid
  \/ Wake

Next ==
  \/ \E p \in Senders : Send(p)
  \/ Close \/ Shutdown \/ ShutdownTimeout
  \/ SeeShutdown \/ Receive \/ ChannelClosed \/ UploadTick \/ WalTick
  \/ Attempt
  \/ Restart

Spec == Init /\ [][Next]_vars

(* The runtime polls the task (its select arms are ready or time out), a   *)
(* request ends at the latest by its timeout, a backoff lasts at most a    *)
(* minute; at any time at most one of these steps is the next.  Of the     *)
(* disk and the backend: if the queue is read again and again, the read    *)
(* succeeds again and again, and if the backend is asked again and again,  *)
(* it takes a whole batch again and again.                                 *)
Proceed ==
  SeeShutdown \/ Receive \/ ChannelClosed \/ UploadTick \/ Attempt

Fairness == WF_vars(Proceed) /\ SF_vars(Read) /\ SF_vars(Accepted)

FairSpec == Spec /\ Fairness

-----------------------------------------------------------------------------

(* Channel and queue keep their bounds; no log is asked for a negative     *)
(* rest of the batch (read_batch: remaining).                              *)
TypeOK ==
  /\ channel \in Seq(Priority) /\ Len(channel) <= Capacity
  /\ sent \in 0..MaxEvents
  /\ closed \in BOOLEAN /\ shutdown \in BOOLEAN
  /\ queue \in [Priority -> [head : Nat, tail : Nat, synced : Nat, saved : Nat]]
  /\ control \in Controls /\ reason \in Reasons
  /\ batch \in [Priority -> Nat]
  /\ delivered \subseteq Priority \X Nat
  /\ discarded \subseteq Priority \X Nat
  /\ evicted \subseteq Priority \X Nat
  /\ refused \in Nat /\ lost \in Nat /\ unsynced \in BOOLEAN
  /\ restarts \in 0..MaxRestarts

(* What the uploader does to each log keeps the order the log promises,    *)
(* also across failed commits, evictions and restarts.                     *)
QueuesOrdered ==
  \A p \in Priority :
    /\ queue[p].saved <= queue[p].head
    /\ queue[p].head <= queue[p].synced
    /\ queue[p].synced <= queue[p].tail

(* A record is on the disk before it is on the wire (log.rs:182-184): a    *)
(* crash during the upload cannot take back what the backend was sent.     *)
PersistBeforeSend ==
  control = "send" =>
    \A p \in Priority : queue[p].head <= batch[p] /\ batch[p] <= queue[p].synced

(* Every event that was sent waits in the channel, has a record in its     *)
(* log, was refused on its arrival and counted, or was taken by a restart  *)
(* from the channel or from the unsynced end of a log.                     *)
Balanced == sent = Len(channel) + Stored(queue) + refused + lost

(* At least once: no event disappears but by a restart before it was       *)
(* synced, and a record leaves the queue, in memory or on disk, only when  *)
(* the backend has taken it, has refused it for good, or retention gave it *)
(* up; partial answers, lost answers, failed reads and commits and         *)
(* restarts included (uploader.rs:327-333).  A record that does not        *)
(* deserialise is passed over and counts as accounted for here, although   *)
(* the code has it in no count (uploader.rs:290).                          *)
Accounted(p, i) ==
  <<p, i>> \in delivered \cup discarded \cup evicted \cup Undecodable

NothingLostSilently ==
  /\ Balanced
  /\ \A p \in Priority : \A i \in 0..(queue[p].head - 1) : Accounted(p, i)

(* When the channel closed, every event that had been put into it was      *)
(* handed to the queue before the task ended, and an orderly end leaves    *)
(* every log synced (uploader.rs:215-223, 237-242), unless the flush at    *)
(* the end failed: its error is dropped (uploader.rs:222, 241), and the    *)
(* logs from the one it failed at may have an unsynced end.                *)
StopPersists ==
  control = "stopped" =>
    /\ reason = "drained" => channel = <<>>
    /\ reason \in {"drained", "shutdown"} /\ ~unsynced =>
         \A p \in Priority : queue[p].synced = queue[p].tail

(* Important events do not wait for others: a batch holds no record of a   *)
(* log while a more important one keeps some back.                         *)
ImportantFirst ==
  control = "send" =>
    \A i, j \in 1..3 :
      i < j /\ batch[DrainOrder[j]] > queue[DrainOrder[j]].head
        => batch[DrainOrder[i]] = queue[DrainOrder[i]].tail

(* A backlog is worked off: partial answers, failed commits and restarts   *)
(* cannot keep the queue from running empty (each record taken or given    *)
(* up, by NothingLostSilently), unless the task ends.  Arrivals are finite *)
(* here, so nothing of higher priority keeps coming.                       *)
BacklogDrains ==
  TotalPending(queue) > 0 ~> (TotalPending(queue) = 0 \/ control = "stopped")

(* Once the channel is closed the task ends, whatever the backend answers. *)
ClosingEnds == closed ~> (control = "stopped" \/ ~closed)

(* CHANGELOG.md:77-81: the WAL ticker is independent of the upload cycle,  *)
(* so what was stored before an upload attempt does not sit unsynced       *)
(* through the backoff (up to a minute) that follows it.                   *)
DurabilityIndependentOfUpload ==
  control = "sleep" =>
    \A p \in Priority : queue[p].synced = queue[p].tail

=============================================================================
