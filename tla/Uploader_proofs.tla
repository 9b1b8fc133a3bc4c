-------------------------- MODULE Uploader_proofs ---------------------------
(***************************************************************************)
(* Proofs about the uploader (module Uploader): for every capacity of the  *)
(* channel, every size of a batch, any set of undecodable records and any  *)
(* number of events and restarts, the logs keep their order, a record is   *)
(* on the disk before it is on the wire, no event is unaccounted for, and  *)
(* the end of the task persists what it was handed unless its flush fails. *)
(*                                                                         *)
(* The safety invariants are parts of one inductive invariant, IInv.  It   *)
(* needs two facts more: how the batch in flight was cut (BatchCut), which *)
(* holds as long as the loop is suspended in the request, and that a task  *)
(* ending because the channel closed can get no event any more (Ending).   *)
(* NothingLostSilently is kept in its two halves: Balanced and Passed.     *)
(***************************************************************************)
EXTENDS Uploader, TLAPS

Log == [head : Nat, tail : Nat, synced : Nat, saved : Nat]

Ordered(q) ==
  \A p \in Priority :
    q[p].saved <= q[p].head /\ q[p].head <= q[p].synced
                            /\ q[p].synced <= q[p].tail

Synced(q) == \A p \in Priority : q[p].synced = q[p].tail

SameTails(q, r) == \A p \in Priority : q[p].tail = r[p].tail

SameHeads(q, r) == \A p \in Priority : q[p].head = r[p].head

(* The batch on the wire is what read_batch cut from the queue, and each   *)
(* log it was cut from was synced.                                         *)
BatchCut ==
  control = "send" =>
    \A p \in Priority :
      /\ batch[p] = queue[p].head + Taken(p)
      /\ Taken(p) > 0 => queue[p].synced = queue[p].tail

Ending ==
  /\ reason = "drained" => closed /\ channel = <<>>
  /\ control = "stopped" /\ reason \in {"drained", "shutdown"} /\ ~unsynced
       => Synced(queue)

(* What is behind the head of a log is accounted for. *)
Passed ==
  \A p \in Priority : \A i \in 0..(queue[p].head - 1) : Accounted(p, i)

IInv ==
  TypeOK /\ QueuesOrdered /\ Balanced /\ Passed /\ BatchCut /\ Ending

-----------------------------------------------------------------------------
(* How much a batch takes from a log, and what follows for the batch.      *)

(* The rest of the batch is at most what is pending.                       *)
LEMMA TakenBound ==
  ASSUME TypeOK, QueuesOrdered, NEW p \in Priority
  PROVE  /\ Taken(p) \in Nat
         /\ Taken(p) <= Pending(queue, p)
         /\ Pending(queue, p) \in Nat
         /\ PendingAbove(p) \in Nat
  <1>1. \A r \in Priority :
          /\ queue[r].head \in Nat /\ queue[r].tail \in Nat
          /\ queue[r].head <= queue[r].tail
    BY DEF TypeOK, QueuesOrdered
  <1>2. \A r \in Priority : Pending(queue, r) \in Nat
    BY <1>1 DEF Pending
  <1>3. PendingAbove(p) \in Nat
    BY <1>2 DEF PendingAbove, Priority
  <1>4. BatchMax \in Nat
    BY BatchMaxAssumption
  <1>5. QED
    BY <1>2, <1>3, <1>4 DEF Taken

(* PersistBeforeSend follows from the way the batch was cut.               *)
LEMMA CutPersisted ==
  ASSUME TypeOK, QueuesOrdered, BatchCut
  PROVE  PersistBeforeSend
  <1>1. \A p \in Priority :
          /\ queue[p].head \in Nat /\ queue[p].tail \in Nat
          /\ queue[p].synced \in Nat
          /\ queue[p].head <= queue[p].synced
    BY DEF TypeOK, QueuesOrdered
  <1>2. \A p \in Priority :
          Taken(p) \in Nat /\ Taken(p) <= Pending(queue, p)
    BY TakenBound
  <1>3. QED
    BY <1>1, <1>2 DEF BatchCut, PersistBeforeSend, Pending

(* What a log of less importance gives to a batch, all the more important  *)
(* ones have given before.                                                 *)
LEMMA CutImportantFirst ==
  ASSUME TypeOK, QueuesOrdered, BatchCut
  PROVE  ImportantFirst
  <1> SUFFICES ASSUME control = "send", NEW i \in 1..3, NEW j \in 1..3, i < j,
                      batch[DrainOrder[j]] > queue[DrainOrder[j]].head
               PROVE  batch[DrainOrder[i]] = queue[DrainOrder[i]].tail
    BY DEF ImportantFirst
  <1> DEFINE a == DrainOrder[i]
             b == DrainOrder[j]
  <1>1. /\ a \in Priority /\ b \in Priority
        /\ \/ a = "critical" /\ b = "standard"
           \/ a = "critical" /\ b = "bulk"
           \/ a = "standard" /\ b = "bulk"
    BY DEF DrainOrder, Priority
  <1>2. \A r \in Priority : queue[r].head \in Nat /\ queue[r].tail \in Nat
    BY DEF TypeOK
  <1>3. \A r \in Priority :
          /\ Taken(r) \in Nat /\ Pending(queue, r) \in Nat
          /\ PendingAbove(r) \in Nat
    BY TakenBound
  <1>4. Taken(b) > 0
    BY <1>1, <1>2, <1>3 DEF BatchCut
  <1>5. PendingAbove(b) < BatchMax
    BY <1>1, <1>3, <1>4, BatchMaxAssumption DEF Taken
  <1>6. PendingAbove(a) + Pending(queue, a) <= PendingAbove(b)
    <2>1. /\ Pending(queue, "critical") \in Nat
          /\ Pending(queue, "standard") \in Nat
      BY <1>3 DEF Priority
    <2>2. QED
      BY <1>1, <2>1 DEF PendingAbove
  <1>7. Taken(a) = Pending(queue, a)
    BY <1>1, <1>3, <1>5, <1>6, BatchMaxAssumption DEF Taken
  <1>8. QED
    BY <1>1, <1>2, <1>7 DEF BatchCut, Pending

(* StopPersists is the second half of Ending.                              *)
LEMMA EndingPersists ==
  ASSUME Ending
  PROVE  StopPersists
  BY DEF Ending, StopPersists, Synced

-----------------------------------------------------------------------------
(* What the operations do to a queue.                                      *)

(* What is stored is a number, and the tails alone decide it.              *)
LEMMA StoredTyped ==
  ASSUME NEW q \in [Priority -> Log]
  PROVE  Stored(q) \in Nat
  <1>1. \A p \in Priority : q[p].tail \in Nat
    BY DEF Log
  <1>2. QED
    BY <1>1 DEF Stored, Priority

LEMMA StoredByTails ==
  ASSUME NEW q, NEW r, SameTails(q, r)
  PROVE  Stored(q) = Stored(r)
  BY DEF SameTails, Stored, Priority

(* `flush` syncs the first k logs, all three if k is 3, and moves nothing  *)
(* else.                                                                   *)
LEMMA FlushedFacts ==
  ASSUME NEW q \in [Priority -> Log], Ordered(q), NEW k \in 0..3
  PROVE  /\ Flushed(q, k) \in [Priority -> Log]
         /\ Ordered(Flushed(q, k))
         /\ SameHeads(Flushed(q, k), q) /\ SameTails(Flushed(q, k), q)
         /\ k = 3 => Synced(Flushed(q, k))
  <1> DEFINE r == Flushed(q, k)
  <1>1. \A p \in Priority :
          /\ q[p] \in Log
          /\ q[p].saved <= q[p].head /\ q[p].head <= q[p].synced
          /\ q[p].synced <= q[p].tail
    BY DEF Ordered
  <1>2. /\ r = [p \in Priority |-> r[p]]
        /\ \A p \in Priority :
             \/ r[p] = [q[p] EXCEPT !.synced = q[p].tail]
             \/ r[p] = q[p]
    BY DEF Flushed
  <1>3. \A p \in Priority :
          /\ r[p] \in Log
          /\ r[p].saved = q[p].saved /\ r[p].head = q[p].head
          /\ r[p].tail = q[p].tail
          /\ r[p].synced = q[p].tail \/ r[p].synced = q[p].synced
    <2> SUFFICES ASSUME NEW p \in Priority
                 PROVE  <1>3!(p)
      OBVIOUS
    <2>1. CASE r[p] = q[p]
      BY <1>1, <2>1
    <2>2. CASE r[p] = [q[p] EXCEPT !.synced = q[p].tail]
      <3>1. q[p] \in Log
        BY <1>1
      <3>2. QED
        BY <2>2, <3>1 DEF Log
    <2>3. QED
      BY <1>2, <2>1, <2>2
  <1>4. r \in [Priority -> Log]
    BY <1>2, <1>3
  <1>5. ASSUME k = 3 PROVE Synced(r)
    <2> SUFFICES ASSUME NEW p \in Priority
                 PROVE  r[p].synced = r[p].tail
      BY DEF Synced
    <2>1. \E i \in 1..k : LogOrder[i] = p
      BY <1>5 DEF LogOrder, Priority
    <2>2. r[p] = [q[p] EXCEPT !.synced = q[p].tail]
      BY <2>1 DEF Flushed
    <2>3. q[p] \in Log
      BY <1>1
    <2>4. QED
      BY <2>2, <2>3 DEF Log
  <1>6. Ordered(r)
    BY <1>1, <1>3 DEF Ordered, Log
  <1>7. QED
    BY <1>3, <1>4, <1>5, <1>6 DEF SameHeads, SameTails

(* How a step of `flush_once` without a verdict leaves the loop.           *)
LEMMA GoOnFacts ==
  ASSUME NEW q \in [Priority -> Log], Ordered(q), GoOn(q),
         unsynced \in BOOLEAN
  PROVE  /\ queue' \in [Priority -> Log]
         /\ Ordered(queue') /\ SameHeads(queue', q) /\ SameTails(queue', q)
         /\ control' \in {"select", "stopped"}
         /\ unsynced' \in BOOLEAN
         /\ control' = "stopped" /\ ~unsynced' => Synced(queue')
  <1>1. CASE reason = "none"
    BY <1>1 DEF GoOn, SameHeads, SameTails
  <1>2. CASE reason # "none"
    <2>1. PICK k \in 0..3 : queue' = Flushed(q, k) /\ unsynced' = (k < 3)
      BY <1>2 DEF GoOn
    <2>2. control' = "stopped"
      BY <1>2 DEF GoOn
    <2>3. k # 3 => k < 3
      OBVIOUS
    <2>4. ~unsynced' => k = 3
      BY <2>1, <2>3, Zenon
    <2>5. unsynced' \in BOOLEAN
      <3>1. (k < 3) \in BOOLEAN
        OBVIOUS
      <3>2. QED
        BY <2>1, <3>1, Zenon
    <2>6. QED
      BY <2>1, <2>2, <2>4, <2>5, FlushedFacts
  <1>3. QED
    BY <1>1, <1>2

(* The balance moves with the channel, what is stored and the two losses.  *)
LEMMA BalanceKept ==
  ASSUME Balanced, SameTails(queue', queue),
         UNCHANGED <<channel, sent, refused, lost>>
  PROVE  Balanced'
  <1>1. Stored(queue') = Stored(queue)
    BY StoredByTails
  <1>2. QED
    BY <1>1 DEF Balanced

(* `commit` moves a log to the end of the batch or leaves it, also when    *)
(* a cursor file cannot be written.                                        *)
LEMMA CommitFacts ==
  ASSUME TypeOK, QueuesOrdered, BatchCut, control = "send",
         NEW q \in CommitOutcomes(queue)
  PROVE  /\ q \in [Priority -> Log]
         /\ Ordered(q) /\ SameTails(q, queue)
         /\ \A p \in Priority :
              q[p].head = queue[p].head \/ q[p].head = batch[p]
  <1>1. \A p \in Priority :
          /\ queue[p] \in Log /\ batch[p] \in Nat
          /\ queue[p].saved <= queue[p].head
          /\ queue[p].head <= batch[p] /\ batch[p] <= queue[p].synced
          /\ queue[p].synced <= queue[p].tail
    BY CutPersisted DEF TypeOK, QueuesOrdered, PersistBeforeSend, Log
  <1>2. /\ q = [p \in Priority |-> q[p]]
        /\ \A p \in Priority :
             \/ q[p] = Committed(queue, p)
             \/ q[p] = queue[p]
             \/ /\ batch[p] > queue[p].head
                /\ q[p] = [queue[p] EXCEPT !.head = batch[p]]
    <2>1. CASE q = [p \in Priority |-> Committed(queue, p)]
      BY <2>1
    <2>2. ASSUME NEW k \in 1..3,
                 batch[DrainOrder[k]] > queue[DrainOrder[k]].head,
                 q = [p \in Priority |->
                       IF \E i \in 1..(k - 1) : DrainOrder[i] = p
                         THEN Committed(queue, p)
                       ELSE IF p = DrainOrder[k]
                         THEN [queue[p] EXCEPT !.head = batch[p]]
                       ELSE queue[p]]
          PROVE  <1>2!1 /\ <1>2!2
      BY <2>2
    <2>3. QED
      BY <2>1, <2>2 DEF CommitOutcomes
  <1>3. \A p \in Priority :
          /\ q[p] \in Log
          /\ q[p].saved = queue[p].saved \/ q[p].saved = q[p].head
          /\ q[p].head = queue[p].head \/ q[p].head = batch[p]
          /\ q[p].synced = queue[p].synced /\ q[p].tail = queue[p].tail
    <2> SUFFICES ASSUME NEW p \in Priority
                 PROVE  <1>3!(p)
      OBVIOUS
    <2>1. queue[p] \in Log /\ batch[p] \in Nat
      BY <1>1
    <2>2. CASE q[p] = queue[p]
      BY <2>1, <2>2
    <2>3. CASE q[p] = [queue[p] EXCEPT !.head = batch[p]]
      BY <2>1, <2>3 DEF Log
    <2>4. CASE q[p] = [queue[p] EXCEPT !.head = batch[p], !.saved = batch[p]]
      BY <2>1, <2>4 DEF Log
    <2>5. QED
      BY <1>2, <2>2, <2>3, <2>4 DEF Committed
  <1>4. q \in [Priority -> Log]
    BY <1>2, <1>3
  <1>5. QED
    BY <1>1, <1>3, <1>4 DEF Ordered, SameTails, Log

-----------------------------------------------------------------------------
(* Induction.                                                              *)

(* Everything but the queue and the control of the loop stays: what an     *)
(* attempt that gave the queue q leaves behind is in order.                *)
LEMMA AttemptEnds ==
  ASSUME IInv, NEW q \in [Priority -> Log], Ordered(q), GoOn(q),
         SameTails(q, queue),
         UNCHANGED <<channel, reason, environment, arrivals>>,
         batch' \in [Priority -> Nat],
         delivered' \subseteq Priority \X Nat,
         discarded' \subseteq Priority \X Nat,
         \A p \in Priority : \A i \in 0..(q[p].head - 1) : Accounted(p, i)'
  PROVE  IInv'
  <1>1. /\ queue' \in [Priority -> Log]
        /\ Ordered(queue') /\ SameHeads(queue', q) /\ SameTails(queue', q)
        /\ control' \in {"select", "stopped"}
        /\ unsynced' \in BOOLEAN
        /\ control' = "stopped" /\ ~unsynced' => Synced(queue')
    BY GoOnFacts DEF IInv, TypeOK
  <1>2. TypeOK'
    BY <1>1 DEF IInv, TypeOK, environment, arrivals, Controls, Log
  <1>3. QueuesOrdered'
    BY <1>1 DEF Ordered, QueuesOrdered
  <1>4. Balanced'
    <2>1. SameTails(queue', queue)
      BY <1>1 DEF SameTails
    <2>2. QED
      BY <2>1, BalanceKept DEF IInv, environment, arrivals
  <1>5. Passed'
    BY <1>1 DEF Passed, SameHeads
  <1>6. BatchCut'
    BY <1>1 DEF BatchCut
  <1>7. Ending'
    BY <1>1 DEF IInv, Ending, environment
  <1>8. QED
    BY <1>2, <1>3, <1>4, <1>5, <1>6, <1>7 DEF IInv

(* What is accounted for stays so: the history only grows.                 *)
LEMMA AccountedGrows ==
  ASSUME delivered \subseteq delivered', discarded \subseteq discarded',
         evicted \subseteq evicted', NEW p, NEW i, Accounted(p, i)
  PROVE  Accounted(p, i)'
  BY DEF Accounted

(* A commit leaves only records behind that were accounted for before or   *)
(* that the verdict on the batch accounts for.                             *)
LEMMA CommitAccounted ==
  ASSUME IInv, control = "send", NEW q \in CommitOutcomes(queue),
         delivered \subseteq delivered', discarded \subseteq discarded',
         evicted \subseteq evicted',
         Wire \subseteq delivered' \cup discarded'
  PROVE  \A p \in Priority : \A i \in 0..(q[p].head - 1) : Accounted(p, i)'
  <1> SUFFICES ASSUME NEW p \in Priority, NEW i \in 0..(q[p].head - 1)
               PROVE  Accounted(p, i)'
    OBVIOUS
  <1>1. /\ queue[p].head \in Nat /\ batch[p] \in Nat
        /\ q[p].head = queue[p].head \/ q[p].head = batch[p]
    BY CommitFacts DEF IInv, TypeOK
  <1>2. CASE i < queue[p].head
    BY <1>1, <1>2, AccountedGrows DEF IInv, Passed
  <1>3. CASE i >= queue[p].head
    <2>1. i \in queue[p].head .. (batch[p] - 1)
      BY <1>1, <1>3
    <2>2. <<p, i>> \in InBatch
      BY <2>1 DEF InBatch, Records
    <2>3. QED
      BY <2>2 DEF Wire, Accounted
  <1>4. QED
    BY <1>1, <1>2, <1>3

LEMMA WireTyped ==
  ASSUME TypeOK
  PROVE  Wire \subseteq Priority \X Nat
  <1> SUFFICES ASSUME NEW w \in InBatch
               PROVE  w \in Priority \X Nat
    BY DEF Wire
  <1>1. PICK p \in Priority : w \in {p} \X (queue[p].head..(batch[p] - 1))
    BY DEF InBatch, Records
  <1>2. queue[p].head \in Nat /\ batch[p] \in Nat
    BY DEF TypeOK
  <1>3. QED
    BY <1>1, <1>2

(* The producers, the daemon and the select loop up to the attempt.        *)
LEMMA ArrivalsKeep ==
  ASSUME IInv, (\E p \in Senders : Send(p)) \/ Close \/ Shutdown
  PROVE  IInv'
  <1>1. /\ queue' = queue /\ control' = control /\ reason' = reason
        /\ batch' = batch
        /\ unsynced' = unsynced /\ UNCHANGED history
    BY DEF Send, Close, Shutdown
  <1>2. TypeOK'
    <2>1. CASE \E p \in Senders : Send(p)
      <3>1. PICK p \in Priority : Send(p)
        BY <2>1, SendersAssumption
      <3>2. /\ channel' \in Seq(Priority) /\ Len(channel') <= Capacity
            /\ sent' \in 0..MaxEvents
        BY <3>1, CapacityAssumption, MaxEventsAssumption
        DEF Send, IInv, TypeOK
      <3>3. QED
        BY <1>1, <3>1, <3>2 DEF Send, IInv, TypeOK, history, verdicts, arrivals
    <2>2. CASE Close \/ Shutdown
      BY <1>1, <2>2 
      DEF Close, Shutdown, IInv, TypeOK, history, verdicts, arrivals
    <2>3. QED
      BY <2>1, <2>2
  <1>3. QueuesOrdered'
    BY <1>1 DEF IInv, QueuesOrdered
  <1>4. Balanced'
    <2>1. CASE \E p \in Senders : Send(p)
      <3>1. PICK p \in Priority : Send(p)
        BY <2>1, SendersAssumption
      <3>2. /\ channel' = Append(channel, p) /\ sent' = sent + 1
            /\ channel \in Seq(Priority)
        BY <3>1 DEF Send, IInv, TypeOK
      <3>3. Len(channel') = Len(channel) + 1
        BY <3>2
      <3>4. /\ sent = Len(channel) + Stored(queue) + refused + lost
            /\ refused' = refused /\ lost' = lost
            /\ Len(channel) \in Nat /\ refused \in Nat /\ lost \in Nat
        BY <1>1, <3>2 DEF IInv, TypeOK, Balanced, history, arrivals
      <3>5. Stored(queue) \in Nat
        BY StoredTyped DEF IInv, TypeOK, Log
      <3>6. QED
        BY <1>1, <3>2, <3>3, <3>4, <3>5 DEF Balanced
    <2>2. CASE Close \/ Shutdown
      <3>1. UNCHANGED <<channel, sent, refused, lost>>
        BY <2>2 DEF Close, Shutdown, history, arrivals
      <3>2. QED
        BY <1>1, <3>1 DEF IInv, Balanced
    <2>3. QED
      BY <2>1, <2>2
  <1>5. Passed'
    BY <1>1 DEF IInv, Passed, Accounted, history, verdicts, arrivals
  <1>6. BatchCut'
    BY <1>1 DEF IInv, BatchCut, Taken, PendingAbove, Pending
  <1>7. Ending'
    BY <1>1 DEF IInv, Ending, Synced, Send, Close, Shutdown
  <1>8. QED
    BY <1>2, <1>3, <1>4, <1>5, <1>6, <1>7 DEF IInv

(* The arms of the select that only start an attempt, and the end of the   *)
(* daemon's patience.                                                      *)
LEMMA TurnsKeep ==
  ASSUME IInv, SeeShutdown \/ ChannelClosed \/ UploadTick \/ ShutdownTimeout
  PROVE  IInv'
  <1>1. /\ queue' = queue /\ channel' = channel /\ UNCHANGED environment
        /\ control' \in {"flush", "stopped"}
        /\ control' = "stopped" => reason' = "killed"
        /\ UNCHANGED <<unsynced, history>>
    BY DEF SeeShutdown, ChannelClosed, UploadTick, ShutdownTimeout
  <1>2. \/ reason' = reason
        \/ reason' = "shutdown"
        \/ reason' = "killed"
        \/ reason' = "drained" /\ closed /\ channel = <<>>
    BY DEF SeeShutdown, ChannelClosed, UploadTick, ShutdownTimeout
  <1>3. reason \in Reasons /\ batch \in [Priority -> Nat]
    BY DEF IInv, TypeOK
  <1>4. batch' = batch \/ batch' = NoBatch
    BY DEF SeeShutdown, ChannelClosed, UploadTick, ShutdownTimeout
  <1>5. reason' \in Reasons /\ batch' \in [Priority -> Nat]
    BY <1>2, <1>3, <1>4 DEF Reasons, NoBatch
  <1>6. \/ reason' # "drained"
        \/ reason = "drained"
        \/ closed /\ channel = <<>>
    BY <1>2
  <1>7. /\ queue' = queue /\ channel' = channel /\ UNCHANGED environment
        /\ control' \in {"flush", "stopped"}
        /\ control' = "stopped" => reason' = "killed"
        /\ \/ reason' # "drained"
           \/ reason = "drained"
           \/ closed /\ channel = <<>>
        /\ reason' \in Reasons /\ batch' \in [Priority -> Nat]
        /\ UNCHANGED <<unsynced, history>>
    BY <1>1, <1>5, <1>6
  <1>8. TypeOK'
    BY <1>7
    DEF IInv, TypeOK, Controls, history, verdicts, arrivals, environment
  <1>9. QueuesOrdered'
    BY <1>7 DEF IInv, QueuesOrdered
  <1>10. Balanced'
    BY <1>7 DEF IInv, Balanced, environment, history, arrivals
  <1>11. Passed'
    BY <1>7 DEF IInv, Passed, Accounted, history, verdicts, arrivals
  <1>12. BatchCut'
    BY <1>7 DEF BatchCut
  <1>13. Ending'
    BY <1>7 DEF IInv, Ending, environment
  <1>14. QED
    BY <1>8, <1>9, <1>10, <1>11, <1>12, <1>13 DEF IInv

(* Eviction keeps the order of the log: what is dropped was synced first.  *)
LEMMA MakeRoomFacts ==
  ASSUME TypeOK, QueuesOrdered,
         NEW r \in Priority, NEW n \in 0..Pending(queue, r)
  PROVE  /\ MakeRoom(r, n) \in [Priority -> Log]
         /\ SameTails(MakeRoom(r, n), queue)
         /\ Ordered(MakeRoom(r, n))
         /\ MakeRoom(r, n)[r].head = queue[r].head + n
         /\ \A p \in Priority \ {r} : MakeRoom(r, n)[p].head = queue[p].head
  <1> DEFINE room == MakeRoom(r, n)
             gone == queue[r].head + n
  <1>1. /\ queue \in [Priority -> Log]
        /\ \A p \in Priority :
             /\ queue[p] \in Log
             /\ queue[p].saved <= queue[p].head
             /\ queue[p].head <= queue[p].synced
             /\ queue[p].synced <= queue[p].tail
    BY DEF TypeOK, QueuesOrdered, Log
  <1>2. n \in Nat /\ gone \in Nat /\ gone <= queue[r].tail
    BY <1>1 DEF Pending, Log
  <1>3. CASE n = 0
    <2>1. room = queue
      BY <1>3 DEF MakeRoom
    <2>2. queue[r].head \in Nat
      BY <1>1 DEF Log
    <2>3. QED
      BY <1>1, <1>3, <2>1, <2>2 DEF Ordered, SameTails
  <1>4. CASE n # 0
    <2>1. /\ room = [p \in Priority |-> room[p]]
          /\ \A p \in Priority \ {r} : room[p] = queue[p]
          /\ room[r] = [queue[r] EXCEPT
                          !.head = gone, !.saved = gone,
                          !.synced = IF gone > queue[r].synced THEN gone
                                     ELSE queue[r].synced]
      BY <1>1, <1>4 DEF MakeRoom
    <2>2. /\ room[r] \in Log
          /\ room[r].head = gone /\ room[r].saved = gone
          /\ room[r].synced = IF gone > queue[r].synced THEN gone
                              ELSE queue[r].synced
          /\ room[r].tail = queue[r].tail
      BY <1>1, <1>2, <2>1 DEF Log
    <2>3. room \in [Priority -> Log]
      BY <1>1, <2>1, <2>2
    <2>4. room[r].saved <= room[r].head /\ room[r].head <= room[r].synced
                                       /\ room[r].synced <= room[r].tail
      BY <1>1, <1>2, <2>2 DEF Log
    <2>5. QED
      BY <1>1, <2>1, <2>2, <2>3, <2>4 DEF Ordered, SameTails
  <1>5. QED
    BY <1>3, <1>4

(* Storing an event lengthens one log.                                     *)
LEMMA StoreFacts ==
  ASSUME NEW q \in [Priority -> Log], Ordered(q), NEW h \in Priority,
         NEW r, r = [q EXCEPT ![h].tail = @ + 1]
  PROVE  /\ r \in [Priority -> Log] /\ Ordered(r) /\ SameHeads(r, q)
         /\ Stored(r) = Stored(q) + 1
  <1>1. /\ r = [p \in Priority |-> r[p]]
        /\ r[h] = [q[h] EXCEPT !.tail = q[h].tail + 1]
        /\ \A p \in Priority \ {h} : r[p] = q[p]
    OBVIOUS
  <1>2. q[h] \in Log /\ q[h].tail \in Nat /\ q[h].synced \in Nat
    BY DEF Log
  <1>3. /\ r[h] \in Log /\ r[h].tail = q[h].tail + 1
        /\ r[h].head = q[h].head /\ r[h].saved = q[h].saved
        /\ r[h].synced = q[h].synced
    BY <1>1, <1>2 DEF Log
  <1>4. \A p \in Priority \ {h} : r[p] = q[p]
    BY <1>1
  <1>5. r = [p \in Priority |-> r[p]]
    BY <1>1
  <1>6. r \in [Priority -> Log]
    BY <1>3, <1>4, <1>5
  <1>7. Stored(r) = Stored(q) + 1
    <2>1. \A p \in Priority : q[p].tail \in Nat
      BY DEF Log
    <2>2. \A p \in Priority \ {h} : r[p].tail = q[p].tail
      BY <1>4
    <2>3. QED
      BY <1>3, <2>1, <2>2 DEF Stored, Priority
  <1>8. QED
    BY <1>2, <1>3, <1>4, <1>6, <1>7 DEF Ordered, SameHeads

(* An event that is received may push others out; those are recorded as    *)
(* evicted.                                                                *)
LEMMA ReceiveKeeps ==
  ASSUME IInv, Receive
  PROVE  IInv'
  <1>1. /\ control = "select" /\ channel # <<>> /\ channel' = Tail(channel)
        /\ control' \in {"flush", "select"}
        /\ UNCHANGED <<reason, batch, unsynced, lost, delivered, discarded>>
        /\ UNCHANGED environment
    BY DEF Receive, verdicts
  <1>2. PICK r \in Priority : \E n \in 0..Pending(queue, r) :
          /\ \/ /\ queue' = [MakeRoom(r, n) EXCEPT
                                ![Head(channel)].tail = @ + 1]
                /\ refused' = refused
             \/ queue' = MakeRoom(r, n) /\ refused' = refused + 1
          /\ evicted' =
               evicted \cup Records(r, queue[r].head, queue[r].head + n)
    BY DEF Receive
  <1>3. PICK n \in 0..Pending(queue, r) :
          /\ \/ /\ queue' = [MakeRoom(r, n) EXCEPT
                                ![Head(channel)].tail = @ + 1]
                /\ refused' = refused
             \/ queue' = MakeRoom(r, n) /\ refused' = refused + 1
          /\ evicted' =
               evicted \cup Records(r, queue[r].head, queue[r].head + n)
    BY <1>2
  <1> DEFINE room == MakeRoom(r, n)
             gone == Records(r, queue[r].head, queue[r].head + n)
  <1>4. evicted' = evicted \cup gone
    BY <1>3
  <1>5. /\ room \in [Priority -> Log] /\ Ordered(room)
        /\ room[r].head = queue[r].head + n
        /\ \A p \in Priority \ {r} : room[p].head = queue[p].head
        /\ SameTails(room, queue)
    BY MakeRoomFacts DEF IInv
  <1>6. channel \in Seq(Priority) /\ Head(channel) \in Priority
    BY <1>1 DEF IInv, TypeOK
  <1> HIDE DEF room
  <1>7. /\ queue' \in [Priority -> Log] /\ Ordered(queue')
        /\ SameHeads(queue', room)
        /\ \/ Stored(queue') = Stored(room) + 1 /\ refused' = refused
           \/ Stored(queue') = Stored(room) /\ refused' = refused + 1
    <2>1. CASE queue' = room /\ refused' = refused + 1
      BY <1>5, <2>1 DEF SameHeads
    <2>2. CASE /\ queue' = [room EXCEPT ![Head(channel)].tail = @ + 1]
               /\ refused' = refused
      BY <1>5, <1>6, <2>2, StoreFacts
    <2>3. QED
      BY <1>3, <2>1, <2>2 DEF room
  <1>8. queue[r].head \in Nat /\ n \in Nat
    BY DEF IInv, TypeOK, Pending
  <1>9. TypeOK'
    <2>1. channel' \in Seq(Priority) /\ Len(channel') <= Capacity
      BY <1>1, <1>6, CapacityAssumption DEF IInv, TypeOK
    <2>2. evicted' \subseteq Priority \X Nat
      <3>1. Records(r, queue[r].head, queue[r].head + n)
              \subseteq Priority \X Nat
        BY <1>8 DEF Records
      <3>2. QED
        BY <1>4, <3>1 DEF IInv, TypeOK
    <2>3. refused' \in Nat
      BY <1>7 DEF IInv, TypeOK
    <2>4. QED
      BY <1>1, <1>7, <2>1, <2>2, <2>3
      DEF IInv, TypeOK, Controls, environment, Log
  <1>10. Balanced'
    <2>1. Len(channel') = Len(channel) - 1 /\ Len(channel) \in Nat
      BY <1>1, <1>6
    <2>2. /\ Stored(room) = Stored(queue) /\ Stored(room) \in Nat
          /\ refused \in Nat /\ lost \in Nat
      BY <1>5, StoredByTails, StoredTyped DEF IInv, TypeOK
    <2>3. /\ sent' = sent /\ lost' = lost
          /\ sent = Len(channel) + Stored(queue) + refused + lost
      BY <1>1 DEF IInv, Balanced, environment
    <2>4. QED
      BY <1>7, <2>1, <2>2, <2>3 DEF Balanced
  <1>11. QueuesOrdered'
    BY <1>7 DEF Ordered, QueuesOrdered
  <1>12. Passed'
    <2> SUFFICES ASSUME NEW p \in Priority,
                        NEW i \in 0..(queue'[p].head - 1)
                 PROVE  Accounted(p, i)'
      BY DEF Passed
    <2>1. queue[p].head \in Nat /\ queue'[p].head = room[p].head
      BY <1>7 DEF SameHeads, IInv, TypeOK
    <2>2. CASE i < queue[p].head
      <3>1. Accounted(p, i)
        BY <2>1, <2>2 DEF IInv, Passed
      <3>2. QED
        BY <1>1, <1>4, <3>1, AccountedGrows
    <2>3. CASE i >= queue[p].head
      <3>1. p = r
        BY <1>5, <2>1, <2>3
      <3>2. i \in queue[r].head .. ((queue[r].head + n) - 1)
        BY <1>5, <1>8, <2>1, <2>3, <3>1
      <3>3. <<p, i>> \in gone
        BY <3>1, <3>2 DEF Records
      <3>4. QED
        BY <1>4, <3>3 DEF Accounted
    <2>4. QED
      BY <2>1, <2>2, <2>3
  <1>13. BatchCut'
    BY <1>1 DEF BatchCut
  <1>14. Ending'
    BY <1>1 DEF IInv, Ending, environment
  <1>15. QED
    BY <1>9, <1>10, <1>11, <1>12, <1>13, <1>14 DEF IInv

LEMMA WalTickKeeps ==
  ASSUME IInv, WalTick
  PROVE  IInv'
  <1>1. queue \in [Priority -> Log] /\ Ordered(queue)
    BY DEF IInv, TypeOK, QueuesOrdered, Ordered, Log
  <1>2. /\ control = "select"
        /\ UNCHANGED <<channel, control, reason, batch, unsynced, environment,
                       history>>
    BY DEF WalTick
  <1>3. PICK k \in 0..3 : queue' = Flushed(queue, k)
    BY DEF WalTick
  <1>4. /\ queue' \in [Priority -> Log] /\ Ordered(queue')
        /\ SameHeads(queue', queue) /\ SameTails(queue', queue)
    BY <1>1, <1>3, FlushedFacts
  <1>5. TypeOK'
    BY <1>2, <1>4
    DEF IInv, TypeOK, Log, environment, history, verdicts, arrivals
  <1>6. QueuesOrdered'
    BY <1>4 DEF Ordered, QueuesOrdered
  <1>7. Balanced'
    BY <1>2, <1>4, BalanceKept DEF IInv, environment, history, arrivals
  <1>8. Passed'
    BY <1>2, <1>4
    DEF IInv, Passed, Accounted, SameHeads, history, verdicts, arrivals
  <1>9. BatchCut'
    BY <1>2 DEF BatchCut
  <1>10. Ending'
    BY <1>2 DEF IInv, Ending, environment
  <1>11. QED
    BY <1>5, <1>6, <1>7, <1>8, <1>9, <1>10 DEF IInv

(* read_batch takes what Taken says and syncs the logs it takes from; the  *)
(* more important logs are exactly as long after it as before.             *)
LEMMA ReadKeeps ==
  ASSUME IInv, Read
  PROVE  IInv'
  <1>1. /\ control' = "send"
        /\ UNCHANGED <<channel, reason, unsynced, environment, history>>
        /\ batch' = [p \in Priority |-> queue[p].head + Taken(p)]
        /\ queue' = [p \in Priority |-> ReadLog(p)]
    BY DEF Read
  <1>2. \A p \in Priority :
          /\ queue[p] \in Log /\ Taken(p) \in Nat
          /\ queue[p].saved <= queue[p].head
          /\ queue[p].head <= queue[p].synced
          /\ queue[p].synced <= queue[p].tail
    BY TakenBound DEF IInv, TypeOK, QueuesOrdered, Log
  <1>3. \A p \in Priority :
          /\ queue'[p] \in Log
          /\ queue'[p].head = queue[p].head /\ queue'[p].tail = queue[p].tail
          /\ queue'[p].saved = queue[p].saved
          /\ queue'[p].synced = IF Taken(p) > 0 THEN queue[p].tail
                                ELSE queue[p].synced
    <2> SUFFICES ASSUME NEW p \in Priority
                 PROVE  <1>3!(p)
      OBVIOUS
    <2>1. queue'[p] = ReadLog(p) /\ queue[p] \in Log
      BY <1>1, <1>2
    <2>2. CASE Taken(p) > 0
      <3>1. queue'[p] = [queue[p] EXCEPT !.synced = queue[p].tail]
        BY <2>1, <2>2 DEF ReadLog
      <3>2. QED
        BY <2>1, <2>2, <3>1 DEF Log
    <2>3. CASE ~(Taken(p) > 0)
      BY <2>1, <2>3 DEF ReadLog
    <2>4. QED
      BY <2>2, <2>3
  <1>4. /\ queue' \in [Priority -> Log]
        /\ batch' \in [Priority -> Nat]
    <2>1. queue' \in [Priority -> Log]
      BY <1>1, <1>3
    <2>2. batch' \in [Priority -> Nat]
      BY <1>1, <1>2 DEF Log
    <2>3. QED
      BY <2>1, <2>2
  <1>5. \A p \in Priority : Taken(p)' = Taken(p)
    BY <1>3 DEF Taken, PendingAbove, Pending, Priority
  <1>6. TypeOK'
    BY <1>1, <1>4
    DEF IInv, TypeOK, Log, Controls, environment, history, verdicts, arrivals
  <1>7. QueuesOrdered'
    BY <1>2, <1>3 DEF QueuesOrdered, Log
  <1>8. Balanced'
    <2>1. SameTails(queue', queue)
      BY <1>3 DEF SameTails
    <2>2. QED
      BY <1>1, <2>1, BalanceKept DEF IInv, environment, history, arrivals
  <1>9. Passed'
    BY <1>1, <1>3 DEF IInv, Passed, Accounted, history, verdicts, arrivals
  <1>10. BatchCut'
    BY <1>1, <1>3, <1>5 DEF BatchCut
  <1>11. Ending'
    BY <1>1 DEF IInv, Ending, environment
  <1>12. QED
    BY <1>6, <1>7, <1>8, <1>9, <1>10, <1>11 DEF IInv

(* The attempts that find nothing, or come back from their backoff.        *)
LEMMA EmptyAttemptKeeps ==
  ASSUME IInv, ReadNothing \/ Wake
  PROVE  IInv'
  <1>1. queue \in [Priority -> Log] /\ Ordered(queue)
    BY DEF IInv, TypeOK, QueuesOrdered, Ordered, Log
  <1>2. /\ GoOn(queue)
        /\ UNCHANGED <<channel, reason, batch, environment, history>>
    BY DEF ReadNothing, Wake
  <1>3. \A p \in Priority : \A i \in 0..(queue[p].head - 1) : Accounted(p, i)'
    BY <1>2 DEF IInv, Passed, Accounted, history, verdicts, arrivals
  <1>4. batch' \in [Priority -> Nat]
    BY <1>2 DEF IInv, TypeOK
  <1>5. /\ delivered' \subseteq Priority \X Nat
        /\ discarded' \subseteq Priority \X Nat
    BY <1>2 DEF IInv, TypeOK, history, verdicts
  <1>6. /\ UNCHANGED <<channel, reason, environment, arrivals>>
        /\ SameTails(queue, queue)
    BY <1>2 DEF history, SameTails
  <1>7. QED
    BY <1>1, <1>2, <1>3, <1>4, <1>5, <1>6, AttemptEnds

(* A read that fails has synced some logs and changed nothing else.        *)
LEMMA ReadFailsKeeps ==
  ASSUME IInv, ReadFails
  PROVE  IInv'
  <1>1. UNCHANGED <<channel, reason, batch, environment, history>>
    BY DEF ReadFails
  <1>2. PICK k \in 0..3 :
          GoOn([p \in Priority |->
                  IF \E i \in 1..k : DrainOrder[i] = p THEN ReadLog(p)
                  ELSE queue[p]])
    BY DEF ReadFails
  <1>3. PICK q : q = [p \in Priority |->
                        IF \E i \in 1..k : DrainOrder[i] = p THEN ReadLog(p)
                        ELSE queue[p]]
    OBVIOUS
  <1>4. GoOn(q)
    BY <1>2, <1>3
  <1>5. \A p \in Priority :
          /\ queue[p] \in Log
          /\ queue[p].saved <= queue[p].head
          /\ queue[p].head <= queue[p].synced
          /\ queue[p].synced <= queue[p].tail
    BY DEF IInv, TypeOK, QueuesOrdered, Log
  <1>6. \A p \in Priority :
          /\ q[p] \in Log
          /\ q[p].head = queue[p].head /\ q[p].tail = queue[p].tail
          /\ q[p].saved = queue[p].saved
          /\ q[p].synced \in {queue[p].tail, queue[p].synced}
    <2> SUFFICES ASSUME NEW p \in Priority
                 PROVE  <1>6!(p)
      OBVIOUS
    <2>1. queue[p] \in Log
      BY <1>5
    <2>2. q[p] = queue[p] \/ q[p] = [queue[p] EXCEPT !.synced = queue[p].tail]
      BY <1>3 DEF ReadLog
    <2>3. CASE q[p] = queue[p]
      BY <2>1, <2>3
    <2>4. CASE q[p] = [queue[p] EXCEPT !.synced = queue[p].tail]
      BY <2>1, <2>4 DEF Log
    <2>5. QED
      BY <2>2, <2>3, <2>4
  <1>7. q \in [Priority -> Log]
    BY <1>3, <1>6
  <1>8. Ordered(q) /\ SameTails(q, queue)
    BY <1>5, <1>6 DEF Ordered, SameTails, Log
  <1>9. \A p \in Priority : \A i \in 0..(q[p].head - 1) : Accounted(p, i)'
    BY <1>1, <1>6
    DEF IInv, Passed, Accounted, history, verdicts, arrivals
  <1>10. /\ batch' \in [Priority -> Nat]
         /\ delivered' \subseteq Priority \X Nat
         /\ discarded' \subseteq Priority \X Nat
    BY <1>1 DEF IInv, TypeOK, history, verdicts
  <1>11. UNCHANGED <<channel, reason, environment, arrivals>>
    BY <1>1 DEF history
  <1>12. QED
    BY <1>4, <1>7, <1>8, <1>9, <1>10, <1>11, AttemptEnds

(* The attempts that end in a commit.                                      *)
LEMMA CommitKeeps ==
  ASSUME IInv, SkipUndecodable \/ Accepted \/ Invalid
  PROVE  IInv'
  <1>1. /\ control = "send" /\ batch' = NoBatch
        /\ UNCHANGED <<channel, reason, environment, arrivals>>
        /\ delivered \subseteq delivered' /\ discarded \subseteq discarded'
        /\ delivered' \subseteq delivered \cup Wire
        /\ discarded' \subseteq discarded \cup Wire
        /\ Wire \subseteq delivered' \cup discarded'
    BY DEF SkipUndecodable, Accepted, Invalid, history, verdicts
  <1>2. PICK q \in CommitOutcomes(queue) : GoOn(q)
    BY DEF SkipUndecodable, Accepted, Invalid
  <1>3. q \in [Priority -> Log] /\ Ordered(q) /\ SameTails(q, queue)
    BY <1>1, CommitFacts DEF IInv
  <1>4. \A p \in Priority : \A i \in 0..(q[p].head - 1) : Accounted(p, i)'
    BY <1>1, CommitAccounted DEF arrivals
  <1>5. /\ batch' \in [Priority -> Nat]
        /\ delivered' \subseteq Priority \X Nat
        /\ discarded' \subseteq Priority \X Nat
    BY <1>1, WireTyped DEF IInv, TypeOK, NoBatch
  <1>6. QED
    BY <1>1, <1>2, <1>3, <1>4, <1>5, AttemptEnds

(* No confirmation: nothing leaves the queue.                              *)
LEMMA UnconfirmedKeeps ==
  ASSUME IInv, Unconfirmed
  PROVE  IInv'
  <1>1. PICK some \in SUBSET Wire : delivered' = delivered \cup some
    BY DEF Unconfirmed
  <1>2. /\ control' = "sleep" /\ batch' = NoBatch
        /\ UNCHANGED <<channel, queue, reason, environment>>
        /\ UNCHANGED <<unsynced, discarded, arrivals>>
    BY DEF Unconfirmed
  <1>3. delivered' \subseteq Priority \X Nat
    BY <1>1, WireTyped DEF IInv, TypeOK
  <1>4. TypeOK'
    BY <1>2, <1>3 DEF IInv, TypeOK, Controls, NoBatch, environment, arrivals
  <1>5. QueuesOrdered'
    BY <1>2 DEF IInv, QueuesOrdered
  <1>6. Balanced'
    BY <1>2 DEF IInv, Balanced, environment, arrivals
  <1>7. Passed'
    BY <1>1, <1>2 DEF IInv, Passed, Accounted, arrivals
  <1>8. BatchCut'
    BY <1>2 DEF BatchCut
  <1>9. Ending'
    BY <1>2 DEF IInv, Ending, environment
  <1>10. QED
    BY <1>4, <1>5, <1>6, <1>7, <1>8, <1>9 DEF IInv

(* The sensor is rejected for good: the queue stays as it is.              *)
LEMMA RevokedKeeps ==
  ASSUME IInv, Revoked
  PROVE  IInv'
  <1>1. /\ batch' = NoBatch /\ UNCHANGED <<channel, environment, history>>
    BY DEF Revoked
  <1>2. \A p \in Priority : \A i \in 0..(queue[p].head - 1) : Accounted(p, i)'
    BY <1>1 DEF IInv, Passed, Accounted, history, verdicts, arrivals
  <1>3. CASE /\ control' = "stopped" /\ reason' = "revoked" /\ queue' = queue
             /\ unsynced' = unsynced
    <2>1. TypeOK'
      BY <1>1, <1>3
      DEF IInv, TypeOK, Controls, Reasons, NoBatch, environment, history,
          verdicts, arrivals
    <2>2. QueuesOrdered'
      BY <1>3 DEF IInv, QueuesOrdered
    <2>3. Balanced'
      BY <1>1, <1>3 DEF IInv, Balanced, environment, history, arrivals
    <2>4. Passed'
      BY <1>2, <1>3 DEF Passed
    <2>5. BatchCut' /\ Ending'
      BY <1>3 DEF BatchCut, Ending
    <2>6. QED
      BY <2>1, <2>2, <2>3, <2>4, <2>5 DEF IInv
  <1>4. CASE GoOn(queue) /\ reason' = reason
    <2>1. queue \in [Priority -> Log] /\ Ordered(queue)
      BY DEF IInv, TypeOK, QueuesOrdered, Ordered, Log
    <2>2. /\ batch' \in [Priority -> Nat]
          /\ delivered' \subseteq Priority \X Nat
          /\ discarded' \subseteq Priority \X Nat
      BY <1>1 DEF IInv, TypeOK, NoBatch, history, verdicts
    <2>3. UNCHANGED arrivals /\ SameTails(queue, queue)
      BY <1>1 DEF history, SameTails
    <2>4. QED
      BY <1>1, <1>2, <1>4, <2>1, <2>2, <2>3, AttemptEnds
  <1>5. QED
    BY <1>3, <1>4 DEF Revoked

(* A restart goes back to what the cursor files hold; it loses no more of  *)
(* a log than was not synced.                                              *)
LEMMA RestartKeeps ==
  ASSUME IInv, Restart
  PROVE  IInv'
  <1>1. /\ channel' = <<>> /\ closed' = FALSE /\ shutdown' = FALSE
        /\ control' = "select" /\ reason' = "none" /\ batch' = NoBatch
        /\ unsynced' = FALSE
        /\ UNCHANGED <<sent, delivered, discarded, evicted, refused>>
        /\ restarts' = restarts + 1 /\ restarts < MaxRestarts
    BY DEF Restart, verdicts
  <1>2. PICK cut \in [Priority -> 0..MaxEvents] :
          /\ \A p \in Priority : cut[p] <= queue[p].tail - queue[p].synced
          /\ queue' = [p \in Priority |->
                          [queue[p] EXCEPT !.head = queue[p].saved,
                                           !.tail = queue[p].tail - cut[p]]]
          /\ lost' = lost + Len(channel)
                        + cut["bulk"] + cut["standard"] + cut["critical"]
    BY DEF Restart
  <1>3. \A p \in Priority :
          /\ queue[p] \in Log
          /\ queue[p].saved <= queue[p].head
          /\ queue[p].head <= queue[p].synced
          /\ queue[p].synced <= queue[p].tail
    BY DEF IInv, TypeOK, QueuesOrdered, Log
  <1>4. \A p \in Priority :
          /\ queue'[p] \in Log
          /\ queue'[p].head = queue[p].saved
          /\ queue'[p].saved = queue[p].saved
          /\ queue'[p].synced = queue[p].synced
          /\ queue[p].synced <= queue'[p].tail
          /\ queue'[p].tail = queue[p].tail - cut[p]
          /\ queue[p].tail \in Nat /\ cut[p] \in Nat
    <2> SUFFICES ASSUME NEW p \in Priority
                 PROVE  <1>4!(p)
      OBVIOUS
    <2>1. /\ queue'[p] = [queue[p] EXCEPT !.head = queue[p].saved,
                                          !.tail = queue[p].tail - cut[p]]
      BY <1>2
    <2>2. cut[p] <= queue[p].tail - queue[p].synced
      BY <1>2
    <2>3. cut[p] \in Nat /\ queue[p] \in Log
      BY <1>3, MaxEventsAssumption
    <2>4. queue[p].tail - cut[p] \in Nat
          /\ queue[p].synced <= queue[p].tail - cut[p]
      BY <2>2, <2>3 DEF Log
    <2>5. QED
      BY <2>1, <2>3, <2>4 DEF Log
  <1>5. queue' \in [Priority -> Log]
    BY <1>2, <1>4
  <1>6. TypeOK'
    <2>1. restarts' \in 0..MaxRestarts
      BY <1>1, MaxRestartsAssumption DEF IInv, TypeOK
    <2>2. channel' \in Seq(Priority) /\ Len(channel') <= Capacity
      BY <1>1, CapacityAssumption
    <2>3. lost' \in Nat
      <3>1. Len(channel) \in Nat /\ lost \in Nat
        BY DEF IInv, TypeOK
      <3>2. QED
        BY <1>2, <1>4, <3>1 DEF Priority
    <2>4. QED
      BY <1>1, <1>5, <2>1, <2>2, <2>3
      DEF IInv, TypeOK, Log, Controls, Reasons, NoBatch
  <1>7. QueuesOrdered'
    BY <1>3, <1>4 DEF QueuesOrdered, Log
  <1>8. Balanced'
    <2>1. /\ sent = Len(channel) + Stored(queue) + refused + lost
          /\ Len(channel) \in Nat /\ refused \in Nat /\ lost \in Nat
      BY DEF IInv, Balanced, TypeOK
    <2>2. Len(channel') = 0
      BY <1>1
    <2>3. Stored(queue')
            = Stored(queue) - (cut["bulk"] + cut["standard"] + cut["critical"])
      BY <1>4 DEF Stored, Priority
    <2>4. /\ cut["bulk"] \in Nat /\ cut["standard"] \in Nat
          /\ cut["critical"] \in Nat
      BY <1>4 DEF Priority
    <2>5. Stored(queue) \in Nat
      BY <1>4 DEF Stored, Priority
    <2>6. /\ sent' = sent /\ refused' = refused
          /\ lost' = lost + Len(channel)
                       + cut["bulk"] + cut["standard"] + cut["critical"]
      BY <1>1, <1>2
    <2>7. sent' = 0 + Stored(queue') + refused' + lost'
      BY <2>1, <2>3, <2>4, <2>5, <2>6
    <2>8. QED
      BY <2>2, <2>7 DEF Balanced
  <1>9. Passed'
    <2> SUFFICES ASSUME NEW p \in Priority, NEW i \in 0..(queue'[p].head - 1)
                 PROVE  Accounted(p, i)'
      BY DEF Passed
    <2>1. i \in 0..(queue[p].head - 1)
      BY <1>3, <1>4 DEF Log
    <2>2. QED
      BY <1>1, <2>1 DEF IInv, Passed, Accounted
  <1>10. BatchCut' /\ Ending'
    BY <1>1 DEF BatchCut, Ending
  <1>11. QED
    BY <1>6, <1>7, <1>8, <1>9, <1>10 DEF IInv

LEMMA InitHolds == Init => IInv
  <1> SUFFICES ASSUME Init PROVE IInv
    OBVIOUS
  <1>1. \A p \in Priority : queue[p] = EmptyQueue
    BY DEF Init
  <1>2. queue \in [Priority -> Log] /\ batch \in [Priority -> Nat]
    <2>1. EmptyQueue \in Log
      BY DEF EmptyQueue, Log
    <2>2. QED
      BY <2>1 DEF Init, NoBatch
  <1>3. TypeOK
    <2>1. channel \in Seq(Priority) /\ Len(channel) <= Capacity
      BY CapacityAssumption DEF Init
    <2>2. sent \in 0..MaxEvents /\ restarts \in 0..MaxRestarts
      BY MaxEventsAssumption, MaxRestartsAssumption DEF Init
    <2>3. control \in Controls /\ reason \in Reasons
      BY DEF Init, Controls, Reasons
    <2>4. delivered = {} /\ discarded = {} /\ evicted = {}
          /\ closed = FALSE /\ shutdown = FALSE
          /\ refused = 0 /\ lost = 0 /\ unsynced = FALSE
      BY DEF Init
    <2>5. QED
      BY <1>2, <2>1, <2>2, <2>3, <2>4 DEF TypeOK, Log
  <1>4. Balanced
    <2>1. \A p \in Priority : queue[p].tail = 0
      BY <1>1 DEF EmptyQueue
    <2>2. Stored(queue) = 0
      BY <2>1 DEF Stored, Priority
    <2>3. sent = 0 /\ Len(channel) = 0 /\ refused = 0 /\ lost = 0
      BY DEF Init
    <2>4. QED
      BY <2>2, <2>3 DEF Balanced
  <1>5. QueuesOrdered /\ Passed
    BY <1>1 DEF QueuesOrdered, Passed, EmptyQueue
  <1>6. BatchCut /\ Ending
    BY DEF Init, BatchCut, Ending
  <1>7. QED
    BY <1>3, <1>4, <1>5, <1>6 DEF IInv

LEMMA StepKeeps == IInv /\ [Next]_vars => IInv'
  <1> SUFFICES ASSUME IInv, [Next]_vars PROVE IInv'
    OBVIOUS
  <1>1. CASE UNCHANGED vars
    BY <1>1
    DEF vars, IInv, TypeOK, QueuesOrdered, Balanced, Passed, Accounted,
        BatchCut, Taken, PendingAbove, Pending, Ending, Synced
  <1>2. CASE Attempt
    BY <1>2, ReadKeeps, ReadFailsKeeps, EmptyAttemptKeeps, CommitKeeps,
       UnconfirmedKeeps, RevokedKeeps
    DEF Attempt
  <1>3. QED
    BY <1>1, <1>2, ArrivalsKeep, TurnsKeep, ReceiveKeeps, WalTickKeeps,
       RestartKeeps
    DEF Next

LEMMA Invariant == Spec => []IInv
  BY InitHolds, StepKeeps, PTL DEF Spec

-----------------------------------------------------------------------------
(* The channel and the logs keep their bounds.                             *)
THEOREM TypeCorrect == Spec => []TypeOK
  <1>1. IInv => TypeOK
    BY DEF IInv
  <1>2. QED
    BY <1>1, Invariant, PTL

(* saved, head, synced and tail of each log stay in this order, whatever   *)
(* the backend answers and wherever the process is restarted.              *)
THEOREM QueuesOrderedAlways == Spec => []QueuesOrdered
  <1>1. IInv => QueuesOrdered
    BY DEF IInv
  <1>2. QED
    BY <1>1, Invariant, PTL

(* A record is synced before it is sent (log.rs, read).                    *)
THEOREM PersistedBeforeSent == Spec => []PersistBeforeSend
  <1>1. IInv => PersistBeforeSend
    BY CutPersisted DEF IInv
  <1>2. QED
    BY <1>1, Invariant, PTL

(* At least once: an event that was sent is in the channel, has a record,  *)
(* was refused and counted, or was taken by a restart before it was        *)
(* synced; and no record leaves a queue unless the backend took it or      *)
(* refused it, retention gave it up or it does not deserialise.            *)
THEOREM NothingLostSilentlyAlways == Spec => []NothingLostSilently
  <1>1. IInv => NothingLostSilently
    BY DEF IInv, NothingLostSilently, Passed
  <1>2. QED
    BY <1>1, Invariant, PTL

(* A task that ends because the channel closed has emptied the channel,    *)
(* and an orderly end has synced every log unless the last flush failed.   *)
THEOREM StopPersistsAlways == Spec => []StopPersists
  <1>1. IInv => StopPersists
    BY EndingPersists DEF IInv
  <1>2. QED
    BY <1>1, Invariant, PTL

(* Batches are cut in the order of importance.                             *)
THEOREM ImportantFirstAlways == Spec => []ImportantFirst
  <1>1. IInv => ImportantFirst
    BY CutImportantFirst DEF IInv
  <1>2. QED
    BY <1>1, Invariant, PTL

=============================================================================
