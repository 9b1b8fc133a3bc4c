----------------------------- MODULE EventQueue -----------------------------
(***************************************************************************)
(* The event queue of the sensor: one SegmentedLog per priority under one  *)
(* disk limit (crates/sensor-buffer/src/queue.rs).                         *)
(*                                                                         *)
(* The queue belongs to the uploader task, which finishes a batch (commits *)
(* it or gives it up) before it takes the next event; a push is a loop of  *)
(* evictions, so it is one action per iteration and a kill can come        *)
(* between two of them.  A restart may bring another configuration.        *)
(***************************************************************************)
EXTENDS WalLog

CONSTANTS
  Config,      (* possible [maxDiskBytes, segmentBytes] of a start         *)
  Sizes,       (* record sizes of each priority in bytes, with header      *)
  MaxBatch,    (* largest batch asked for                                  *)
  MaxRecords,  (* bound of the model: records appended to each log         *)
  MaxRefused   (* bound of the model: refused events counted               *)

Priority == {"bulk", "standard", "critical"}

ASSUME ConfigAssumption ==
  Config \subseteq [maxDiskBytes : Nat, segmentBytes : Nat \ {0}]
ASSUME SizesAssumption == Sizes \in [Priority -> SUBSET (Nat \ {0})]
ASSUME MaxBatchAssumption == MaxBatch \in Nat
ASSUME MaxRecordsAssumption == MaxRecords \in [Priority -> Nat]
ASSUME MaxRefusedAssumption == MaxRefused \in Nat

VARIABLES
  config,        (* configuration of the running process                   *)
  logs,          (* the three logs                                         *)
  droppedTotal,  (* incoming events refused since the start                *)
  incoming,      (* the push in progress, or NoEvent                       *)
  batch,         (* positions of the batch in the uploader's hands         *)
  pushed         (* history: a push was stored since the start             *)

vars == <<config, logs, droppedTotal, incoming, batch, pushed>>

(* DRAIN_ORDER is the more important first, EVICT_ORDER the reverse. *)
Rank(p) == CASE p = "critical" -> 2 [] p = "standard" -> 1 [] p = "bulk" -> 0

PerPriority(bulk, standard, critical) ==
  [p \in Priority |-> CASE p = "bulk" -> bulk
                        [] p = "standard" -> standard
                        [] p = "critical" -> critical]

NoEvent == [priority |-> "none", size |-> 0]

NoPosition == [segment |-> 0, offset |-> 0]
NoBatch == [p \in Priority |-> NoPosition]

DiskBytes == logs["bulk"].diskBytes + logs["standard"].diskBytes
               + logs["critical"].diskBytes

(* Slip: the configured limit, taken as it is. *)
ConfiguredLimit(c) == c.maxDiskBytes

(* The enforced limit: raised to two segments per log. *)
EffectiveLimit(c) ==
  LET floor == c.segmentBytes * 2 * 3 IN
  IF c.maxDiskBytes < floor THEN floor ELSE c.maxDiskBytes

Init ==
  /\ config \in Config
  /\ logs = [p \in Priority |-> EmptyLog]
  /\ droppedTotal = 0
  /\ incoming = NoEvent
  /\ batch = NoBatch
  /\ pushed = FALSE

-----------------------------------------------------------------------------

(* `push` *)

Push(p, size) ==
  /\ incoming = NoEvent
  /\ batch = NoBatch
  /\ logs[p].tail < MaxRecords[p]
  /\ incoming' = [priority |-> p, size |-> size]
  /\ UNCHANGED <<config, logs, droppedTotal, batch, pushed>>

(* Slip: the incoming event is left out of the sum. *)
OverLimitAlready == DiskBytes > EffectiveLimit(config)

OverLimit == DiskBytes + incoming.size > EffectiveLimit(config)

(* Slips: any log gives way; even the active segment does. *)
VictimAny(p) == Droppable(logs[p])
VictimActive(p) == p = "bulk"

(* `evict_one` asks the logs in EVICT_ORDER; p is the first that has       *)
(* something to give up.                                                   *)
Victim(p) ==
  /\ Droppable(logs[p])
  /\ \A q \in Priority : Rank(q) < Rank(p) => ~Droppable(logs[q])

Evict ==
  /\ incoming # NoEvent
  /\ OverLimit
  /\ \E p \in Priority :
       /\ Victim(p)
       /\ logs' = [logs EXCEPT ![p] = SaveCursor(DropOldest(@))]
  /\ UNCHANGED <<config, droppedTotal, incoming, batch, pushed>>

(* The removal or, after it, the cursor file fails: push returns an error. *)
EvictFails ==
  /\ incoming # NoEvent
  /\ OverLimit
  /\ \E p \in Priority :
       /\ Victim(p)
       /\ logs' \in {logs, [logs EXCEPT ![p] = DropOldest(@)]}
  /\ incoming' = NoEvent
  /\ UNCHANGED <<config, droppedTotal, batch, pushed>>

(* Nothing left to evict: the incoming event itself is dropped. *)
Refuse ==
  /\ incoming # NoEvent
  /\ OverLimit
  /\ \A p \in Priority : ~Droppable(logs[p])
  /\ droppedTotal < MaxRefused
  /\ droppedTotal' = droppedTotal + 1
  /\ incoming' = NoEvent
  /\ UNCHANGED <<config, logs, batch, pushed>>

Store ==
  /\ incoming # NoEvent
  /\ ~OverLimit
  /\ logs' = [logs EXCEPT ![incoming.priority] =
                AppendRecord(@, incoming.size, config.segmentBytes)]
  /\ incoming' = NoEvent
  /\ pushed' = TRUE
  /\ UNCHANGED <<config, droppedTotal, batch>>

(* `append` fails: too large, or the next segment could not be opened      *)
(* after the old one was flushed.                                          *)
StoreFails ==
  /\ incoming # NoEvent
  /\ ~OverLimit
  /\ LET p == incoming.priority IN
     logs' \in {logs} \cup
               {[logs EXCEPT ![q] = Flush(@)] :
                  q \in {r \in {p} : MustRoll(logs[r], config.segmentBytes)}}
  /\ incoming' = NoEvent
  /\ UNCHANGED <<config, droppedTotal, batch, pushed>>

-----------------------------------------------------------------------------

(* Positions a log's read_batch(max) can end at; NoPosition if it returns  *)
(* nothing.                                                                *)
BatchEnds(l, max) ==
  IF max <= 0 \/ l.pending = 0
    THEN {NoPosition}
    ELSE {p \in [segment : l.lo..l.active, offset : 1..l.tail] :
            ReadsUpTo(l, max, p)}

(* Slip: every log may fill the batch. *)
LeftForAll(p, max) == max

(* What the more important logs leave of max for log p. *)
LeftFor(p, max) ==
  CASE p = "critical" -> max
    [] p = "standard" -> max - logs["critical"].pending
    [] p = "bulk" -> max - logs["critical"].pending - logs["standard"].pending

(* `read_batch(max)`: in DRAIN_ORDER, each log gets what the more          *)
(* important ones left of max; a log that is not asked, or has nothing     *)
(* pending, is not flushed either.                                         *)
ReadBatch(max) ==
  /\ incoming = NoEvent
  /\ batch = NoBatch
  /\ \E b \in BatchEnds(logs["bulk"], LeftFor("bulk", max)),
        s \in BatchEnds(logs["standard"], LeftFor("standard", max)),
        c \in BatchEnds(logs["critical"], LeftFor("critical", max)) :
       batch' = PerPriority(b, s, c)
  /\ batch' # NoBatch
  /\ logs' = [p \in Priority |->
                IF batch'[p] = NoPosition THEN logs[p] ELSE Flush(logs[p])]
  /\ UNCHANGED <<config, droppedTotal, incoming, pushed>>

(* Slip: an old position is not recognised. *)
CommitLogAnyway(l, p) == CollectConsumed(SaveCursor(MoveCursor(l, p)))

CommitLog(l, p) ==
  IF Before(l.cursor, p) THEN CollectConsumed(SaveCursor(MoveCursor(l, p)))
                         ELSE l

(* `commit`: every log the batch was read from. *)
Commit ==
  /\ batch # NoBatch
  /\ logs' = [p \in Priority |-> CommitLog(logs[p], batch[p])]
  /\ batch' = NoBatch
  /\ UNCHANGED <<config, droppedTotal, incoming, pushed>>

(* The cursor file of one log, p, cannot be written: the more important    *)
(* logs are committed, p only in memory, the others not at all.            *)
CommitFails ==
  /\ batch # NoBatch
  /\ \E p \in Priority :
       /\ Before(logs[p].cursor, batch[p])
       /\ logs' = [q \in Priority |->
                     IF Rank(q) > Rank(p) THEN CommitLog(logs[q], batch[q])
                     ELSE IF q = p THEN MoveCursor(logs[q], batch[q])
                     ELSE logs[q]]
  /\ batch' = NoBatch
  /\ UNCHANGED <<config, droppedTotal, incoming, pushed>>

(* The upload failed; the batch is read again later. *)
GiveUp ==
  /\ batch # NoBatch
  /\ batch' = NoBatch
  /\ UNCHANGED <<config, logs, droppedTotal, incoming, pushed>>

(* `flush` of all three logs. *)
FlushAll ==
  /\ incoming = NoEvent
  /\ logs' = [p \in Priority |-> Flush(logs[p])]
  /\ UNCHANGED <<config, droppedTotal, incoming, batch, pushed>>

Reopened(l) == {OpenLog(l, l.lo, l.active, t) : t \in l.synced..l.tail}

(* The process stops anywhere and is started again, maybe with another     *)
(* configuration: `open`.                                                  *)
Restart ==
  /\ config' \in Config
  /\ \E b \in Reopened(logs["bulk"]), s \in Reopened(logs["standard"]),
        c \in Reopened(logs["critical"]) : logs' = PerPriority(b, s, c)
  /\ droppedTotal' = 0
  /\ incoming' = NoEvent
  /\ batch' = NoBatch
  /\ pushed' = FALSE

Next ==
  \/ \E p \in Priority : \E size \in Sizes[p] : Push(p, size)
  \/ Evict \/ EvictFails \/ Refuse \/ Store \/ StoreFails
  \/ \E max \in 1..MaxBatch : ReadBatch(max)
  \/ Commit \/ CommitFails \/ GiveUp \/ FlushAll
  \/ Restart

Spec == Init /\ [][Next]_vars

-----------------------------------------------------------------------------

(* The three logs, the push and the batch in progress keep their types: a  *)
(* victim always has a segment to give up (drop_oldest_segment).           *)
TypeOK ==
  /\ config \in Config
  /\ \A p \in Priority : LogType(logs[p])
  /\ droppedTotal \in 0..MaxRefused
  /\ incoming \in {NoEvent} \cup [priority : Priority, size : Nat \ {0}]
  /\ batch \in [Priority -> Position]
  /\ pushed \in BOOLEAN

(* Each of the three logs keeps its own invariant through push, eviction,  *)
(* partial commits and restarts.                                           *)
LogsConsistent == \A p \in Priority : LogInv(logs[p])

(* Bytes the segment files really hold. *)
FileBytes(l) == l.byteAt[l.tail] - l.byteAt[l.first[l.lo]]

TotalFileBytes == FileBytes(logs["bulk"]) + FileBytes(logs["standard"])
                    + FileBytes(logs["critical"])

(* Once a push of this process was stored, the files stay within the       *)
(* enforced limit, whatever was left over from earlier runs (queue.rs:     *)
(* 14-17; open itself evicts nothing).                                     *)
WithinLimit == pushed => TotalFileBytes <= EffectiveLimit(config)

(* A record so large, compared with a segment, that three active segments  *)
(* and it may fill the six segments of the smallest limit.                 *)
Oversized(size) == 4 * size - 3 > 3 * config.segmentBytes

LastSize(l) == IF l.tail = 0 THEN 0 ELSE l.byteAt[l.tail] - l.byteAt[l.tail - 1]

(* queue.rs:104-110: because the limit is raised to two segments per log,  *)
(* a full queue gives up old events instead of refusing new ones, unless   *)
(* single records are as large as segments.                                *)
RefusesOnlyOversized ==
  [][droppedTotal' > droppedTotal =>
       \/ Oversized(incoming.size)
       \/ \E p \in Priority : Oversized(LastSize(logs[p]))]_vars

(* Retention reaches a log only after every less important one is down to  *)
(* its active segment (queue.rs:25-29, EVICT_ORDER).                       *)
ImportantLast ==
  [][\A p, q \in Priority :
       logs'[p].dropped > logs[p].dropped /\ Rank(q) < Rank(p)
         => logs[q].lo = logs[q].active]_vars

(* No read hands out an event while a more important pending one stays     *)
(* behind (DRAIN_ORDER).                                                   *)
ImportantFirst ==
  \A p, q \in Priority :
    batch[p] # NoPosition /\ Rank(q) > Rank(p) /\ logs[q].pending > 0
      => /\ batch[q] # NoPosition
         /\ IndexOf(logs[q], batch[q]) = logs[q].tail

HeadOf(p) == IndexOf(logs[p], logs[p].cursor)

Bulk == INSTANCE DurableQueue WITH
          head <- HeadOf("bulk"), tail <- logs["bulk"].tail,
          synced <- logs["bulk"].synced,
          saved <- IndexOf(logs["bulk"], logs["bulk"].saved)
Standard == INSTANCE DurableQueue WITH
          head <- HeadOf("standard"), tail <- logs["standard"].tail,
          synced <- logs["standard"].synced,
          saved <- IndexOf(logs["standard"], logs["standard"].saved)
Critical == INSTANCE DurableQueue WITH
          head <- HeadOf("critical"), tail <- logs["critical"].tail,
          synced <- logs["critical"].synced,
          saved <- IndexOf(logs["critical"], logs["critical"].saved)

(* Each log keeps the contract of DurableQueue inside the queue, through   *)
(* evictions, commits that stop half-way, and restarts.                    *)
ImplementsDurableQueues == Bulk!Spec /\ Standard!Spec /\ Critical!Spec

=============================================================================
