---------------------------- MODULE SegmentedLog ----------------------------
(***************************************************************************)
(* One segmented write-ahead log of the sensor, with every point at which  *)
(* the process can be killed or the machine can lose power                 *)
(* (crates/sensor-buffer/src/log.rs).                                      *)
(*                                                                         *)
(* The methods take `&mut self`, so they never overlap; what can come      *)
(* between two steps of one method is a crash.  `commit` and               *)
(* `drop_oldest_segment` change several files one after the other and are  *)
(* therefore split at those points (variable step).  An I/O error leaves   *)
(* the method early, after the changes it already made.                    *)
(*                                                                         *)
(* File system: fsync of a file also makes its directory entry durable,    *)
(* `write_cursor` makes everything before it durable (it fsyncs the        *)
(* directory), any other creation or removal of a segment may be undone by *)
(* a power loss.  dirLo and dirHi are the oldest and youngest segment the  *)
(* directory is then sure to reach back to.                                *)
(***************************************************************************)
EXTENDS WalLog

CONSTANTS
  Sizes,         (* record sizes in bytes, header included                 *)
  SegmentBytes,  (* effective segment size                                 *)
  MaxBatch,      (* largest batch a reader asks for                        *)
  MaxRecords     (* bound of the model: records appended                   *)

ASSUME SizesAssumption == Sizes \subseteq Nat \ {0}
ASSUME SegmentBytesAssumption == SegmentBytes \in Nat \ {0}
ASSUME MaxBatchAssumption == MaxBatch \in Nat
ASSUME MaxRecordsAssumption == MaxRecords \in Nat

VARIABLES
  log,    (* the SegmentedLog and its files                                *)
  batch,  (* position behind a batch handed out and not forgotten yet      *)
  step,   (* what the method in progress still has to do                   *)
  dirLo,  (* oldest segment a power loss may bring back                    *)
  dirHi   (* youngest segment that a power loss leaves in the directory    *)

vars == <<log, batch, step, dirLo, dirHi>>

NoBatch == [segment |-> 0, offset |-> 0]

Steps == {"idle", "collect", "savecursor"}

Init ==
  /\ log = EmptyLog
  /\ batch = NoBatch
  /\ step = "idle"
  /\ dirLo = 1
  /\ dirHi = 1

-----------------------------------------------------------------------------

(* `append`; a full active segment is rolled first. *)
Append(size) ==
  /\ step = "idle"
  /\ log.tail < MaxRecords
  /\ log' = AppendRecord(log, size, SegmentBytes)
  /\ dirHi' = IF MustRoll(log, SegmentBytes) THEN log.active ELSE dirHi
  /\ UNCHANGED <<batch, step, dirLo>>

(* `append` fails in `roll_segment`: the old segment was flushed, the next *)
(* one could not be opened.                                                *)
AppendFails ==
  /\ step = "idle"
  /\ MustRoll(log, SegmentBytes)
  /\ log' = Flush(log)
  /\ dirHi' = log.active
  /\ UNCHANGED <<batch, step, dirLo>>

(* `flush` *)
Sync ==
  /\ step = "idle"
  /\ log' = Flush(log)
  /\ dirHi' = log.active
  /\ UNCHANGED <<batch, step, dirLo>>

(* `read_batch(max)` with something to read: flush, then read from the     *)
(* cursor on.                                                              *)
Read(max) ==
  /\ step = "idle"
  /\ \E s \in log.lo..log.active, n \in 1..log.tail :
       LET p == [segment |-> s, offset |-> n] IN
       /\ ReadsUpTo(log, max, p)
       /\ batch' = p
  /\ log' = Flush(log)
  /\ dirHi' = log.active
  /\ UNCHANGED <<step, dirLo>>

(* Slip: the directory is not fsynced after the rename. *)
CursorSavedNoDirSync ==
  /\ dirLo' = log.lo
  /\ dirHi' = dirHi

(* `write_cursor` reached the disk, with all that was done before it. *)
CursorSaved ==
  /\ dirLo' = log.lo
  /\ dirHi' = log.active

(* `commit` of the batch read last; an old position is ignored.  Success   *)
(* goes on to collect_consumed_segments.                                   *)
Commit ==
  /\ step = "idle"
  /\ Before(log.cursor, batch)
  /\ log' = SaveCursor(MoveCursor(log, batch))
  /\ CursorSaved
  /\ step' = "collect"
  /\ UNCHANGED batch

(* `write_cursor` fails in commit: the cursor in memory has moved. *)
CommitFails ==
  /\ step = "idle"
  /\ Before(log.cursor, batch)
  /\ log' = MoveCursor(log, batch)
  /\ UNCHANGED <<batch, step, dirLo, dirHi>>

(* `collect_consumed_segments` removes one more file, or is done. *)
Collect ==
  /\ step = "collect"
  /\ IF HasObsolete(log)
       THEN log' = RemoveObsolete(log) /\ step' = step
       ELSE log' = log /\ step' = "idle"
  /\ UNCHANGED <<batch, dirLo, dirHi>>

(* ... or an error ends it, and later commits collect the rest. *)
CollectFails ==
  /\ step = "collect"
  /\ HasObsolete(log)
  /\ step' = "idle"
  /\ UNCHANGED <<log, batch, dirLo, dirHi>>

(* `drop_oldest_segment`: the file is removed and the counters follow. *)
Drop ==
  /\ step = "idle"
  /\ Droppable(log)
  /\ log' = DropOldest(log)
  /\ step' = "savecursor"
  /\ UNCHANGED <<batch, dirLo, dirHi>>

(* ... then the clamped cursor is written, *)
DropSavesCursor ==
  /\ step = "savecursor"
  /\ log' = SaveCursor(log)
  /\ CursorSaved
  /\ step' = "idle"
  /\ UNCHANGED batch

(* ... or that fails and the method returns an error. *)
DropFails ==
  /\ step = "savecursor"
  /\ step' = "idle"
  /\ UNCHANGED <<log, batch, dirLo, dirHi>>

-----------------------------------------------------------------------------

(* The process dies and is started again: what sat in the BufWriter is     *)
(* gone, the page cache and the directory survive.                         *)
Kill ==
  /\ \E t \in log.synced..log.tail : log' = OpenLog(log, log.lo, log.active, t)
  /\ batch' = NoBatch
  /\ step' = "idle"
  /\ UNCHANGED <<dirLo, dirHi>>

(* The machine loses power and comes up again.  Removed segments may be    *)
(* back; the youngest may be missing if nothing of it was ever fsynced.    *)
PowerLoss ==
  /\ \E lo \in dirLo..log.lo, hi \in dirHi..log.active :
       /\ lo <= hi
       /\ \E t \in log.synced..(IF hi = log.active THEN log.tail
                                                   ELSE log.synced) :
            log' = [OpenLog(log, lo, hi, t) EXCEPT !.synced = t]
       /\ dirLo' = lo
       /\ dirHi' = hi
  /\ batch' = NoBatch
  /\ step' = "idle"

Next ==
  \/ \E size \in Sizes : Append(size)
  \/ AppendFails
  \/ Sync
  \/ \E max \in 1..MaxBatch : Read(max)
  \/ Commit \/ CommitFails \/ Collect \/ CollectFails
  \/ Drop \/ DropSavesCursor \/ DropFails
  \/ Kill \/ PowerLoss

Spec == Init /\ [][Next]_vars

-----------------------------------------------------------------------------

(* Index of the next record to deliver. *)
Head == IndexOf(log, log.cursor)

(* Every field of the log, its two cursors, the batch in hand and the     *)
(* bounds of the directory after a power loss keep their types.            *)
TypeOK ==
  /\ LogType(log)
  /\ batch \in Position
  /\ step \in Steps
  /\ dirLo \in Nat \ {0}
  /\ dirHi \in Nat \ {0}

(* The counters kept by increments and decrements across append, commit,   *)
(* collection, retention and recovery equal what a scan of the files would *)
(* find: `pending`, `disk_bytes` and `active_bytes` (log.rs:71-75).        *)
CountersMatchFiles == CountersExact(log)

(* At every point a crash can hit, the cursor file is not ahead of the     *)
(* cursor, the cursor not ahead of the synced records, and it points into  *)
(* a segment that exists: recovery never skips a record that was not       *)
(* confirmed and never finds the cursor behind the end of the log.         *)
CursorsSafe == CursorsOrdered(log)

(* What a power loss may do to the directory leaves the cursor file and    *)
(* every synced record inside the log.                                     *)
DirectorySafe ==
  /\ dirLo <= log.lo
  /\ dirHi <= log.active
  /\ log.saved.segment <= dirHi
  /\ dirHi < log.active =>
       dirHi = log.active - 1 /\ log.synced = log.first[log.active]

(* A batch handed out ends at a synced record of this log, so confirming   *)
(* it can never pass what a crash may take away (read_batch flushes first, *)
(* log.rs:209), even if retention or another commit came in between.       *)
BatchSynced ==
  batch # NoBatch => InLog(log, batch) /\ IndexOf(log, batch) <= log.synced

(* What the file-by-file loops count is what the counters are moved by:    *)
(* `count_pending` up to the end of the log, `count_records_between` up to *)
(* any batch that may still be confirmed (log.rs:409-436, 583-611).  The   *)
(* loop over a file would count one record too many if a batch could end   *)
(* before the first record of a file.                                      *)
LoopsTelescope ==
  /\ CountLoop(log, log.cursor, [segment |-> log.active, offset |-> log.tail])
       = CountPending(log, log.cursor)
  /\ Before(log.cursor, batch) =>
       CountLoop(log, log.cursor, batch) = CountBetween(log, log.cursor, batch)

(* The inductive invariant behind the ones above. *)
IInv ==
  /\ TypeOK
  /\ LogInv(log)
  /\ DirectorySafe
  /\ BatchSynced

(* Retention reports exactly the records that become undeliverable by it,  *)
(* not the ones of the segment that were already confirmed                 *)
(* (log.rs:303-313, "nur was noch nicht bestaetigt war").                  *)
DropCountsLoss ==
  [][Drop => log'.dropped - log.dropped = Head' - Head]_vars

(* Collecting consumed segments never removes one that still holds an      *)
(* unconfirmed record, whatever append, retention or failed commit came    *)
(* before (log.rs:376-393).                                                *)
CollectFreesOnlyConfirmed ==
  [][Collect => log.first[log'.lo] <= Head]_vars

(* The log keeps the contract of DurableQueue: in order, at least once,    *)
(* nothing synced is lost, nothing confirmed on disk comes back.           *)
Queue == INSTANCE DurableQueue WITH
           head <- IndexOf(log, log.cursor), tail <- log.tail,
           synced <- log.synced, saved <- IndexOf(log, log.saved)

(* The log on disk is a DurableQueue of records (log.rs:1-9). *)
ImplementsDurableQueue == Queue!Spec

=============================================================================
