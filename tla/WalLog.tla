------------------------------- MODULE WalLog -------------------------------
(***************************************************************************)
(* The value of one `SegmentedLog` (crates/sensor-buffer/src/log.rs) and   *)
(* the functions its methods compute on it.  The state machines that own   *)
(* such values are SegmentedLog (one log, every crash point) and           *)
(* EventQueue (three logs under one disk limit).                           *)
(*                                                                         *)
(* Representation.  The records of a log are numbered 0, 1, 2, ... in the  *)
(* order they were appended.  A segment file holds a contiguous interval   *)
(* of them, so a segment s is given by the number first[s] of its first    *)
(* record, and the set of existing segments by its bounds lo and active    *)
(* (ids are handed out by `active_id + 1` and removed oldest first).       *)
(* Offsets inside a segment count records; byteAt[i] is the length in      *)
(* bytes of the first i records.  Counting the records, or the bytes, of   *)
(* adjacent segments therefore telescopes into one difference; segment 0   *)
(* never exists and only serves as the position of a missing cursor file.  *)
(*                                                                         *)
(*   lo, active   oldest and youngest segment                              *)
(*   first        first record of each segment that ever existed           *)
(*   tail         number of records appended                               *)
(*   byteAt       cumulative record sizes (8 byte header included)         *)
(*   cursor       confirmed read position in memory                        *)
(*   pending, diskBytes, activeBytes, dropped   the counters of the struct *)
(*   synced       number of leading records known to be on the platter     *)
(*   saved        the position in the cursor file                          *)
(***************************************************************************)
EXTENDS Integers

Position == [segment : Nat, offset : Nat]

(* `Ord` of LogPosition: lexicographic by segment, then offset. *)
Before(p, q) ==
  \/ p.segment < q.segment
  \/ p.segment = q.segment /\ p.offset < q.offset

(* u64::saturating_sub *)
SaturatingSub(a, b) == IF b <= a THEN a - b ELSE 0

(***************************************************************************)
(* What the files of a log contain.                                        *)
(***************************************************************************)

IndexOf(l, p) == l.first[p.segment] + p.offset

EndOf(l, s) == IF s = l.active THEN l.tail ELSE l.first[s + 1]

BytesOf(l, s) == l.byteAt[EndOf(l, s)] - l.byteAt[l.first[s]]

(* Records from p to the end of the log. *)
CountPending(l, p) == SaturatingSub(l.tail, IndexOf(l, p))

(* Slip: offsets of different files subtracted from each other. *)
CountBetweenSameFile(l, p, q) == SaturatingSub(q.offset, p.offset)

CountBetween(l, p, q) == SaturatingSub(IndexOf(l, q), IndexOf(l, p))

(* The loops behind those two numbers.  A file is read record by record:   *)
(* the limit is looked at behind each of them, so the first one counts     *)
(* even if `from` is at the limit.                                         *)
CountInFile(l, s, from, to) ==
  LET size == EndOf(l, s) - l.first[s]
      limit == IF to <= from THEN from + 1 ELSE to
  IN  SaturatingSub(IF limit < size THEN limit ELSE size, from)

(* The existing files from p's on, up to q's, are added up in their order. *)
CountLoop(l, p, q) ==
  LET start == IF l.lo <= p.segment THEN p.segment ELSE l.lo
      total[s \in 0..q.segment] ==
        IF s < start THEN 0
        ELSE total[s - 1]
               + CountInFile(l, s, IF s = p.segment THEN p.offset ELSE 0,
                                   IF s = q.segment THEN q.offset ELSE l.tail)
  IN  total[q.segment]

(***************************************************************************)
(* Opening and recovering.                                                 *)
(***************************************************************************)

EmptyLog ==
  [ lo |-> 1, active |-> 1, first |-> [s \in 0..1 |-> 0],
    tail |-> 0, byteAt |-> [i \in 0..0 |-> 0],
    cursor |-> [segment |-> 1, offset |-> 0],
    pending |-> 0, diskBytes |-> 0, activeBytes |-> 0, dropped |-> 0,
    synced |-> 0, saved |-> [segment |-> 0, offset |-> 0] ]

(* Slips: the cursor stays in the removed segment; a cursor that was fine  *)
(* is reset as well.                                                       *)
ClampCursorNever(p, lo) == p
ClampCursorAlways(p, lo) == [segment |-> lo, offset |-> 0]

(* A cursor into a removed segment moves to the oldest one that exists. *)
ClampCursor(p, lo) ==
  IF p.segment < lo THEN [segment |-> lo, offset |-> 0] ELSE p

(* `SegmentedLog::open` on the files a stop left behind: the segments      *)
(* lo..hi, truncated behind record t, the last one that reads back whole.  *)
OpenLog(l, lo, hi, t) ==
  LET cur == ClampCursor(l.saved, lo) IN
  [ lo |-> lo, active |-> hi, first |-> [s \in 0..hi |-> l.first[s]],
    tail |-> t, byteAt |-> [i \in 0..t |-> l.byteAt[i]],
    cursor |-> cur,
    pending |-> SaturatingSub(t, IndexOf(l, cur)),
    diskBytes |-> l.byteAt[t] - l.byteAt[l.first[lo]],
    activeBytes |-> l.byteAt[t] - l.byteAt[l.first[hi]],
    dropped |-> 0, synced |-> l.synced, saved |-> l.saved ]

(***************************************************************************)
(* Writing.                                                                *)
(***************************************************************************)

(* Slip: only the BufWriter is emptied, nothing is fsynced. *)
FlushToPageCache(l) == l

(* `flush`: the BufWriter is emptied and the active file is fsynced; the   *)
(* older segments were flushed when they were rolled.                      *)
Flush(l) == [l EXCEPT !.synced = l.tail]

RollSegment(l) ==
  [Flush(l) EXCEPT
     !.active = l.active + 1,
     !.first = [s \in 0..(l.active + 1) |->
                  IF s = l.active + 1 THEN l.tail ELSE l.first[s]],
     !.activeBytes = 0]

MustRoll(l, segmentBytes) == l.activeBytes >= segmentBytes

WriteRecord(l, size) ==
  [l EXCEPT
     !.tail = l.tail + 1,
     !.byteAt = [i \in 0..(l.tail + 1) |->
                   IF i = l.tail + 1 THEN l.byteAt[l.tail] + size
                                     ELSE l.byteAt[i]],
     !.activeBytes = l.activeBytes + size,
     !.diskBytes = l.diskBytes + size,
     !.pending = l.pending + 1]

AppendRecord(l, size, segmentBytes) ==
  WriteRecord(IF MustRoll(l, segmentBytes) THEN RollSegment(l) ELSE l, size)

(***************************************************************************)
(* Reading and confirming.                                                 *)
(***************************************************************************)

(* `read_batch(max)` returned at least one record and p is the position    *)
(* behind the last of them: max records on from the cursor or the end of   *)
(* the log, in the segment that holds the last record.                     *)
ReadsUpTo(l, max, p) ==
  /\ max > 0
  /\ l.pending > 0
  /\ p.segment \in l.cursor.segment..l.active
  /\ p.offset > 0
  /\ IndexOf(l, p) <= EndOf(l, p.segment)
  /\ IndexOf(l, p) = IF IndexOf(l, l.cursor) + max <= l.tail
                       THEN IndexOf(l, l.cursor) + max
                       ELSE l.tail

(* The part of `commit` before the cursor file is written. *)
MoveCursor(l, p) ==
  [l EXCEPT !.cursor = p,
            !.pending = SaturatingSub(l.pending, CountBetween(l, l.cursor, p))]

SaveCursor(l) == [l EXCEPT !.saved = l.cursor]

(* Slips: the cursor's own segment counts as consumed, without and with    *)
(* the exception of the active one.                                        *)
HasObsoleteAll(l) == l.lo <= l.cursor.segment
HasObsoleteInclusive(l) == l.lo <= l.cursor.segment /\ l.lo # l.active

(* One iteration of `collect_consumed_segments`. *)
HasObsolete(l) == l.lo < l.cursor.segment /\ l.lo # l.active

RemoveObsolete(l) ==
  [l EXCEPT !.lo = l.lo + 1,
            !.diskBytes = SaturatingSub(l.diskBytes, BytesOf(l, l.lo))]

(* The whole of that loop: every segment before the cursor's goes. *)
CollectConsumed(l) ==
  IF HasObsolete(l)
    THEN [l EXCEPT
            !.lo = l.cursor.segment,
            !.diskBytes = SaturatingSub(l.diskBytes,
                            l.byteAt[l.first[l.cursor.segment]]
                              - l.byteAt[l.first[l.lo]])]
    ELSE l

(***************************************************************************)
(* Retention: `drop_oldest_segment` up to the cursor file.                 *)
(***************************************************************************)

Droppable(l) == l.lo # l.active

(* Slip: every record of the segment counts, read or not. *)
UnreadInWhole(l, s) ==
  IF l.cursor.segment > s THEN 0 ELSE EndOf(l, s) - l.first[s]

(* Only what was not confirmed yet counts as lost. *)
UnreadIn(l, s) ==
  IF l.cursor.segment > s THEN 0
  ELSE EndOf(l, s) - (IF l.cursor.segment = s THEN IndexOf(l, l.cursor)
                                              ELSE l.first[s])

DropOldest(l) ==
  LET unread == UnreadIn(l, l.lo) IN
  [l EXCEPT
     !.lo = l.lo + 1,
     !.diskBytes = SaturatingSub(l.diskBytes, BytesOf(l, l.lo)),
     !.pending = SaturatingSub(l.pending, unread),
     !.dropped = l.dropped + unread,
     !.cursor = ClampCursor(l.cursor, l.lo + 1)]

(***************************************************************************)
(* Well-formedness of a log value, kept by every function above.           *)
(***************************************************************************)

LogType(l) ==
  /\ DOMAIN l = {"lo", "active", "first", "tail", "byteAt", "cursor", "saved",
                 "pending", "diskBytes", "activeBytes", "dropped", "synced"}
  /\ l.lo \in Nat \ {0}
  /\ l.active \in Nat \ {0}
  /\ l.lo <= l.active
  /\ l.tail \in Nat
  /\ l.first \in [0..l.active -> Nat]
  /\ l.byteAt \in [0..l.tail -> Nat]
  /\ l.cursor \in Position
  /\ l.saved \in Position
  /\ l.synced \in 0..l.tail
  /\ l.pending \in Nat
  /\ l.diskBytes \in Nat
  /\ l.activeBytes \in Nat
  /\ l.dropped \in Nat

(* Segments follow each other, and all but the active one are synced. *)
Segmented(l) ==
  /\ \A s, t \in 0..l.active : s <= t => l.first[s] <= l.first[t]
  /\ \A i, j \in 0..l.tail : i <= j => l.byteAt[i] <= l.byteAt[j]
  /\ l.first[l.active] <= l.synced

(* A position that lies in, or just behind, a segment that existed. *)
InLog(l, p) ==
  /\ p.segment <= l.active
  /\ IndexOf(l, p) <= EndOf(l, p.segment)

(* The cursor file never runs ahead of the cursor, the cursor never ahead  *)
(* of what is synced, and the cursor points into a file that exists.       *)
CursorsOrdered(l) ==
  /\ InLog(l, l.cursor)
  /\ InLog(l, l.saved)
  /\ l.lo <= l.cursor.segment
  /\ ~Before(l.cursor, l.saved)
  /\ IndexOf(l, l.cursor) <= l.synced

CountersExact(l) ==
  /\ l.pending = l.tail - IndexOf(l, l.cursor)
  /\ l.diskBytes = l.byteAt[l.tail] - l.byteAt[l.first[l.lo]]
  /\ l.activeBytes = l.byteAt[l.tail] - l.byteAt[l.first[l.active]]

LogInv(l) ==
  /\ LogType(l)
  /\ Segmented(l)
  /\ CursorsOrdered(l)
  /\ CountersExact(l)

=============================================================================
