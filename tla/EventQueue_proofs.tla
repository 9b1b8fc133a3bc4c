------------------------- MODULE EventQueue_proofs --------------------------
(***************************************************************************)
(* Proofs about the event queue (module EventQueue), for every set of      *)
(* configurations a start may bring, every set of record sizes, every size *)
(* of a batch and any number of records: each of the three logs keeps its  *)
(* invariant and the contract of DurableQueue, the files stay within the   *)
(* enforced limit, important events are read first and given up last, and  *)
(* only large records can make a full queue refuse an event.               *)
(*                                                                         *)
(* A step of the queue is a step of a method of SegmentedLog on each log.  *)
(* What a method does to one log value is therefore proved once, from the  *)
(* lemmas of WalLog_proofs, as a step of the contract (Contract) that      *)
(* keeps LogInv; the actions of the queue only say which log takes which.  *)
(***************************************************************************)
EXTENDS EventQueue, WalLog_proofs

-----------------------------------------------------------------------------
(* What the methods do to one log value.                                   *)

HeadIn(l) == IndexOf(l, l.cursor)
SavedIn(l) == IndexOf(l, l.saved)

Appends(l, m) ==
  /\ m.tail = l.tail + 1 /\ m.synced \in {l.synced, l.tail}
  /\ HeadIn(m) = HeadIn(l) /\ SavedIn(m) = SavedIn(l)

Syncs(l, m) ==
  /\ m.tail = l.tail /\ m.synced = l.tail
  /\ HeadIn(m) = HeadIn(l) /\ SavedIn(m) = SavedIn(l)

Releases(l, m) ==
  /\ m.tail = l.tail /\ m.synced = l.synced
  /\ HeadIn(m) > HeadIn(l) /\ HeadIn(m) <= l.synced
  /\ SavedIn(m) \in {SavedIn(l), HeadIn(m)}

Persists(l, m) ==
  /\ m.tail = l.tail /\ m.synced = l.synced
  /\ HeadIn(m) = HeadIn(l) /\ SavedIn(m) = HeadIn(l)

Reopens(l, m) ==
  /\ m.tail \in l.synced..l.tail /\ m.synced \in l.synced..m.tail
  /\ HeadIn(m) \in SavedIn(l)..HeadIn(l) /\ SavedIn(m) = SavedIn(l)

Stutters(l, m) ==
  /\ m.tail = l.tail /\ m.synced = l.synced
  /\ HeadIn(m) = HeadIn(l) /\ SavedIn(m) = SavedIn(l)

(* A step of the log is a step of DurableQueue or none.                    *)
Contract(l, m) ==
  \/ Appends(l, m) \/ Syncs(l, m) \/ Releases(l, m) \/ Persists(l, m)
  \/ Reopens(l, m) \/ Stutters(l, m)

(* The records and the segments they lie in are the same; files may have   *)
(* been removed.                                                           *)
Kept(l, m) ==
  /\ m.active = l.active /\ m.first = l.first
  /\ m.tail = l.tail /\ m.byteAt = l.byteAt
  /\ m.diskBytes <= l.diskBytes

(* The abstract state a log value stands for.                              *)
LEMMA HeadFacts ==
  ASSUME NEW l, LogInv(l)
  PROVE  /\ HeadIn(l) \in Nat /\ SavedIn(l) \in Nat
         /\ SavedIn(l) <= HeadIn(l) /\ HeadIn(l) <= l.synced
         /\ l.synced \in Nat /\ l.tail \in Nat /\ l.synced <= l.tail
  <1>1. LogType(l) /\ Segmented(l) /\ CursorsOrdered(l)
    BY DEF LogInv
  <1>2. /\ l.cursor \in Position /\ InLog(l, l.cursor)
        /\ l.saved \in Position /\ InLog(l, l.saved)
        /\ IndexOf(l, l.cursor) \in Nat
        /\ IndexOf(l, l.cursor) <= l.synced
        /\ l.synced \in Nat /\ l.tail \in Nat /\ l.synced <= l.tail
    BY CursorFacts
  <1>3. IndexOf(l, l.saved) \in Nat
    BY <1>1, <1>2, IndexType DEF InLog
  <1>4. IndexOf(l, l.saved) <= IndexOf(l, l.cursor)
    BY <1>1, <1>2, BeforeIndex DEF CursorsOrdered
  <1>5. QED
    BY <1>2, <1>3, <1>4 DEF HeadIn, SavedIn

(* Where positions of a log lead is a matter of its first records.         *)
LEMMA SamePositions ==
  ASSUME NEW l, NEW m, m.first = l.first, m.active = l.active,
         m.tail = l.tail, NEW p
  PROVE  IndexOf(m, p) = IndexOf(l, p) /\ (InLog(m, p) <=> InLog(l, p))
  BY DEF IndexOf, EndOf, InLog

(* Nothing that leaves the records in place costs a position.              *)
LEMMA UnchangedStep ==
  ASSUME NEW l, LogInv(l)
  PROVE  Contract(l, l) /\ Kept(l, l)
  BY DEF Contract, Stutters, Kept, LogInv, LogType

(* `flush` *)
LEMMA FlushStep ==
  ASSUME NEW l, LogInv(l)
  PROVE  /\ LogInv(Flush(l)) /\ Contract(l, Flush(l)) /\ Kept(l, Flush(l))
         /\ Flush(l).dropped = l.dropped
  <1> DEFINE m == Flush(l)
  <1>1. LogType(l) /\ LogInv(m) /\ l.diskBytes \in Nat
    BY FlushInv DEF LogInv, LogType
  <1>2. /\ m.active = l.active /\ m.first = l.first /\ m.tail = l.tail
        /\ m.byteAt = l.byteAt /\ m.cursor = l.cursor
        /\ m.saved = l.saved /\ m.diskBytes = l.diskBytes
        /\ m.dropped = l.dropped /\ m.synced = l.tail
    BY <1>1, FlushFields
  <1> HIDE DEF m
  <1>3. Syncs(l, m)
    BY <1>2, SamePositions DEF Syncs, HeadIn, SavedIn
  <1>4. Kept(l, m)
    BY <1>1, <1>2 DEF Kept
  <1>5. QED
    BY <1>1, <1>2, <1>3, <1>4 DEF Contract, m

(* Collecting consumed segments only removes files.                        *)
LEMMA CollectConsumedFields ==
  ASSUME NEW l, LogInv(l)
  PROVE  /\ CollectConsumed(l).active = l.active
         /\ CollectConsumed(l).first = l.first
         /\ CollectConsumed(l).tail = l.tail
         /\ CollectConsumed(l).byteAt = l.byteAt
         /\ CollectConsumed(l).cursor = l.cursor
         /\ CollectConsumed(l).saved = l.saved
         /\ CollectConsumed(l).dropped = l.dropped
         /\ CollectConsumed(l).synced = l.synced
         /\ CollectConsumed(l).diskBytes <= l.diskBytes
  <1>1. LogType(l) /\ CursorsOrdered(l) /\ l.diskBytes \in Nat
    BY DEF LogInv, LogType
  <1>2. CASE ~HasObsolete(l)
    BY <1>1, <1>2 DEF CollectConsumed
  <1>3. CASE HasObsolete(l)
    <2> DEFINE m == CollectConsumed(l)
               s == l.cursor.segment
               d == l.byteAt[l.first[s]] - l.byteAt[l.first[l.lo]]
    <2>1. /\ m.active = l.active /\ m.first = l.first /\ m.tail = l.tail
          /\ m.byteAt = l.byteAt /\ m.cursor = l.cursor
          /\ m.saved = l.saved /\ m.dropped = l.dropped
          /\ m.synced = l.synced
          /\ m.diskBytes = SaturatingSub(l.diskBytes, d)
      BY <1>1, <1>3 DEF LogType, CollectConsumed
    <2>2. s \in l.lo..l.active
      BY <1>1 DEF LogType, Position, CursorsOrdered, InLog
    <2> HIDE DEF m, s
    <2>3. d \in Nat
      BY <2>2, BytesLeft
    <2> HIDE DEF d
    <2>4. SaturatingSub(l.diskBytes, d) <= l.diskBytes
      BY <1>1, <2>3 DEF SaturatingSub
    <2>5. QED
      BY <2>1, <2>4 DEF m
  <1>4. QED
    BY <1>2, <1>3

(* Whatever moves the cursor forward, and perhaps writes it to its file.   *)
LEMMA CursorStep ==
  ASSUME NEW l, NEW m, LogInv(l), LogInv(m), m.first = l.first,
         m.tail = l.tail, m.synced = l.synced,
         HeadIn(l) <= HeadIn(m),
         m.saved = l.saved \/ m.saved = m.cursor
  PROVE  Contract(l, m)
  <1>1. /\ HeadIn(l) \in Nat /\ HeadIn(m) \in Nat /\ HeadIn(m) <= l.synced
        /\ SavedIn(m) = SavedIn(l) \/ SavedIn(m) = HeadIn(m)
    BY HeadFacts DEF HeadIn, SavedIn, IndexOf
  <1>2. CASE HeadIn(m) > HeadIn(l)
    BY <1>1, <1>2 DEF Contract, Releases
  <1>3. CASE HeadIn(m) = HeadIn(l)
    BY <1>1, <1>3 DEF Contract, Persists, Stutters
  <1>4. QED
    BY <1>1, <1>2, <1>3

(* `commit` of one log, all of it or up to the error that leaves the       *)
(* cursor file as it was.                                                  *)
LEMMA CommitStep ==
  ASSUME NEW l, LogInv(l), NEW b \in Position, Before(l.cursor, b),
         InLog(l, b), IndexOf(l, b) <= l.synced,
         NEW m,
         \/ m = MoveCursor(l, b)
         \/ m = CollectConsumed(SaveCursor(MoveCursor(l, b)))
  PROVE  /\ LogInv(m) /\ Contract(l, m) /\ Kept(l, m)
         /\ m.dropped = l.dropped
  <1> DEFINE c == MoveCursor(l, b)
             s == SaveCursor(c)
             g == CollectConsumed(s)
  <1>1. LogType(l) /\ LogInv(c) /\ l.diskBytes \in Nat
    BY MoveCursorInv DEF LogInv, LogType
  <1>2. /\ c.active = l.active /\ c.first = l.first /\ c.tail = l.tail
        /\ c.byteAt = l.byteAt /\ c.cursor = b
        /\ c.saved = l.saved /\ c.diskBytes = l.diskBytes
        /\ c.dropped = l.dropped /\ c.synced = l.synced
    BY <1>1, MoveCursorFields
  <1>3. LogType(c)
    BY <1>1 DEF LogInv
  <1> HIDE DEF c
  <1>4. /\ s.active = c.active /\ s.first = c.first /\ s.tail = c.tail
        /\ s.byteAt = c.byteAt /\ s.cursor = c.cursor
        /\ s.saved = c.cursor /\ s.diskBytes = c.diskBytes
        /\ s.dropped = c.dropped /\ s.synced = c.synced
    BY <1>3, SaveCursorFields
  <1>5. LogInv(s)
    BY <1>1, SaveCursorInv
  <1> HIDE DEF s
  <1>6. LogInv(g)
    BY <1>5, CollectConsumedInv
  <1>7. /\ g.active = s.active /\ g.first = s.first /\ g.tail = s.tail
        /\ g.byteAt = s.byteAt /\ g.cursor = s.cursor
        /\ g.saved = s.saved /\ g.dropped = s.dropped
        /\ g.synced = s.synced
        /\ g.diskBytes <= s.diskBytes
    BY <1>5, CollectConsumedFields
  <1> HIDE DEF g
  <1>8. m = c \/ m = g
    BY DEF c, s, g
  <1>9. /\ LogInv(m) /\ m.first = l.first /\ m.tail = l.tail
        /\ m.synced = l.synced /\ m.cursor = b
        /\ m.active = l.active /\ m.byteAt = l.byteAt
        /\ m.dropped = l.dropped /\ m.diskBytes <= l.diskBytes
        /\ m.saved = l.saved \/ m.saved = m.cursor
    BY <1>1, <1>2, <1>4, <1>6, <1>7, <1>8
  <1>10. HeadIn(l) <= HeadIn(m)
    <2>1. /\ l.cursor \in Position /\ InLog(l, l.cursor)
          /\ Segmented(l)
      BY CursorFacts DEF LogInv
    <2>2. ~Before(b, l.cursor)
      BY <2>1 DEF Before, Position
    <2>3. IndexOf(l, l.cursor) <= IndexOf(l, b)
      BY <1>1, <2>1, <2>2, BeforeIndex
    <2>4. QED
      BY <1>9, <2>3 DEF HeadIn, IndexOf
  <1>11. Contract(l, m)
    BY <1>9, <1>10, CursorStep
  <1>12. QED
    BY <1>9, <1>11 DEF Kept

(* Retention of one log, with or without the cursor file after it.         *)
LEMMA EvictStep ==
  ASSUME NEW l, LogInv(l), Droppable(l),
         NEW m, m \in {DropOldest(l), SaveCursor(DropOldest(l))}
  PROVE  LogInv(m) /\ Contract(l, m) /\ Kept(l, m)
  <1> DEFINE d == DropOldest(l)
             c == ClampCursor(l.cursor, l.lo + 1)
             s == SaveCursor(d)
  <1>1. LogType(l) /\ LogInv(d) /\ l.diskBytes \in Nat
    BY DropOldestInv DEF LogInv, LogType
  <1>2. /\ d.active = l.active /\ d.first = l.first /\ d.tail = l.tail
        /\ d.byteAt = l.byteAt /\ d.cursor = c /\ d.saved = l.saved
        /\ d.diskBytes = SaturatingSub(l.diskBytes, BytesOf(l, l.lo))
        /\ d.synced = l.synced
    BY <1>1, DropOldestFields
  <1>3. /\ IndexOf(l, c) \in Nat /\ UnreadIn(l, l.lo) \in Nat
        /\ UnreadIn(l, l.lo) = IndexOf(l, c) - IndexOf(l, l.cursor)
        /\ IndexOf(l, l.cursor) \in Nat
    BY DropOldestCursor, CursorFacts
  <1>4. IndexOf(l, l.cursor) <= IndexOf(l, c)
    BY <1>3
  <1>5. LogType(d)
    BY <1>1 DEF LogInv
  <1> HIDE DEF d, c
  <1>6. d.diskBytes <= l.diskBytes
    <2>1. d.diskBytes \in Nat
      BY <1>5 DEF LogType
    <2>2. BytesOf(l, l.lo) \in Nat
      <3>1. LogType(l) /\ Segmented(l) /\ l.lo \in 0..l.active
        BY CursorFacts DEF LogInv
      <3>2. /\ l.first[l.lo] \in Nat /\ EndOf(l, l.lo) \in Nat
            /\ l.first[l.lo] <= EndOf(l, l.lo)
            /\ EndOf(l, l.lo) <= l.tail
        BY <3>1, EndOrder
      <3>3. /\ l.first[l.lo] \in 0..l.tail /\ EndOf(l, l.lo) \in 0..l.tail
        BY <1>1, <3>2 DEF LogType
      <3>4. l.byteAt[l.first[l.lo]] <= l.byteAt[EndOf(l, l.lo)]
        BY <3>1, <3>2, <3>3 DEF Segmented
      <3>5. /\ l.byteAt[l.first[l.lo]] \in Nat
            /\ l.byteAt[EndOf(l, l.lo)] \in Nat
        BY <1>1, <3>3 DEF LogType
      <3>6. QED
        BY <3>4, <3>5 DEF BytesOf
    <2>3. QED
      BY <1>1, <1>2, <2>1, <2>2 DEF SaturatingSub
  <1>7. /\ s.active = d.active /\ s.first = d.first /\ s.tail = d.tail
        /\ s.byteAt = d.byteAt /\ s.cursor = d.cursor
        /\ s.saved = d.cursor /\ s.diskBytes = d.diskBytes
        /\ s.synced = d.synced
    BY <1>5, SaveCursorFields
  <1>8. LogInv(s)
    BY <1>1, SaveCursorInv
  <1> HIDE DEF s
  <1>9. m = d \/ m = s
    BY DEF d, s
  <1>10. /\ LogInv(m) /\ m.first = l.first /\ m.tail = l.tail
         /\ m.synced = l.synced /\ m.cursor = c
         /\ m.active = l.active /\ m.byteAt = l.byteAt
         /\ m.diskBytes <= l.diskBytes
         /\ m.saved = l.saved \/ m.saved = m.cursor
    BY <1>1, <1>2, <1>6, <1>7, <1>8, <1>9
  <1>11. HeadIn(l) <= HeadIn(m)
    BY <1>4, <1>10 DEF HeadIn, IndexOf
  <1>12. Contract(l, m)
    BY <1>10, <1>11, CursorStep
  <1>13. QED
    BY <1>10, <1>12 DEF Kept

(* A record goes into the active segment only while that segment holds     *)
(* fewer bytes than a segment may.                                         *)
Filled(l, segmentBytes) ==
  \A i \in l.first[l.active]..(l.tail - 1) :
    l.byteAt[i] - l.byteAt[l.first[l.active]] < segmentBytes

(* `append` *)
LEMMA AppendStep ==
  ASSUME NEW l, LogInv(l), NEW size \in Nat, NEW segmentBytes \in Nat \ {0}
  PROVE  LET m == AppendRecord(l, size, segmentBytes) IN
         /\ LogInv(m) /\ Contract(l, m)
         /\ m.diskBytes = l.diskBytes + size
         /\ m.dropped = l.dropped
         /\ Filled(l, segmentBytes) => Filled(m, segmentBytes)
  <1> DEFINE r == IF MustRoll(l, segmentBytes) THEN RollSegment(l) ELSE l
             m == WriteRecord(r, size)
  <1>1. AppendRecord(l, size, segmentBytes) = m
    BY DEF AppendRecord
  <1>2. /\ LogInv(m)
        /\ \A p \in Position : InLog(l, p) => IndexOf(m, p) = IndexOf(l, p)
        /\ m.cursor = l.cursor /\ m.saved = l.saved
        /\ m.tail = l.tail + 1 /\ m.synced \in {l.synced, l.tail}
    BY <1>1, AppendInv
  <1>3. /\ l.cursor \in Position /\ InLog(l, l.cursor)
        /\ l.saved \in Position /\ InLog(l, l.saved)
        /\ LogType(l) /\ CountersExact(l)
    BY CursorFacts DEF LogInv
  <1>4. Appends(l, m)
    <2> HIDE DEF m
    <2>1. QED
      BY <1>2, <1>3 DEF Appends, HeadIn, SavedIn
  <1>5. /\ LogInv(r) /\ LogType(r)
        /\ r.diskBytes = l.diskBytes /\ r.dropped = l.dropped
        /\ r.tail = l.tail /\ r.activeBytes < segmentBytes
        /\ Filled(l, segmentBytes) => Filled(r, segmentBytes)
    <2>1. CASE MustRoll(l, segmentBytes)
      <3> DEFINE n == RollSegment(l)
      <3>1. LogInv(n)
        BY RollInv
      <3>2. /\ n.diskBytes = l.diskBytes /\ n.dropped = l.dropped
            /\ n.tail = l.tail /\ n.activeBytes = 0
            /\ n.active = l.active + 1
            /\ n.first = [s \in 0..(l.active + 1) |->
                            IF s = l.active + 1 THEN l.tail ELSE l.first[s]]
        BY <1>3, RollFields
      <3> HIDE DEF n
      <3>3. l.active \in Nat /\ l.tail \in Nat
        BY <1>3 DEF LogType
      <3>4. n.first[n.active] = l.tail
        BY <3>2, <3>3
      <3>5. Filled(n, segmentBytes)
        BY <3>2, <3>3, <3>4 DEF Filled
      <3>6. r = n
        BY <2>1 DEF n
      <3>7. QED
        BY <3>1, <3>2, <3>5, <3>6 DEF LogInv
    <2>2. CASE ~MustRoll(l, segmentBytes)
      <3>1. l.activeBytes < segmentBytes
        BY <1>3, <2>2 DEF MustRoll, LogType
      <3>2. QED
        BY <1>3, <2>2, <3>1 DEF LogInv
    <2>3. QED
      BY <2>1, <2>2
  <1> HIDE DEF r
  <1>6. /\ m.first = r.first /\ m.active = r.active
        /\ m.diskBytes = r.diskBytes + size /\ m.dropped = r.dropped
        /\ m.byteAt = [i \in 0..(r.tail + 1) |->
                         IF i = r.tail + 1 THEN r.byteAt[r.tail] + size
                                           ELSE r.byteAt[i]]
    BY <1>5, WriteFields
  <1> HIDE DEF m
  <1>7. ASSUME Filled(l, segmentBytes)
        PROVE  Filled(m, segmentBytes)
    <2> DEFINE f == r.first[r.active]
    <2>1. /\ f \in Nat /\ r.tail \in Nat /\ f <= r.tail
          /\ r.activeBytes = r.byteAt[r.tail] - r.byteAt[f]
      <3>1. Segmented(r) /\ CountersExact(r)
        BY <1>5 DEF LogInv
      <3>2. f \in Nat /\ r.tail \in Nat /\ r.synced \in 0..r.tail
        BY <1>5 DEF LogType
      <3>3. f <= r.synced
        BY <3>1 DEF Segmented
      <3>4. r.activeBytes = r.byteAt[r.tail] - r.byteAt[f]
        BY <3>1 DEF CountersExact
      <3>5. QED
        BY <3>2, <3>3, <3>4
    <2>2. m.first[m.active] = f
      BY <1>6
    <2> HIDE DEF f
    <2>3. ASSUME NEW i \in f..(m.tail - 1)
          PROVE  m.byteAt[i] - m.byteAt[f] < segmentBytes
      <3>1. /\ i \in 0..(r.tail + 1) /\ i # r.tail + 1
            /\ f \in 0..(r.tail + 1) /\ f # r.tail + 1
        BY <1>2, <1>5, <2>1
      <3>2. m.byteAt[i] = r.byteAt[i] /\ m.byteAt[f] = r.byteAt[f]
        BY <1>6, <3>1
      <3>3. CASE i = r.tail
        BY <1>5, <2>1, <3>2, <3>3
      <3>4. CASE i # r.tail
        <4>1. i \in f..(r.tail - 1)
          BY <1>2, <1>5, <2>1, <3>4
        <4>2. QED
          BY <1>5, <1>7, <3>2, <4>1 DEF Filled, f
      <3>5. QED
        BY <3>3, <3>4
    <2>4. QED
      BY <2>2, <2>3 DEF Filled
  <1>8. QED
    BY <1>1, <1>2, <1>4, <1>5, <1>6, <1>7 DEF Contract

(* What `open` finds is a log again: it resumes between the position in    *)
(* the cursor file and the one in memory when the process stopped.         *)
LEMMA OpenStep ==
  ASSUME NEW l, LogInv(l), NEW m \in Reopened(l)
  PROVE  /\ LogInv(m) /\ Contract(l, m) /\ m.dropped = 0
         /\ \A n : Filled(l, n) => Filled(m, n)
  <1>1. PICK t \in l.synced..l.tail : m = OpenLog(l, l.lo, l.active, t)
    BY DEF Reopened
  <1> DEFINE c == ClampCursor(l.saved, l.lo)
  <1>2. LogType(l) /\ Segmented(l) /\ CursorsOrdered(l)
    BY DEF LogInv
  <1>3. Recoverable(l, l.lo, l.active, t)
    BY <1>2 DEF Recoverable, LogType, CursorsOrdered, InLog
  <1>4. /\ LogInv(m)
        /\ \A p \in Position :
             InLog(l, p) /\ p.segment <= l.active =>
               IndexOf(m, p) = IndexOf(l, p)
    BY <1>1, <1>3, OpenInv
  <1>5. /\ m.active = l.active /\ m.tail = t /\ m.synced = l.synced
        /\ m.first = [s \in 0..l.active |-> l.first[s]]
        /\ m.byteAt = [i \in 0..t |-> l.byteAt[i]]
        /\ m.cursor = c /\ m.saved = l.saved /\ m.dropped = 0
    BY <1>1 DEF OpenLog
  <1>6. /\ c \in Position /\ InLog(l, c) /\ c.segment <= l.active
        /\ ~Before(c, l.saved) /\ IndexOf(l, c) \in Nat
        /\ IndexOf(l, l.saved) <= IndexOf(l, c)
    BY <1>3, OpenCursor
  <1>7. /\ l.cursor \in Position /\ InLog(l, l.cursor)
        /\ l.saved \in Position /\ InLog(l, l.saved)
        /\ l.synced \in Nat /\ l.tail \in Nat
    BY CursorFacts
  <1>8. ~Before(l.cursor, c)
    <2>1. /\ l.lo \in Nat /\ l.cursor.segment \in Nat
          /\ l.cursor.offset \in Nat /\ l.saved.segment \in Nat
          /\ l.lo <= l.cursor.segment /\ ~Before(l.cursor, l.saved)
      BY <1>2, <1>7 DEF LogType, CursorsOrdered, Position
    <2>2. CASE l.saved.segment < l.lo
      <3>1. c = [segment |-> l.lo, offset |-> 0]
        BY <2>2 DEF ClampCursor
      <3> HIDE DEF c
      <3>2. QED
        BY <2>1, <3>1 DEF Before
    <2>3. CASE ~(l.saved.segment < l.lo)
      <3>1. c = l.saved
        BY <2>3 DEF ClampCursor
      <3> HIDE DEF c
      <3>2. QED
        BY <2>1, <3>1
    <2>4. QED
      BY <2>2, <2>3
  <1> HIDE DEF c
  <1>9. IndexOf(l, c) <= IndexOf(l, l.cursor)
    BY <1>2, <1>6, <1>7, <1>8, BeforeIndex
  <1>10. /\ IndexOf(m, c) = IndexOf(l, c)
         /\ IndexOf(m, l.saved) = IndexOf(l, l.saved)
    BY <1>4, <1>6, <1>7 DEF InLog
  <1>11. SavedIn(l) \in Nat /\ HeadIn(l) \in Nat
    BY HeadFacts
  <1>12. Reopens(l, m)
    BY <1>5, <1>6, <1>7, <1>9, <1>10, <1>11 DEF Reopens, HeadIn, SavedIn
  <1>13. ASSUME NEW n, Filled(l, n)
         PROVE  Filled(m, n)
    <2> DEFINE f == l.first[l.active]
    <2>1. /\ m.first[m.active] = f /\ f \in Nat
      BY <1>2, <1>5 DEF LogType
    <2>2. f <= t
      BY <1>2, <1>7, <2>1 DEF Segmented
    <2> HIDE DEF f
    <2>3. ASSUME NEW i \in f..(t - 1)
          PROVE  m.byteAt[i] - m.byteAt[f] < n
      <3>1. i \in 0..t /\ f \in 0..t /\ i \in f..(l.tail - 1)
        BY <1>7, <2>1, <2>2
      <3>2. m.byteAt[i] = l.byteAt[i] /\ m.byteAt[f] = l.byteAt[f]
        BY <1>5, <3>1
      <3>3. QED
        BY <1>13, <3>1, <3>2 DEF Filled, f
    <2>4. QED
      BY <1>5, <2>1, <2>3 DEF Filled
  <1>14. QED
    BY <1>4, <1>5, <1>12, <1>13 DEF Contract

-----------------------------------------------------------------------------
(* The inductive invariant.                                                *)

(* A batch in the uploader's hands ends at synced records of these logs,   *)
(* so that it can be confirmed.                                            *)
BatchSynced ==
  \A p \in Priority :
    batch[p] # NoPosition =>
      InLog(logs[p], batch[p]) /\ IndexOf(logs[p], batch[p]) <= logs[p].synced

(* The uploader is busy with one thing at a time.                          *)
OneAtATime == incoming = NoEvent \/ batch = NoBatch

(* WithinLimit, on the counters the queue itself goes by.                  *)
CountedWithinLimit == pushed => DiskBytes <= EffectiveLimit(config)

IInv ==
  /\ TypeOK
  /\ DOMAIN logs = Priority
  /\ LogsConsistent
  /\ BatchSynced
  /\ OneAtATime
  /\ ImportantFirst
  /\ CountedWithinLimit

(* Every log takes a step of the contract.                                 *)
LogsMove ==
  /\ DOMAIN logs' = Priority
  /\ \A p \in Priority :
       LogInv(logs'[p]) /\ Contract(logs[p], logs'[p])

LogsKept == \A p \in Priority : Kept(logs[p], logs'[p])

DroppedKept == \A p \in Priority : logs'[p].dropped = logs[p].dropped

LEMMA PrioritiesNamed ==
  /\ "bulk" \in Priority /\ "standard" \in Priority
  /\ "critical" \in Priority
  /\ \A p \in Priority : p = "bulk" \/ p = "standard" \/ p = "critical"
  BY DEF Priority

LEMMA DiskBytesCounted ==
  ASSUME \A p \in Priority : LogInv(logs[p])
  PROVE  /\ \A p \in Priority : logs[p].diskBytes \in Nat
         /\ DiskBytes \in Nat
  <1>1. \A p \in Priority : logs[p].diskBytes \in Nat
    BY DEF LogInv, LogType
  <1>2. QED
    BY <1>1, PrioritiesNamed DEF DiskBytes

LEMMA LimitTyped ==
  ASSUME NEW c \in Config
  PROVE  /\ EffectiveLimit(c) \in Nat
         /\ c.segmentBytes \in Nat \ {0}
         /\ 6 * c.segmentBytes <= EffectiveLimit(c)
  <1>1. c.maxDiskBytes \in Nat /\ c.segmentBytes \in Nat \ {0}
    BY ConfigAssumption
  <1>2. QED
    BY <1>1 DEF EffectiveLimit

(* Unless a record is added, the logs do not grow.                         *)
LEMMA DiskBytesKept ==
  ASSUME IInv, LogsMove, LogsKept
  PROVE  DiskBytes \in Nat /\ DiskBytes' \in Nat /\ DiskBytes' <= DiskBytes
  <1>1. \A p \in Priority :
          /\ logs[p].diskBytes \in Nat /\ logs'[p].diskBytes \in Nat
          /\ logs'[p].diskBytes <= logs[p].diskBytes
    BY DEF IInv, LogsConsistent, LogsMove, LogsKept, Kept, LogInv, LogType
  <1>2. QED
    BY <1>1, PrioritiesNamed DEF DiskBytes

-----------------------------------------------------------------------------
(* What each action does to the logs.                                      *)

LEMMA FlushesMove ==
  ASSUME IInv, DOMAIN logs' = Priority,
         \A p \in Priority :
           logs'[p] = logs[p] \/ logs'[p] = Flush(logs[p])
  PROVE  LogsMove /\ LogsKept /\ DroppedKept
  <1>1. \A p \in Priority : LogInv(logs[p])
    BY DEF IInv, LogsConsistent
  <1>2. QED
    BY <1>1, UnchangedStep, FlushStep DEF LogsMove, LogsKept, DroppedKept

LEMMA QuietMoves ==
  ASSUME IInv, logs' = logs
  PROVE  LogsMove /\ LogsKept /\ DroppedKept
  BY FlushesMove DEF IInv

LEMMA EvictMoves ==
  ASSUME IInv, Evict \/ EvictFails
  PROVE  LogsMove /\ LogsKept
  <1>1. \A p \in Priority : LogInv(logs[p])
    BY DEF IInv, LogsConsistent
  <1>2. CASE logs' = logs
    BY <1>2, QuietMoves
  <1>3. ASSUME NEW p \in Priority, Droppable(logs[p]),
               NEW m \in {DropOldest(logs[p]),
                         SaveCursor(DropOldest(logs[p]))},
               logs' = [logs EXCEPT ![p] = m]
        PROVE  LogsMove /\ LogsKept
    <2>1. LogInv(m) /\ Contract(logs[p], m) /\ Kept(logs[p], m)
      BY <1>1, <1>3, EvictStep
    <2>2. /\ DOMAIN logs' = Priority /\ logs'[p] = m
          /\ \A q \in Priority \ {p} : logs'[q] = logs[q]
      BY <1>3 DEF IInv
    <2>3. \A q \in Priority :
            /\ LogInv(logs'[q]) /\ Contract(logs[q], logs'[q])
            /\ Kept(logs[q], logs'[q])
      BY <1>1, <2>1, <2>2, UnchangedStep
    <2>4. QED
      BY <2>2, <2>3 DEF LogsMove, LogsKept
  <1>4. CASE Evict
    <2>1. PICK p \in Priority :
            /\ Droppable(logs[p])
            /\ logs' = [logs EXCEPT ![p] = SaveCursor(DropOldest(logs[p]))]
      BY <1>4 DEF Evict, Victim
    <2>2. QED
      BY <1>3, <2>1
  <1>5. CASE EvictFails
    <2>1. PICK p \in Priority :
            /\ Droppable(logs[p])
            /\ \/ logs' = logs
               \/ logs' = [logs EXCEPT ![p] = DropOldest(logs[p])]
      BY <1>5 DEF EvictFails, Victim
    <2>2. QED
      BY <1>2, <1>3, <2>1
  <1>6. QED
    BY <1>4, <1>5

LEMMA StoreMoves ==
  ASSUME IInv, Store
  PROVE  /\ LogsMove /\ DroppedKept
         /\ DiskBytes' = DiskBytes + incoming.size
         /\ \A p \in Priority :
              Filled(logs[p], config.segmentBytes)
                => Filled(logs'[p], config.segmentBytes)
  <1> DEFINE p == incoming.priority
             m == AppendRecord(logs[p], incoming.size, config.segmentBytes)
  <1>1. \A q \in Priority : LogInv(logs[q])
    BY DEF IInv, LogsConsistent
  <1>2. incoming # NoEvent /\ logs' = [logs EXCEPT ![p] = m]
    BY DEF Store
  <1>3. p \in Priority /\ incoming.size \in Nat \ {0}
    BY <1>2 DEF IInv, TypeOK
  <1>4. config.segmentBytes \in Nat \ {0}
    BY LimitTyped DEF IInv, TypeOK
  <1>5. /\ LogInv(m) /\ Contract(logs[p], m)
        /\ m.diskBytes = logs[p].diskBytes + incoming.size
        /\ m.dropped = logs[p].dropped
        /\ Filled(logs[p], config.segmentBytes)
             => Filled(m, config.segmentBytes)
    BY <1>1, <1>3, <1>4, AppendStep
  <1> HIDE DEF m
  <1>6. /\ DOMAIN logs' = Priority /\ logs'[p] = m
        /\ \A q \in Priority \ {p} : logs'[q] = logs[q]
    BY <1>2, <1>3 DEF IInv
  <1>7. LogsMove /\ DroppedKept
    BY <1>1, <1>5, <1>6, UnchangedStep DEF LogsMove, DroppedKept
  <1>8. DiskBytes' = DiskBytes + incoming.size
    <2>1. \A q \in Priority : logs[q].diskBytes \in Nat
      BY <1>1, DiskBytesCounted
    <2>2. logs'[p].diskBytes = logs[p].diskBytes + incoming.size
      BY <1>5, <1>6
    <2>3. QED
      BY <1>3, <1>6, <2>1, <2>2, PrioritiesNamed DEF DiskBytes
  <1>9. QED
    BY <1>5, <1>6, <1>7, <1>8

LEMMA StoreFailsMoves ==
  ASSUME IInv, StoreFails
  PROVE  LogsMove /\ LogsKept /\ DroppedKept
  <1> DEFINE p == incoming.priority
  <1>1. p \in Priority
    BY DEF StoreFails, IInv, TypeOK
  <1>2. logs' = logs \/ logs' = [logs EXCEPT ![p] = Flush(logs[p])]
    BY DEF StoreFails
  <1>3. /\ DOMAIN logs' = Priority
        /\ \A q \in Priority :
             logs'[q] = logs[q] \/ logs'[q] = Flush(logs[q])
    BY <1>1, <1>2 DEF IInv
  <1>4. QED
    BY <1>3, FlushesMove

LEMMA FlushAllMoves ==
  ASSUME IInv, FlushAll \/ \E max \in 1..MaxBatch : ReadBatch(max)
  PROVE  LogsMove /\ LogsKept /\ DroppedKept
  <1>1. /\ DOMAIN logs' = Priority
        /\ \A q \in Priority :
             logs'[q] = logs[q] \/ logs'[q] = Flush(logs[q])
    BY DEF FlushAll, ReadBatch
  <1>2. QED
    BY <1>1, FlushesMove

LEMMA CommitMoves ==
  ASSUME IInv, Commit \/ CommitFails
  PROVE  LogsMove /\ LogsKept /\ DroppedKept
  <1>1. \A p \in Priority : LogInv(logs[p]) /\ batch[p] \in Position
    BY DEF IInv, LogsConsistent, TypeOK
  <1>2. ASSUME NEW p \in Priority,
               NEW m, \/ m = logs[p]
                      \/ m = CommitLog(logs[p], batch[p])
                      \/ /\ Before(logs[p].cursor, batch[p])
                         /\ m = MoveCursor(logs[p], batch[p])
        PROVE  /\ LogInv(m) /\ Contract(logs[p], m) /\ Kept(logs[p], m)
               /\ m.dropped = logs[p].dropped
    <2>1. CASE m = logs[p]
      BY <1>1, <2>1, UnchangedStep
    <2>2. CASE Before(logs[p].cursor, batch[p])
      <3>1. logs[p].cursor \in Position
        BY <1>1, CursorFacts
      <3>2. batch[p] # NoPosition
        BY <2>2, <3>1 DEF Before, NoPosition, Position
      <3>3. /\ InLog(logs[p], batch[p])
            /\ IndexOf(logs[p], batch[p]) <= logs[p].synced
        BY <3>2 DEF IInv, BatchSynced
      <3>4. \/ m = MoveCursor(logs[p], batch[p])
            \/ m = CollectConsumed(SaveCursor(MoveCursor(logs[p], batch[p])))
            \/ m = logs[p]
        BY <1>2, <2>2 DEF CommitLog
      <3>5. QED
        BY <1>1, <2>1, <2>2, <3>3, <3>4, CommitStep
    <2>3. CASE ~Before(logs[p].cursor, batch[p])
      BY <1>2, <2>1, <2>3 DEF CommitLog
    <2>4. QED
      BY <2>2, <2>3
  <1>3. DOMAIN logs' = Priority
    BY DEF Commit, CommitFails
  <1>4. ASSUME NEW p \in Priority
        PROVE  \/ logs'[p] = logs[p]
               \/ logs'[p] = CommitLog(logs[p], batch[p])
               \/ /\ Before(logs[p].cursor, batch[p])
                  /\ logs'[p] = MoveCursor(logs[p], batch[p])
    <2>1. CASE Commit
      BY <2>1 DEF Commit
    <2>2. CASE CommitFails
      BY <2>2 DEF CommitFails
    <2>3. QED
      BY <2>1, <2>2
  <1>5. QED
    BY <1>2, <1>3, <1>4 DEF LogsMove, LogsKept, DroppedKept

LEMMA RestartMoves ==
  ASSUME IInv, Restart
  PROVE  /\ LogsMove
         /\ \A p \in Priority :
              /\ logs'[p].dropped = 0
              /\ \A n : Filled(logs[p], n) => Filled(logs'[p], n)
  <1>1. \A p \in Priority : LogInv(logs[p])
    BY DEF IInv, LogsConsistent
  <1>2. PICK b \in Reopened(logs["bulk"]), s \in Reopened(logs["standard"]),
             c \in Reopened(logs["critical"]) : logs' = PerPriority(b, s, c)
    BY DEF Restart
  <1>3. /\ DOMAIN logs' = Priority
        /\ logs'["bulk"] = b /\ logs'["standard"] = s
        /\ logs'["critical"] = c
    BY <1>2, PrioritiesNamed DEF PerPriority
  <1>4. \A p \in Priority : logs'[p] \in Reopened(logs[p])
    BY <1>3, PrioritiesNamed
  <1>5. QED
    BY <1>1, <1>3, <1>4, OpenStep DEF LogsMove

-----------------------------------------------------------------------------
(* Induction.                                                              *)

LEMMA InitHolds == Init => IInv
  <1> SUFFICES ASSUME Init PROVE IInv
    OBVIOUS
  <1>1. \A p \in Priority : logs[p] = EmptyLog
    BY DEF Init
  <1>2. LogsConsistent
    BY <1>1, EmptyLogInv DEF LogsConsistent
  <1>3. TypeOK
    <2>1. \A p \in Priority : LogType(logs[p])
      BY <1>2 DEF LogsConsistent, LogInv
    <2>2. NoPosition \in Position
      BY DEF NoPosition, Position
    <2>3. batch \in [Priority -> Position]
      BY <2>2 DEF Init, NoBatch
    <2>4. droppedTotal \in 0..MaxRefused
      BY MaxRefusedAssumption DEF Init
    <2>5. QED
      BY <2>1, <2>3, <2>4 DEF Init, TypeOK
  <1>4. \A p \in Priority : batch[p] = NoPosition
    BY DEF Init, NoBatch
  <1>5. BatchSynced /\ ImportantFirst
    BY <1>4 DEF BatchSynced, ImportantFirst
  <1>6. OneAtATime /\ CountedWithinLimit /\ DOMAIN logs = Priority
    BY DEF Init, OneAtATime, CountedWithinLimit
  <1>7. QED
    BY <1>2, <1>3, <1>5, <1>6 DEF IInv

(* The state after a step that leaves no batch behind.                     *)
LEMMA NoBatchKeeps ==
  ASSUME IInv, LogsMove, batch' = NoBatch,
         config' \in Config, droppedTotal' \in 0..MaxRefused,
         incoming' \in {NoEvent} \cup [priority : Priority, size : Nat \ {0}],
         pushed' \in BOOLEAN, CountedWithinLimit'
  PROVE  IInv'
  <1>1. \A p \in Priority : batch'[p] = NoPosition
    BY DEF NoBatch
  <1>2. batch' \in [Priority -> Position]
    <2>1. NoPosition \in Position
      BY DEF NoPosition, Position
    <2>2. QED
      BY <2>1 DEF NoBatch
  <1>3. LogsConsistent' /\ DOMAIN logs' = Priority
    BY DEF LogsMove, LogsConsistent
  <1>4. TypeOK'
    BY <1>2, <1>3 DEF TypeOK, LogsConsistent, LogInv
  <1>5. BatchSynced' /\ ImportantFirst'
    BY <1>1 DEF BatchSynced, ImportantFirst
  <1>6. OneAtATime'
    BY DEF OneAtATime
  <1>7. QED
    BY <1>3, <1>4, <1>5, <1>6 DEF IInv

(* A push leaves no batch behind, and whatever fails or is refused leaves  *)
(* no more bytes than there were.                                          *)
LEMMA PushKeeps ==
  ASSUME IInv,
         \/ \E p \in Priority : \E size \in Sizes[p] : Push(p, size)
         \/ Evict \/ EvictFails \/ Refuse \/ StoreFails
         \/ Commit \/ CommitFails \/ GiveUp
  PROVE  IInv'
  <1>1. LogsMove /\ LogsKept
    <2>1. CASE Evict \/ EvictFails
      BY <2>1, EvictMoves
    <2>2. CASE StoreFails
      BY <2>2, StoreFailsMoves
    <2>3. CASE Commit \/ CommitFails
      BY <2>3, CommitMoves
    <2>4. CASE \/ \E p \in Priority : \E size \in Sizes[p] : Push(p, size)
               \/ Refuse \/ GiveUp
      <3>1. logs' = logs
        BY <2>4 DEF Push, Refuse, GiveUp
      <3>2. QED
        BY <3>1, QuietMoves
    <2>5. QED
      BY <2>1, <2>2, <2>3, <2>4
  <1>2. batch' = NoBatch /\ config' = config /\ pushed' = pushed
    BY DEF Push, Evict, EvictFails, Refuse, StoreFails, Commit, CommitFails,
           GiveUp, IInv, OneAtATime
  <1>3. droppedTotal' \in 0..MaxRefused
    <2>1. CASE Refuse
      BY <2>1, MaxRefusedAssumption DEF Refuse, IInv, TypeOK
    <2>2. CASE ~Refuse
      BY <2>2 DEF Push, Evict, EvictFails, StoreFails, Commit, CommitFails,
                  GiveUp, IInv, TypeOK
    <2>3. QED
      BY <2>1, <2>2
  <1>4. incoming' \in {NoEvent} \cup [priority : Priority, size : Nat \ {0}]
    <2>1. CASE \E p \in Priority : \E size \in Sizes[p] : Push(p, size)
      <3>1. PICK p \in Priority : \E size \in Sizes[p] : Push(p, size)
        BY <2>1
      <3>2. PICK size \in Sizes[p] : Push(p, size)
        BY <3>1
      <3>3. size \in Nat \ {0}
        BY SizesAssumption
      <3>4. QED
        BY <3>2, <3>3 DEF Push
    <2>2. CASE incoming' = NoEvent \/ incoming' = incoming
      BY <2>2 DEF IInv, TypeOK
    <2>3. QED
      BY <2>1, <2>2 DEF Evict, EvictFails, Refuse, StoreFails, Commit,
                        CommitFails, GiveUp
  <1>5. CountedWithinLimit'
    <2>1. /\ DiskBytes \in Nat /\ DiskBytes' \in Nat
          /\ DiskBytes' <= DiskBytes
      BY <1>1, DiskBytesKept
    <2>2. EffectiveLimit(config) \in Nat
      BY LimitTyped DEF IInv, TypeOK
    <2>3. QED
      BY <1>2, <2>1, <2>2 DEF IInv, CountedWithinLimit
  <1>6. config' \in Config /\ pushed' \in BOOLEAN
    BY <1>2 DEF IInv, TypeOK
  <1>7. QED
    BY <1>1, <1>2, <1>3, <1>4, <1>5, <1>6, NoBatchKeeps

(* What is stored fits.                                                    *)
LEMMA StoreKeeps ==
  ASSUME IInv, Store
  PROVE  IInv'
  <1>1. LogsMove /\ DiskBytes' = DiskBytes + incoming.size
    BY StoreMoves
  <1>2. batch' = NoBatch
    BY DEF Store, IInv, OneAtATime
  <1>3. CountedWithinLimit'
    <2>1. EffectiveLimit(config) \in Nat /\ DiskBytes \in Nat
      BY LimitTyped, DiskBytesCounted DEF IInv, TypeOK, LogsConsistent
    <2>2. incoming.size \in Nat
      BY DEF Store, IInv, TypeOK
    <2>3. DiskBytes' <= EffectiveLimit(config)
      BY <1>1, <2>1, <2>2 DEF Store, OverLimit
    <2>4. QED
      BY <2>3 DEF CountedWithinLimit, Store
  <1>4. QED
    BY <1>1, <1>2, <1>3, NoBatchKeeps DEF Store, IInv, TypeOK

LEMMA RestartKeeps ==
  ASSUME IInv, Restart
  PROVE  IInv'
  <1>1. /\ batch' = NoBatch /\ config' \in Config /\ droppedTotal' = 0
        /\ incoming' = NoEvent /\ pushed' = FALSE
    BY DEF Restart
  <1>2. CountedWithinLimit'
    BY <1>1 DEF CountedWithinLimit
  <1>3. droppedTotal' \in 0..MaxRefused
    BY <1>1, MaxRefusedAssumption
  <1>4. QED
    BY <1>1, <1>2, <1>3, RestartMoves, NoBatchKeeps

(* The state after a step that only syncs logs and leaves the batch as it  *)
(* is.                                                                     *)
LEMMA FlushAllKeeps ==
  ASSUME IInv, FlushAll \/ UNCHANGED vars
  PROVE  IInv'
  <1>1. /\ DOMAIN logs' = Priority
        /\ \A p \in Priority :
             logs'[p] = logs[p] \/ logs'[p] = Flush(logs[p])
    BY DEF FlushAll, vars, IInv
  <1>2. UNCHANGED <<config, droppedTotal, incoming, batch, pushed>>
    BY DEF FlushAll, vars
  <1>3. LogsMove /\ LogsKept
    BY <1>1, FlushesMove
  <1>4. \A p \in Priority :
          /\ LogInv(logs[p]) /\ LogType(logs[p])
          /\ logs[p].synced \in Nat /\ logs[p].tail \in Nat
          /\ logs[p].synced <= logs[p].tail
    BY CursorFacts DEF IInv, LogsConsistent, LogInv
  <1>5. \A p \in Priority :
          /\ logs'[p].active = logs[p].active /\ logs'[p].first = logs[p].first
          /\ logs'[p].tail = logs[p].tail
          /\ logs'[p].pending = logs[p].pending
          /\ logs'[p].synced = logs[p].synced \/ logs'[p].synced = logs[p].tail
    BY <1>1, <1>4, FlushFields
  <1>6. \A p \in Priority : \A q :
          /\ IndexOf(logs'[p], q) = IndexOf(logs[p], q)
          /\ InLog(logs'[p], q) <=> InLog(logs[p], q)
    BY <1>5, SamePositions
  <1>7. LogsConsistent' /\ DOMAIN logs' = Priority
    BY <1>3 DEF LogsMove, LogsConsistent
  <1>8. TypeOK'
    BY <1>2, <1>7 DEF IInv, TypeOK, LogsConsistent, LogInv
  <1>9. BatchSynced'
    <2> SUFFICES ASSUME NEW p \in Priority, batch[p] # NoPosition
                 PROVE  /\ InLog(logs'[p], batch[p])
                        /\ IndexOf(logs'[p], batch[p]) <= logs'[p].synced
      BY <1>2 DEF BatchSynced
    <2>1. /\ InLog(logs[p], batch[p])
          /\ IndexOf(logs[p], batch[p]) <= logs[p].synced
          /\ batch[p] \in Position
      BY DEF IInv, BatchSynced, TypeOK
    <2>2. IndexOf(logs[p], batch[p]) \in Nat
      BY <1>4, <2>1, IndexType DEF InLog
    <2>3. QED
      BY <1>4, <1>5, <1>6, <2>1, <2>2
  <1>10. ImportantFirst'
    BY <1>2, <1>5, <1>6 DEF IInv, ImportantFirst
  <1>11. OneAtATime'
    BY <1>2 DEF IInv, OneAtATime
  <1>12. CountedWithinLimit'
    <2>1. /\ DiskBytes \in Nat /\ DiskBytes' \in Nat
          /\ DiskBytes' <= DiskBytes
      BY <1>3, DiskBytesKept
    <2>2. EffectiveLimit(config) \in Nat
      BY LimitTyped DEF IInv, TypeOK
    <2>3. QED
      BY <1>2, <2>1, <2>2 DEF IInv, CountedWithinLimit
  <1>13. QED
    BY <1>7, <1>8, <1>9, <1>10, <1>11, <1>12 DEF IInv

(* Where a read of one log ends.                                           *)
LEMMA EndFacts ==
  ASSUME NEW l, LogInv(l), NEW max \in Int, NEW e \in BatchEnds(l, max)
  PROVE  /\ e \in Position
         /\ max > 0 /\ l.pending > 0 => e # NoPosition
         /\ e # NoPosition =>
              /\ max > 0 /\ InLog(l, e)
              /\ IndexOf(l, e) \in Nat /\ IndexOf(l, e) <= l.tail
              /\ l.pending <= max => IndexOf(l, e) = l.tail
  <1>1. /\ LogType(l) /\ l.tail \in Nat /\ l.lo \in Nat /\ l.active \in Nat
        /\ HeadIn(l) \in Nat /\ l.pending = l.tail - HeadIn(l)
        /\ l.pending \in Nat
    BY CursorFacts DEF LogInv, LogType, HeadIn
  <1>2. CASE max <= 0 \/ l.pending = 0
    <2>1. e = NoPosition
      BY <1>2 DEF BatchEnds
    <2>2. QED
      BY <1>2, <2>1 DEF NoPosition, Position
  <1>3. CASE ~(max <= 0 \/ l.pending = 0)
    <2>1. /\ e \in [segment : l.lo..l.active, offset : 1..l.tail]
          /\ ReadsUpTo(l, max, e)
      BY <1>3 DEF BatchEnds
    <2>2. /\ e \in Position /\ e # NoPosition /\ e.segment <= l.active
      BY <1>1, <2>1 DEF Position, NoPosition
    <2>3. InLog(l, e)
      BY <2>1, <2>2 DEF ReadsUpTo, InLog
    <2>4. IndexOf(l, e) = IF HeadIn(l) + max <= l.tail THEN HeadIn(l) + max
                          ELSE l.tail
      BY <2>1 DEF ReadsUpTo, HeadIn
    <2>5. QED
      BY <1>1, <1>3, <2>2, <2>3, <2>4
  <1>4. QED
    BY <1>2, <1>3

(* A batch is cut from the more important logs first.                      *)
LEMMA ReadKeeps ==
  ASSUME IInv, NEW max \in 1..MaxBatch, ReadBatch(max)
  PROVE  IInv'
  <1> DEFINE left(p) == LeftFor(p, max)
  <1>1. \A p \in Priority :
          /\ LogInv(logs[p]) /\ LogType(logs[p])
          /\ logs[p].pending \in Nat
    BY DEF IInv, LogsConsistent, LogInv, LogType
  <1>2. max \in Int
    OBVIOUS
  <1>3. \A p \in Priority : left(p) \in Int
    BY <1>1, <1>2, PrioritiesNamed DEF LeftFor
  <1>4. PICK b \in BatchEnds(logs["bulk"], left("bulk")),
             s \in BatchEnds(logs["standard"], left("standard")),
             c \in BatchEnds(logs["critical"], left("critical")) :
          batch' = PerPriority(b, s, c)
    BY DEF ReadBatch
  <1>5. /\ DOMAIN batch' = Priority
        /\ batch'["bulk"] = b /\ batch'["standard"] = s
        /\ batch'["critical"] = c
    BY <1>4, PrioritiesNamed DEF PerPriority
  <1>6. \A p \in Priority : batch'[p] \in BatchEnds(logs[p], left(p))
    BY <1>5, PrioritiesNamed
  <1>7. \A p, q \in Priority :
          Rank(q) > Rank(p) /\ left(p) > 0 =>
            left(q) > 0 /\ logs[q].pending <= left(q)
    BY <1>1, <1>2, PrioritiesNamed DEF LeftFor, Rank
  <1> HIDE DEF left
  <1>8. \A p \in Priority :
          /\ batch'[p] \in Position
          /\ left(p) > 0 /\ logs[p].pending > 0 => batch'[p] # NoPosition
          /\ batch'[p] # NoPosition =>
               /\ left(p) > 0 /\ InLog(logs[p], batch'[p])
               /\ IndexOf(logs[p], batch'[p]) \in Nat
               /\ IndexOf(logs[p], batch'[p]) <= logs[p].tail
               /\ logs[p].pending <= left(p) =>
                    IndexOf(logs[p], batch'[p]) = logs[p].tail
    BY <1>1, <1>3, <1>6, EndFacts
  <1>9. /\ \A p \in Priority :
             logs'[p] = IF batch'[p] = NoPosition THEN logs[p]
                        ELSE Flush(logs[p])
        /\ UNCHANGED <<config, droppedTotal, incoming, pushed>>
        /\ incoming = NoEvent
    BY DEF ReadBatch
  <1>10. \A p \in Priority :
           /\ logs'[p].active = logs[p].active
           /\ logs'[p].first = logs[p].first
           /\ logs'[p].tail = logs[p].tail
           /\ logs'[p].pending = logs[p].pending
           /\ batch'[p] # NoPosition => logs'[p].synced = logs[p].tail
    BY <1>1, <1>9, FlushFields
  <1>11. \A p \in Priority : \A e :
           /\ IndexOf(logs'[p], e) = IndexOf(logs[p], e)
           /\ InLog(logs'[p], e) <=> InLog(logs[p], e)
    BY <1>10, SamePositions
  <1>12. LogsMove /\ LogsKept
    BY FlushAllMoves
  <1>13. LogsConsistent' /\ DOMAIN logs' = Priority
    BY <1>12 DEF LogsMove, LogsConsistent
  <1>14. TypeOK'
    <2>1. batch' \in [Priority -> Position]
      BY <1>4, <1>5, <1>8 DEF PerPriority
    <2>2. QED
      BY <1>9, <1>13, <2>1 DEF IInv, TypeOK, LogsConsistent, LogInv
  <1>15. BatchSynced'
    BY <1>8, <1>10, <1>11 DEF BatchSynced
  <1>16. ImportantFirst'
    BY <1>7, <1>8, <1>10, <1>11 DEF ImportantFirst
  <1>17. OneAtATime'
    BY <1>9 DEF OneAtATime
  <1>18. CountedWithinLimit'
    <2>1. /\ DiskBytes \in Nat /\ DiskBytes' \in Nat
          /\ DiskBytes' <= DiskBytes
      BY <1>12, DiskBytesKept
    <2>2. EffectiveLimit(config) \in Nat
      BY LimitTyped DEF IInv, TypeOK
    <2>3. QED
      BY <1>9, <2>1, <2>2 DEF IInv, CountedWithinLimit
  <1>19. QED
    BY <1>13, <1>14, <1>15, <1>16, <1>17, <1>18 DEF IInv

LEMMA StepKeeps == IInv /\ [Next]_vars => IInv'
  <1> SUFFICES ASSUME IInv, [Next]_vars PROVE IInv'
    OBVIOUS
  <1>1. ASSUME NEW max \in 1..MaxBatch, ReadBatch(max) PROVE IInv'
    BY <1>1, ReadKeeps
  <1>2. QED
    BY <1>1, PushKeeps, StoreKeeps, RestartKeeps, FlushAllKeeps DEF Next

LEMMA Invariant == Spec => []IInv
  BY InitHolds, StepKeeps, PTL DEF Spec

-----------------------------------------------------------------------------
(* The invariants of the queue.                                            *)

(* Every variable of the queue keeps its type.                             *)
THEOREM TypeCorrect == Spec => []TypeOK
  <1>1. IInv => TypeOK
    BY DEF IInv
  <1>2. QED
    BY <1>1, Invariant, PTL

(* Each of the three logs stays well formed under the common limit,        *)
(* through evictions, commits that stop half-way and restarts.             *)
THEOREM LogsConsistentAlways == Spec => []LogsConsistent
  <1>1. IInv => LogsConsistent
    BY DEF IInv
  <1>2. QED
    BY <1>1, Invariant, PTL

(* Once a push was stored, the files themselves stay within the limit      *)
(* (queue.rs, enforce_limit): the counters the queue goes by are exact.    *)
THEOREM WithinLimitAlways == Spec => []WithinLimit
  <1>1. ASSUME IInv
        PROVE  WithinLimit
    <2>1. \A p \in Priority : FileBytes(logs[p]) = logs[p].diskBytes
      BY <1>1 DEF IInv, LogsConsistent, LogInv, CountersExact, FileBytes
    <2>2. TotalFileBytes = DiskBytes
      BY <2>1, PrioritiesNamed DEF TotalFileBytes, DiskBytes
    <2>3. QED
      BY <1>1, <2>2 DEF IInv, CountedWithinLimit, WithinLimit
  <1>2. QED
    BY <1>1, Invariant, PTL

(* No batch holds an event of one log while a more important log keeps     *)
(* pending ones back (queue.rs, read_batch).                               *)
THEOREM ImportantFirstAlways == Spec => []ImportantFirst
  <1>1. IInv => ImportantFirst
    BY DEF IInv
  <1>2. QED
    BY <1>1, Invariant, PTL

-----------------------------------------------------------------------------
(* What a step may not do.                                                 *)

(* Every step moves each log by a step of its contract, and only retention *)
(* and a restart touch the count of dropped records.                       *)
LEMMA StepMoves ==
  ASSUME IInv, [Next]_vars
  PROVE  /\ LogsMove
         /\ Evict \/ EvictFails \/ Restart \/ DroppedKept
         /\ Store \/ Restart \/ LogsKept
  <1>1. CASE Evict \/ EvictFails
    BY <1>1, EvictMoves
  <1>2. CASE Store
    BY <1>2, StoreMoves
  <1>3. CASE StoreFails
    BY <1>3, StoreFailsMoves
  <1>4. CASE FlushAll \/ \E max \in 1..MaxBatch : ReadBatch(max)
    BY <1>4, FlushAllMoves
  <1>5. CASE Commit \/ CommitFails
    BY <1>5, CommitMoves
  <1>6. CASE Restart
    BY <1>6, RestartMoves
  <1>7. CASE \/ \E p \in Priority : \E size \in Sizes[p] : Push(p, size)
             \/ Refuse \/ GiveUp \/ UNCHANGED vars
    <2>1. logs' = logs
      BY <1>7 DEF Push, Refuse, GiveUp, vars
    <2>2. QED
      BY <2>1, QuietMoves
  <1>8. QED
    BY <1>1, <1>2, <1>3, <1>4, <1>5, <1>6, <1>7 DEF Next

(* Retention reaches a log only when all less important ones are down to   *)
(* their active segment (queue.rs, evict_one).                             *)
THEOREM ImportantLastAlways == Spec => ImportantLast
  <1>1. ASSUME IInv, [Next]_vars, NEW p \in Priority, NEW q \in Priority,
               logs'[p].dropped > logs[p].dropped, Rank(q) < Rank(p)
        PROVE  logs[q].lo = logs[q].active
    <2>1. logs[p].dropped \in Nat
      BY <1>1 DEF IInv, TypeOK, LogType
    <2>2. Evict \/ EvictFails
      <3>1. ~DroppedKept
        BY <1>1, <2>1 DEF DroppedKept
      <3>2. ~Restart
        BY <1>1, <2>1, RestartMoves
      <3>3. QED
        BY <1>1, <3>1, <3>2, StepMoves
    <2>3. PICK r \in Priority :
            /\ Victim(r)
            /\ \/ logs' = [logs EXCEPT ![r] = SaveCursor(DropOldest(logs[r]))]
               \/ logs' = [logs EXCEPT ![r] = DropOldest(logs[r])]
               \/ logs' = logs
      BY <2>2 DEF Evict, EvictFails
    <2>4. r = p
      <3>1. \A o \in Priority \ {r} : logs'[o] = logs[o]
        BY <1>1, <2>3 DEF IInv
      <3>2. QED
        BY <1>1, <2>1, <3>1
    <2>5. QED
      BY <1>1, <2>3, <2>4 DEF Victim, Droppable
  <1>2. IInv /\ [Next]_vars =>
          [\A p, q \in Priority :
             logs'[p].dropped > logs[p].dropped /\ Rank(q) < Rank(p)
               => logs[q].lo = logs[q].active]_vars
    BY <1>1
  <1>3. QED
    BY <1>2, Invariant, PTL DEF Spec, ImportantLast

(* All configurations agree on the size of a segment.                      *)
OneSegmentSize == \A c, d \in Config : c.segmentBytes = d.segmentBytes

SegmentsFilled == \A p \in Priority : Filled(logs[p], config.segmentBytes)

LEMMA FilledKeeps ==
  ASSUME OneSegmentSize, IInv, SegmentsFilled, [Next]_vars
  PROVE  SegmentsFilled'
  <1>1. CASE Store
    <2>1. config' = config
      BY <1>1 DEF Store
    <2>2. QED
      BY <1>1, <2>1, StoreMoves DEF SegmentsFilled
  <1>2. CASE Restart
    <2>1. config'.segmentBytes = config.segmentBytes
      BY <1>2 DEF Restart, OneSegmentSize, IInv, TypeOK
    <2>2. QED
      BY <1>2, <2>1, RestartMoves DEF SegmentsFilled
  <1>3. CASE ~Store /\ ~Restart
    <2>1. config' = config
      BY <1>3 DEF Next, vars, Push, Evict, EvictFails, Refuse, StoreFails,
                  ReadBatch, Commit, CommitFails, GiveUp, FlushAll
    <2>2. LogsKept
      BY <1>3, StepMoves
    <2>3. QED
      BY <2>1, <2>2 DEF SegmentsFilled, LogsKept, Kept, Filled
  <1>4. QED
    BY <1>1, <1>2, <1>3

(* What a log down to its active segment holds: less than a segment and    *)
(* the record written last.                                                *)
LEMMA ActiveBytes ==
  ASSUME NEW l, LogInv(l), NEW segmentBytes \in Nat \ {0},
         Filled(l, segmentBytes), ~Droppable(l)
  PROVE  /\ l.diskBytes \in Nat /\ LastSize(l) \in Nat
         /\ l.diskBytes <= segmentBytes - 1 + LastSize(l)
  <1> DEFINE f == l.first[l.active]
             t == l.tail
  <1>1. LogType(l) /\ Segmented(l) /\ CountersExact(l) /\ l.diskBytes \in Nat
    BY DEF LogInv, LogType
  <1>2. f \in Nat /\ t \in Nat /\ f <= t
    <2>1. f \in Nat /\ t \in Nat /\ l.synced \in 0..t
      BY <1>1 DEF LogType
    <2>2. f <= l.synced
      BY <1>1 DEF Segmented
    <2>3. QED
      BY <2>1, <2>2
  <1>3. l.diskBytes = l.byteAt[t] - l.byteAt[f]
    BY <1>1 DEF CountersExact, Droppable
  <1>4. \A i \in 0..t : l.byteAt[i] \in Nat
    BY <1>1 DEF LogType
  <1>5. \A i, j \in 0..t : i <= j => l.byteAt[i] <= l.byteAt[j]
    BY <1>1 DEF Segmented
  <1>6. \A i \in f..(t - 1) : l.byteAt[i] - l.byteAt[f] < segmentBytes
    BY DEF Filled
  <1>7. LastSize(l) = IF t = 0 THEN 0 ELSE l.byteAt[t] - l.byteAt[t - 1]
    BY DEF LastSize
  <1> HIDE DEF f, t
  <1>8. LastSize(l) \in Nat
    <2>1. CASE t = 0
      BY <1>7, <2>1
    <2>2. CASE t # 0
      <3>1. t \in 0..t /\ t - 1 \in 0..t /\ t - 1 <= t
        BY <1>2, <2>2
      <3>2. /\ l.byteAt[t] \in Nat /\ l.byteAt[t - 1] \in Nat
            /\ l.byteAt[t - 1] <= l.byteAt[t]
        BY <1>4, <1>5, <3>1
      <3>3. QED
        BY <1>7, <2>2, <3>2
    <2>3. QED
      BY <2>1, <2>2
  <1>9. CASE f = t
    <2>1. l.byteAt[t] \in Nat
      BY <1>2, <1>4
    <2>2. l.diskBytes = 0
      BY <1>3, <1>9, <2>1
    <2>3. QED
      BY <1>1, <1>8, <2>2
  <1>10. CASE f # t
    <2>1. t - 1 \in f..(t - 1) /\ t - 1 \in 0..t /\ f \in 0..t /\ t # 0
          /\ t \in 0..t
      BY <1>2, <1>10
    <2>2. l.byteAt[t - 1] - l.byteAt[f] < segmentBytes
      BY <1>6, <2>1
    <2>3. /\ l.byteAt[t] \in Nat /\ l.byteAt[t - 1] \in Nat
          /\ l.byteAt[f] \in Nat
      BY <1>4, <2>1
    <2>4. QED
      BY <1>1, <1>3, <1>7, <1>8, <2>1, <2>2, <2>3
  <1>11. QED
    BY <1>9, <1>10

(* Three active segments, each less than full before its last record, and  *)
(* the incoming record fit into six segments unless one record is large.   *)
LEMMA SixSegmentsSuffice ==
  ASSUME NEW n \in Nat \ {0}, NEW limit \in Nat, 6 * n <= limit,
         NEW a \in Nat, NEW b \in Nat, NEW c \in Nat,
         NEW x \in Nat, NEW y \in Nat, NEW z \in Nat, NEW size \in Nat,
         a <= n - 1 + x, b <= n - 1 + y, c <= n - 1 + z,
         ~(4 * size - 3 > 3 * n), ~(4 * x - 3 > 3 * n),
         ~(4 * y - 3 > 3 * n), ~(4 * z - 3 > 3 * n)
  PROVE  ~(a + b + c + size > limit)
  OBVIOUS

(* As long as the size of a segment does not change between two starts, a  *)
(* full queue refuses an event only if that event, or the last record of   *)
(* some log, is almost as large as a segment (queue.rs, open: the floor of *)
(* two segments per log).                                                  *)
THEOREM RefusesOnlyOversizedAlways ==
  ASSUME OneSegmentSize
  PROVE  Spec => RefusesOnlyOversized
  <1>1. ASSUME IInv, SegmentsFilled, [Next]_vars, droppedTotal' > droppedTotal
        PROVE  \/ Oversized(incoming.size)
               \/ \E p \in Priority : Oversized(LastSize(logs[p]))
    <2>1. droppedTotal \in Nat
      BY <1>1 DEF IInv, TypeOK
    <2>2. Refuse
      BY <1>1, <2>1
      DEF Next, vars, Push, Evict, EvictFails, Store, StoreFails, ReadBatch,
          Commit, CommitFails, GiveUp, FlushAll, Restart
    <2>3. /\ \A p \in Priority : ~Droppable(logs[p]) /\ LogInv(logs[p])
          /\ DiskBytes + incoming.size > EffectiveLimit(config)
          /\ incoming.size \in Nat
      BY <1>1, <2>2 DEF Refuse, OverLimit, IInv, LogsConsistent, TypeOK
    <2>4. /\ EffectiveLimit(config) \in Nat
          /\ config.segmentBytes \in Nat \ {0}
          /\ 6 * config.segmentBytes <= EffectiveLimit(config)
      BY <1>1, LimitTyped DEF IInv, TypeOK
    <2>5. \A p \in Priority :
            /\ logs[p].diskBytes \in Nat /\ LastSize(logs[p]) \in Nat
            /\ logs[p].diskBytes
                 <= config.segmentBytes - 1 + LastSize(logs[p])
      BY <1>1, <2>3, <2>4, ActiveBytes DEF SegmentsFilled
    <2>6. QED
      BY <2>3, <2>4, <2>5, PrioritiesNamed, SixSegmentsSuffice
      DEF DiskBytes, Oversized
  <1>2. Init => SegmentsFilled
    <2> SUFFICES ASSUME Init PROVE SegmentsFilled
      OBVIOUS
    <2>1. \A p \in Priority : logs[p] = EmptyLog
      BY DEF Init
    <2>2. EmptyLog.first[EmptyLog.active] = 0 /\ EmptyLog.tail = 0
      BY DEF EmptyLog
    <2>3. QED
      BY <2>1, <2>2 DEF SegmentsFilled, Filled
  <1>3. IInv /\ SegmentsFilled /\ [Next]_vars => SegmentsFilled'
    BY FilledKeeps
  <1>4. IInv /\ SegmentsFilled /\ [Next]_vars =>
          [droppedTotal' > droppedTotal =>
             \/ Oversized(incoming.size)
             \/ \E p \in Priority : Oversized(LastSize(logs[p]))]_vars
    BY <1>1
  <1>5. QED
    BY <1>2, <1>3, <1>4, Invariant, PTL DEF Spec, RefusesOnlyOversized

-----------------------------------------------------------------------------
(* Each log keeps the contract of DurableQueue.                            *)

LEMMA BulkImplements ==
  ASSUME Contract(logs["bulk"], logs'["bulk"])
  PROVE  [Bulk!Next]_(Bulk!qvars)
  BY DEF Contract, Appends, Syncs, Releases, Persists, Reopens, Stutters,
         HeadIn, SavedIn, HeadOf, Bulk!Next, Bulk!qvars, Bulk!Append,
         Bulk!Sync, Bulk!Release, Bulk!Persist, Bulk!Crash

LEMMA StandardImplements ==
  ASSUME Contract(logs["standard"], logs'["standard"])
  PROVE  [Standard!Next]_(Standard!qvars)
  BY DEF Contract, Appends, Syncs, Releases, Persists, Reopens, Stutters,
         HeadIn, SavedIn, HeadOf, Standard!Next, Standard!qvars,
         Standard!Append, Standard!Sync, Standard!Release, Standard!Persist,
         Standard!Crash

LEMMA CriticalImplements ==
  ASSUME Contract(logs["critical"], logs'["critical"])
  PROVE  [Critical!Next]_(Critical!qvars)
  BY DEF Contract, Appends, Syncs, Releases, Persists, Reopens, Stutters,
         HeadIn, SavedIn, HeadOf, Critical!Next, Critical!qvars,
         Critical!Append, Critical!Sync, Critical!Release, Critical!Persist,
         Critical!Crash

(* Inside the queue, too, each log delivers in order and at least once,    *)
(* loses nothing synced but by retention, and brings back nothing that is  *)
(* confirmed on disk.                                                      *)
THEOREM Refinement == Spec => ImplementsDurableQueues
  <1>1. Init => Bulk!Init /\ Standard!Init /\ Critical!Init
    BY PrioritiesNamed
    DEF Init, EmptyLog, HeadOf, IndexOf, Bulk!Init, Standard!Init,
        Critical!Init
  <1>2. IInv /\ [Next]_vars =>
          /\ [Bulk!Next]_(Bulk!qvars)
          /\ [Standard!Next]_(Standard!qvars)
          /\ [Critical!Next]_(Critical!qvars)
    BY PrioritiesNamed, StepMoves, BulkImplements, StandardImplements,
       CriticalImplements
    DEF LogsMove
  <1>3. QED
    BY <1>1, <1>2, Invariant, PTL
    DEF Spec, ImplementsDurableQueues, Bulk!Spec, Standard!Spec, Critical!Spec

=============================================================================
