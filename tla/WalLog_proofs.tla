--------------------------- MODULE WalLog_proofs ----------------------------
(***************************************************************************)
(* Every function of WalLog keeps the well-formedness LogInv of a log      *)
(* value, for any segment size and any records.  The invariants of the     *)
(* state machines that own logs rest on these lemmas.                      *)
(***************************************************************************)
EXTENDS WalLog, TLAPS

-----------------------------------------------------------------------------
(* Positions and the records they stand for.                               *)

(* A position in a segment that existed stands for a record number, and so *)
(* does the end of that segment.                                           *)
LEMMA IndexType ==
  ASSUME NEW l, LogType(l), NEW p \in Position, p.segment <= l.active
  PROVE  /\ IndexOf(l, p) \in Nat
         /\ EndOf(l, p.segment) \in Nat
<1>1. p.segment \in 0..l.active
  BY DEF LogType, Position
<1>2. l.first[p.segment] \in Nat
  BY <1>1 DEF LogType
<1>3. p.offset \in Nat
  BY DEF Position
<1>4. EndOf(l, p.segment) \in Nat
  <2>1. CASE p.segment = l.active
    BY <2>1 DEF EndOf, LogType
  <2>2. CASE p.segment # l.active
    <3>1. p.segment + 1 \in 0..l.active
      BY <1>1, <2>2, SMTT(40) DEF LogType
    <3> QED BY <2>2, <3>1 DEF EndOf, LogType
  <2> QED BY <2>1, <2>2
<1> QED BY <1>2, <1>3, <1>4 DEF IndexOf

(* Every segment ends at or before the end of the log, and at or before    *)
(* the beginning of every later segment.                                   *)
LEMMA EndOrder ==
  ASSUME NEW l, LogType(l), Segmented(l), NEW s \in 0..l.active
  PROVE  /\ l.first[s] \in Nat
         /\ EndOf(l, s) \in Nat
         /\ l.first[s] <= EndOf(l, s)
         /\ EndOf(l, s) <= l.tail
         /\ \A t \in 0..l.active : s < t => EndOf(l, s) <= l.first[t]
         /\ s < l.active => EndOf(l, s) <= l.synced
<1>0. /\ l.active \in Nat /\ l.tail \in Nat /\ l.synced \in 0..l.tail
      /\ \A t \in 0..l.active : l.first[t] \in Nat
  BY DEF LogType
<1>1. l.first[l.active] <= l.synced /\ l.synced <= l.tail
  BY <1>0 DEF Segmented
<1>2. CASE s = l.active
  BY <1>0, <1>1, <1>2 DEF EndOf
<1>3. CASE s # l.active
  <2>1. s + 1 \in 0..l.active /\ s < s + 1
    BY <1>0, <1>3
  <2>2. EndOf(l, s) = l.first[s + 1]
    BY <1>3 DEF EndOf
  <2>3. l.first[s] <= l.first[s + 1]
    BY <2>1 DEF Segmented
  <2>4. \A t \in 0..l.active : s < t => l.first[s + 1] <= l.first[t]
    BY <1>0, <2>1 DEF Segmented
  <2>5. l.first[s + 1] <= l.first[l.active]
    BY <1>0, <1>3, <2>1, <2>4
  <2> QED BY <1>0, <1>1, <2>1, <2>2, <2>3, <2>4, <2>5
<1> QED BY <1>2, <1>3

(* The order of positions is the order of the records they stand for.      *)
LEMMA BeforeIndex ==
  ASSUME NEW l, LogType(l), Segmented(l),
         NEW p \in Position, InLog(l, p), NEW q \in Position, InLog(l, q),
         ~Before(q, p)
  PROVE  IndexOf(l, p) <= IndexOf(l, q)
<1>1. /\ p.segment \in 0..l.active /\ q.segment \in 0..l.active
      /\ p.offset \in Nat /\ q.offset \in Nat
  BY DEF Position, InLog, LogType
<1>2. IndexOf(l, p) \in Nat /\ IndexOf(l, q) \in Nat
  BY IndexType DEF InLog
<1>3. CASE p.segment = q.segment
  <2>1. p.offset <= q.offset
    BY <1>1, <1>3 DEF Before
  <2>2. l.first[p.segment] \in Nat /\ l.first[p.segment] = l.first[q.segment]
    BY <1>1, <1>3, EndOrder
  <2> QED BY <1>1, <2>1, <2>2 DEF IndexOf
<1>4. CASE p.segment # q.segment
  <2>1. p.segment < q.segment
    BY <1>1, <1>4 DEF Before
  <2>2. /\ EndOf(l, p.segment) \in Nat /\ l.first[q.segment] \in Nat
        /\ EndOf(l, p.segment) <= l.first[q.segment]
    BY <1>1, <2>1, EndOrder
  <2>3. IndexOf(l, p) <= EndOf(l, p.segment)
    BY DEF InLog
  <2>4. l.first[q.segment] <= IndexOf(l, q)
    BY <1>1, <2>2 DEF IndexOf
  <2> QED BY <1>2, <2>2, <2>3, <2>4
<1> QED BY <1>3, <1>4

-----------------------------------------------------------------------------
(* Opening and writing.                                                    *)

(* A log just created is well formed. *)
LEMMA EmptyLogInv == LogInv(EmptyLog)
<1>1. LogType(EmptyLog)
  BY DEF LogType, EmptyLog, Position
<1>2. Segmented(EmptyLog)
  BY DEF Segmented, EmptyLog
<1>3. CursorsOrdered(EmptyLog)
  BY DEF CursorsOrdered, EmptyLog, InLog, IndexOf, EndOf, Before
<1>4. CountersExact(EmptyLog)
  BY DEF CountersExact, EmptyLog, IndexOf
<1> QED BY <1>1, <1>2, <1>3, <1>4 DEF LogInv

(* `flush` only moves the sync mark. *)
LEMMA FlushFields ==
  ASSUME NEW l, LogType(l)
  PROVE  /\ LogType(Flush(l))
         /\ Flush(l).lo = l.lo /\ Flush(l).active = l.active
         /\ Flush(l).first = l.first /\ Flush(l).tail = l.tail
         /\ Flush(l).byteAt = l.byteAt /\ Flush(l).cursor = l.cursor
         /\ Flush(l).saved = l.saved /\ Flush(l).pending = l.pending
         /\ Flush(l).diskBytes = l.diskBytes
         /\ Flush(l).activeBytes = l.activeBytes
         /\ Flush(l).dropped = l.dropped /\ Flush(l).synced = l.tail
BY DEF LogType, Flush

LEMMA FlushInv ==
  ASSUME NEW l, LogInv(l)
  PROVE  LogInv(Flush(l))
<1> DEFINE f == Flush(l)
<1>0. LogType(l) /\ Segmented(l) /\ CursorsOrdered(l) /\ CountersExact(l)
  BY DEF LogInv
<1>1. LogType(f)
  BY <1>0, FlushFields
<1>2. Segmented(f)
  <2>1. l.first[l.active] <= l.synced /\ l.synced <= l.tail
        /\ l.first[l.active] \in Nat /\ l.synced \in Nat /\ l.tail \in Nat
    BY <1>0 DEF LogType, Segmented
  <2> QED BY <1>0, <2>1, FlushFields DEF Segmented
<1>3. CursorsOrdered(f)
  <2>1. \A p : IndexOf(f, p) = IndexOf(l, p) /\ (InLog(f, p) <=> InLog(l, p))
    BY <1>0, FlushFields DEF IndexOf, EndOf, InLog
  <2>2. IndexOf(l, l.cursor) \in Nat
    BY <1>0, IndexType DEF LogType, CursorsOrdered, InLog
  <2>3. l.synced <= l.tail /\ l.synced \in Nat /\ l.tail \in Nat
    BY <1>0 DEF LogType
  <2> HIDE DEF f
  <2>4. IndexOf(f, f.cursor) <= f.synced
    BY <1>0, <2>1, <2>2, <2>3, FlushFields DEF CursorsOrdered, f
  <2> QED BY <1>0, <2>1, <2>4, FlushFields DEF CursorsOrdered, f
<1>4. CountersExact(f)
  BY <1>0, FlushFields DEF CountersExact, IndexOf
<1> QED BY <1>1, <1>2, <1>3, <1>4 DEF LogInv

(* `roll_segment` opens an empty segment behind the synced old ones. *)
LEMMA RollFields ==
  ASSUME NEW l, LogType(l)
  PROVE  /\ RollSegment(l).lo = l.lo
         /\ RollSegment(l).active = l.active + 1
         /\ RollSegment(l).first =
              [s \in 0..(l.active + 1) |->
                 IF s = l.active + 1 THEN l.tail ELSE l.first[s]]
         /\ RollSegment(l).tail = l.tail
         /\ RollSegment(l).byteAt = l.byteAt
         /\ RollSegment(l).cursor = l.cursor
         /\ RollSegment(l).saved = l.saved
         /\ RollSegment(l).pending = l.pending
         /\ RollSegment(l).diskBytes = l.diskBytes
         /\ RollSegment(l).activeBytes = 0
         /\ RollSegment(l).dropped = l.dropped
         /\ RollSegment(l).synced = l.tail
         /\ DOMAIN RollSegment(l) = DOMAIN l
BY DEF LogType, RollSegment, Flush

LEMMA RollInv ==
  ASSUME NEW l, LogInv(l)
  PROVE  /\ LogInv(RollSegment(l))
         /\ \A p \in Position : InLog(l, p) =>
              /\ InLog(RollSegment(l), p)
              /\ IndexOf(RollSegment(l), p) = IndexOf(l, p)
<1> DEFINE r == RollSegment(l)
<1>0. LogType(l) /\ Segmented(l) /\ CursorsOrdered(l) /\ CountersExact(l)
  BY DEF LogInv
<1>a. /\ r.lo = l.lo /\ r.active = l.active + 1 /\ r.tail = l.tail
      /\ r.byteAt = l.byteAt /\ r.cursor = l.cursor /\ r.saved = l.saved
      /\ r.pending = l.pending /\ r.diskBytes = l.diskBytes
      /\ r.activeBytes = 0 /\ r.dropped = l.dropped /\ r.synced = l.tail
      /\ DOMAIN r = DOMAIN l
  BY <1>0, RollFields
<1>b. /\ r.first \in [0..(l.active + 1) -> Nat]
      /\ r.first[l.active + 1] = l.tail
      /\ \A s \in 0..l.active : r.first[s] = l.first[s]
  <2>1. \A s \in 0..(l.active + 1) :
          (IF s = l.active + 1 THEN l.tail ELSE l.first[s]) \in Nat
    BY <1>0 DEF LogType
  <2>2. r.first = [s \in 0..(l.active + 1) |->
                     IF s = l.active + 1 THEN l.tail ELSE l.first[s]]
    BY <1>0, RollFields
  <2>3. l.active \in Nat
    BY <1>0 DEF LogType
  <2> HIDE DEF r
  <2> QED BY <2>1, <2>2, <2>3
<1> HIDE DEF r
<1>c. l.active \in Nat /\ l.tail \in Nat /\ l.synced \in 0..l.tail
  BY <1>0 DEF LogType
<1>1. LogType(r)
  BY <1>0, <1>a, <1>b, <1>c DEF LogType
<1>2. Segmented(r)
  <2>1. \A s, t \in 0..(l.active + 1) : s <= t => r.first[s] <= r.first[t]
    <3> SUFFICES ASSUME NEW s \in 0..(l.active + 1),
                        NEW t \in 0..(l.active + 1), s <= t
                 PROVE  r.first[s] <= r.first[t]
      OBVIOUS
    <3>1. CASE t \in 0..l.active
      BY <1>0, <1>b, <1>c, <3>1, SMTT(40) DEF Segmented
    <3>2. CASE t = l.active + 1 /\ s \in 0..l.active
      <4>1. l.first[s] \in Nat /\ EndOf(l, s) \in Nat
            /\ l.first[s] <= EndOf(l, s) /\ EndOf(l, s) <= l.tail
        BY <1>0, <3>2, EndOrder
      <4> QED BY <1>b, <1>c, <3>2, <4>1
    <3>3. CASE t = l.active + 1 /\ s = l.active + 1
      BY <1>b, <1>c, <3>3
    <3> QED BY <1>c, <3>1, <3>2, <3>3
  <2> QED BY <1>0, <1>a, <1>b, <1>c, <2>1 DEF Segmented
<1>3. \A p \in Position : InLog(l, p) =>
        InLog(r, p) /\ IndexOf(r, p) = IndexOf(l, p)
  <2> SUFFICES ASSUME NEW p \in Position, InLog(l, p)
               PROVE  InLog(r, p) /\ IndexOf(r, p) = IndexOf(l, p)
    OBVIOUS
  <2>1. p.segment \in 0..l.active
    BY <1>c DEF Position, InLog
  <2>2. IndexOf(r, p) = IndexOf(l, p)
    BY <1>b, <2>1 DEF IndexOf
  <2>3. EndOf(r, p.segment) = EndOf(l, p.segment)
    <3>1. CASE p.segment = l.active
      BY <1>a, <1>b, <1>c, <3>1 DEF EndOf
    <3>2. CASE p.segment # l.active
      <4>1. p.segment + 1 \in 0..l.active
        BY <1>c, <2>1, <3>2
      <4> QED BY <1>a, <1>b, <1>c, <2>1, <3>2, <4>1 DEF EndOf
    <3> QED BY <3>1, <3>2
  <2> QED BY <1>a, <1>c, <2>1, <2>2, <2>3 DEF InLog
<1>4. l.cursor \in Position /\ l.saved \in Position
      /\ InLog(l, l.cursor) /\ InLog(l, l.saved)
  BY <1>0 DEF LogType, CursorsOrdered
<1>5. CursorsOrdered(r)
  <2>1. IndexOf(l, l.cursor) <= l.synced /\ IndexOf(l, l.cursor) \in Nat
    BY <1>0, <1>4, IndexType DEF CursorsOrdered, InLog
  <2>2. IndexOf(r, r.cursor) <= r.synced
    BY <1>a, <1>c, <1>3, <1>4, <2>1
  <2> QED BY <1>0, <1>a, <1>3, <1>4, <2>2 DEF CursorsOrdered
<1>6. CountersExact(r)
  <2>1. r.first[r.lo] = l.first[l.lo]
    BY <1>0, <1>a, <1>b DEF LogType
  <2>2. r.first[r.active] = l.tail /\ l.byteAt[l.tail] \in Nat
    BY <1>0, <1>a, <1>b DEF LogType
  <2> QED BY <1>0, <1>a, <1>3, <1>4, <2>1, <2>2 DEF CountersExact
<1> QED BY <1>1, <1>2, <1>3, <1>5, <1>6 DEF LogInv, r

(* Writing a record behind the last one. *)
LEMMA WriteFields ==
  ASSUME NEW l, LogType(l), NEW size
  PROVE  /\ WriteRecord(l, size).lo = l.lo
         /\ WriteRecord(l, size).active = l.active
         /\ WriteRecord(l, size).first = l.first
         /\ WriteRecord(l, size).tail = l.tail + 1
         /\ WriteRecord(l, size).byteAt =
              [i \in 0..(l.tail + 1) |->
                 IF i = l.tail + 1 THEN l.byteAt[l.tail] + size
                                   ELSE l.byteAt[i]]
         /\ WriteRecord(l, size).cursor = l.cursor
         /\ WriteRecord(l, size).saved = l.saved
         /\ WriteRecord(l, size).pending = l.pending + 1
         /\ WriteRecord(l, size).diskBytes = l.diskBytes + size
         /\ WriteRecord(l, size).activeBytes = l.activeBytes + size
         /\ WriteRecord(l, size).dropped = l.dropped
         /\ WriteRecord(l, size).synced = l.synced
         /\ DOMAIN WriteRecord(l, size) = DOMAIN l
BY DEF LogType, WriteRecord

LEMMA WriteInv ==
  ASSUME NEW l, LogInv(l), NEW size \in Nat
  PROVE  /\ LogInv(WriteRecord(l, size))
         /\ \A p \in Position : InLog(l, p) =>
              /\ InLog(WriteRecord(l, size), p)
              /\ IndexOf(WriteRecord(l, size), p) = IndexOf(l, p)
<1> DEFINE w == WriteRecord(l, size)
<1>0. LogType(l) /\ Segmented(l) /\ CursorsOrdered(l) /\ CountersExact(l)
  BY DEF LogInv
<1>a. /\ w.lo = l.lo /\ w.active = l.active /\ w.first = l.first
      /\ w.tail = l.tail + 1 /\ w.cursor = l.cursor /\ w.saved = l.saved
      /\ w.pending = l.pending + 1 /\ w.diskBytes = l.diskBytes + size
      /\ w.activeBytes = l.activeBytes + size /\ w.dropped = l.dropped
      /\ w.synced = l.synced /\ DOMAIN w = DOMAIN l
  BY <1>0 DEF LogType, WriteRecord
<1>c. l.active \in Nat /\ l.tail \in Nat /\ l.synced \in 0..l.tail
  BY <1>0 DEF LogType
<1>b. /\ w.byteAt \in [0..(l.tail + 1) -> Nat]
      /\ w.byteAt[l.tail + 1] = l.byteAt[l.tail] + size
      /\ \A i \in 0..l.tail : w.byteAt[i] = l.byteAt[i]
  <2>a. \A i \in 0..l.tail : l.byteAt[i] \in Nat
    BY <1>0 DEF LogType
  <2>b. l.byteAt[l.tail] \in Nat
    BY <1>c, <2>a
  <2>0. l.byteAt[l.tail] + size \in Nat
    BY <2>b
  <2>1. \A i \in 0..(l.tail + 1) :
          (IF i = l.tail + 1 THEN l.byteAt[l.tail] + size
                             ELSE l.byteAt[i]) \in Nat
    BY <1>c, <2>a, <2>0
  <2>2. w.byteAt = [i \in 0..(l.tail + 1) |->
                      IF i = l.tail + 1 THEN l.byteAt[l.tail] + size
                                        ELSE l.byteAt[i]]
    BY <1>0, WriteFields
  <2> HIDE DEF w
  <2> QED BY <1>c, <2>1, <2>2
<1> HIDE DEF w
<1>1. LogType(w)
  <2>1. w.tail \in Nat /\ w.synced \in 0..w.tail /\ w.pending \in Nat
    BY <1>0, <1>a, <1>c, SMTT(40) DEF LogType
  <2>2. w.diskBytes \in Nat /\ w.activeBytes \in Nat
    <3>1. l.diskBytes \in Nat /\ l.activeBytes \in Nat
      BY <1>0 DEF LogType
    <3> QED BY <1>a, <3>1
  <2>3. w.byteAt \in [0..w.tail -> Nat]
    BY <1>a, <1>b
  <2> QED BY <1>0, <1>a, <2>1, <2>2, <2>3 DEF LogType
<1>2. Segmented(w)
  <2>0. \A i \in 0..l.tail : l.byteAt[i] \in Nat
    BY <1>0 DEF LogType
  <2>1. \A i, j \in 0..(l.tail + 1) : i <= j => w.byteAt[i] <= w.byteAt[j]
    <3> SUFFICES ASSUME NEW i \in 0..(l.tail + 1),
                        NEW j \in 0..(l.tail + 1), i <= j
                 PROVE  w.byteAt[i] <= w.byteAt[j]
      OBVIOUS
    <3>1. CASE j \in 0..l.tail
      <4>1. i \in 0..l.tail
        BY <1>c, <3>1
      <4>2. l.byteAt[i] <= l.byteAt[j]
        BY <1>0, <3>1, <4>1 DEF Segmented
      <4>3. w.byteAt[i] = l.byteAt[i] /\ w.byteAt[j] = l.byteAt[j]
        BY <1>b, <3>1, <4>1
      <4> QED BY <4>2, <4>3
    <3>2. CASE j = l.tail + 1 /\ i \in 0..l.tail
      <4>1. l.byteAt[i] <= l.byteAt[l.tail] /\ l.byteAt[i] \in Nat
            /\ l.byteAt[l.tail] \in Nat
        BY <1>0, <1>c, <2>0, <3>2 DEF Segmented
      <4> QED BY <1>b, <3>2, <4>1
    <3>3. CASE j = l.tail + 1 /\ i = l.tail + 1
      BY <1>b, <1>c, <2>0, <3>3
    <3> QED BY <1>c, <3>1, <3>2, <3>3
  <2> QED BY <1>0, <1>a, <1>b, <1>c, <2>1 DEF Segmented
<1>3. \A p \in Position : InLog(l, p) =>
        InLog(w, p) /\ IndexOf(w, p) = IndexOf(l, p)
  <2> SUFFICES ASSUME NEW p \in Position, InLog(l, p)
               PROVE  InLog(w, p) /\ IndexOf(w, p) = IndexOf(l, p)
    OBVIOUS
  <2>1. IndexOf(w, p) = IndexOf(l, p)
    BY <1>a DEF IndexOf
  <2>2. /\ IndexOf(l, p) \in Nat /\ EndOf(l, p.segment) \in Nat
        /\ IndexOf(l, p) <= EndOf(l, p.segment)
    BY <1>0, IndexType DEF InLog
  <2>3. CASE p.segment = l.active
    BY <1>a, <1>c, <2>1, <2>2, <2>3 DEF InLog, EndOf
  <2>4. CASE p.segment # l.active
    BY <1>a, <1>c, <2>1, <2>2, <2>4 DEF InLog, EndOf
  <2> QED BY <2>3, <2>4
<1>4. l.cursor \in Position /\ l.saved \in Position
      /\ InLog(l, l.cursor) /\ InLog(l, l.saved)
  BY <1>0 DEF LogType, CursorsOrdered
<1>5. CursorsOrdered(w)
  BY <1>0, <1>a, <1>3, <1>4 DEF CursorsOrdered
<1>6. CountersExact(w)
  <2>1. IndexOf(l, l.cursor) \in Nat
    BY <1>0, <1>4, IndexType DEF InLog
  <2>2. /\ l.lo \in 0..l.active /\ l.active \in 0..l.active
        /\ l.tail \in 0..l.tail
    BY <1>0 DEF LogType
  <2>3. l.first[l.lo] \in 0..l.tail /\ l.first[l.active] \in 0..l.tail
    BY <1>0, <1>c, <2>2, EndOrder
  <2>4. /\ w.byteAt[l.first[l.lo]] = l.byteAt[l.first[l.lo]]
        /\ w.byteAt[l.first[l.active]] = l.byteAt[l.first[l.active]]
        /\ l.byteAt[l.first[l.lo]] \in Nat
        /\ l.byteAt[l.first[l.active]] \in Nat
        /\ l.byteAt[l.tail] \in Nat
    <3>1. \A i \in 0..l.tail : l.byteAt[i] \in Nat
      BY <1>0 DEF LogType
    <3>2. l.byteAt[l.tail] \in Nat
      BY <2>2, <3>1
    <3>3. /\ w.byteAt[l.first[l.lo]] = l.byteAt[l.first[l.lo]]
          /\ l.byteAt[l.first[l.lo]] \in Nat
      BY <1>b, <2>3, <3>1
    <3>4. /\ w.byteAt[l.first[l.active]] = l.byteAt[l.first[l.active]]
          /\ l.byteAt[l.first[l.active]] \in Nat
      BY <1>b, <2>3, <3>1
    <3> QED BY <3>2, <3>3, <3>4
  <2>5. w.pending = w.tail - IndexOf(w, w.cursor)
    BY <1>0, <1>a, <1>c, <1>3, <1>4, <2>1 DEF CountersExact
  <2>6. /\ l.diskBytes = l.byteAt[l.tail] - l.byteAt[l.first[l.lo]]
        /\ l.activeBytes = l.byteAt[l.tail] - l.byteAt[l.first[l.active]]
    BY <1>0 DEF CountersExact
  <2>7. w.diskBytes = w.byteAt[w.tail] - w.byteAt[w.first[w.lo]]
    BY <1>a, <1>b, <2>4, <2>6
  <2>8. w.activeBytes = w.byteAt[w.tail] - w.byteAt[w.first[w.active]]
    BY <1>a, <1>b, <2>4, <2>6
  <2> QED BY <2>5, <2>7, <2>8 DEF CountersExact
<1> QED BY <1>1, <1>2, <1>3, <1>5, <1>6 DEF LogInv, w

(* `append`: old positions keep their meaning, and at most the record just *)
(* written is not synced after a roll.                                     *)
LEMMA AppendInv ==
  ASSUME NEW l, LogInv(l), NEW size \in Nat, NEW segmentBytes
  PROVE  LET a == AppendRecord(l, size, segmentBytes) IN
         /\ LogInv(a)
         /\ \A p \in Position : InLog(l, p) =>
              InLog(a, p) /\ IndexOf(a, p) = IndexOf(l, p)
         /\ a.lo = l.lo /\ a.cursor = l.cursor /\ a.saved = l.saved
         /\ a.tail = l.tail + 1
         /\ IF MustRoll(l, segmentBytes)
              THEN /\ a.active = l.active + 1 /\ a.synced = l.tail
                   /\ a.first[a.active] = l.tail
              ELSE /\ a.active = l.active /\ a.synced = l.synced
                   /\ a.first = l.first
<1> DEFINE a == AppendRecord(l, size, segmentBytes)
           r == RollSegment(l)
<1>0. LogType(l)
  BY DEF LogInv
<1>1. CASE MustRoll(l, segmentBytes)
  <2>1. a = WriteRecord(r, size)
    BY <1>1 DEF AppendRecord
  <2>2. /\ LogInv(r)
        /\ \A p \in Position : InLog(l, p) =>
             InLog(r, p) /\ IndexOf(r, p) = IndexOf(l, p)
    BY RollInv
  <2>3. /\ r.lo = l.lo /\ r.cursor = l.cursor /\ r.saved = l.saved
        /\ r.tail = l.tail /\ r.active = l.active + 1 /\ r.synced = l.tail
    BY <1>0, RollFields
  <2>4. r.first[l.active + 1] = l.tail
    <3>1. r.first = [s \in 0..(l.active + 1) |->
                       IF s = l.active + 1 THEN l.tail ELSE l.first[s]]
      BY <1>0, RollFields
    <3>2. l.active + 1 \in 0..(l.active + 1)
      BY <1>0 DEF LogType
    <3> HIDE DEF r
    <3> QED BY <3>1, <3>2
  <2> HIDE DEF a, r
  <2>5. /\ LogInv(a)
        /\ \A p \in Position : InLog(r, p) =>
             InLog(a, p) /\ IndexOf(a, p) = IndexOf(r, p)
    BY <2>1, <2>2, WriteInv
  <2>6. /\ a.lo = r.lo /\ a.cursor = r.cursor /\ a.saved = r.saved
        /\ a.tail = r.tail + 1 /\ a.active = r.active
        /\ a.synced = r.synced /\ a.first = r.first
    <3>1. LogType(r)
      BY <2>2 DEF LogInv
    <3> QED BY <2>1, <3>1 DEF LogType, WriteRecord
  <2> QED BY <1>1, <2>2, <2>3, <2>4, <2>5, <2>6 DEF a
<1>2. CASE ~MustRoll(l, segmentBytes)
  <2>1. a = WriteRecord(l, size)
    BY <1>2 DEF AppendRecord
  <2> HIDE DEF a
  <2>2. /\ LogInv(a)
        /\ \A p \in Position : InLog(l, p) =>
             InLog(a, p) /\ IndexOf(a, p) = IndexOf(l, p)
    BY <2>1, WriteInv
  <2>3. /\ a.lo = l.lo /\ a.cursor = l.cursor /\ a.saved = l.saved
        /\ a.tail = l.tail + 1 /\ a.active = l.active
        /\ a.synced = l.synced /\ a.first = l.first
    BY <1>0, <2>1 DEF LogType, WriteRecord
  <2> QED BY <1>2, <2>2, <2>3 DEF a
<1> QED BY <1>1, <1>2

-----------------------------------------------------------------------------
(* Confirming.                                                             *)

(* What the counters of a well-formed log say about its cursor. *)
LEMMA CursorFacts ==
  ASSUME NEW l, LogInv(l)
  PROVE  /\ l.cursor \in Position /\ InLog(l, l.cursor)
         /\ l.cursor.segment \in 0..l.active
         /\ l.saved \in Position /\ InLog(l, l.saved)
         /\ IndexOf(l, l.cursor) \in Nat
         /\ IndexOf(l, l.cursor) <= l.synced
         /\ l.synced \in Nat /\ l.tail \in Nat /\ l.synced <= l.tail
         /\ l.lo \in 0..l.active /\ l.active \in Nat
         /\ l.pending = l.tail - IndexOf(l, l.cursor)
<1>1. LogType(l) /\ CursorsOrdered(l) /\ CountersExact(l)
  BY DEF LogInv
<1>2. l.cursor \in Position /\ InLog(l, l.cursor)
      /\ l.saved \in Position /\ InLog(l, l.saved)
  BY <1>1 DEF LogType, CursorsOrdered
<1>3. IndexOf(l, l.cursor) \in Nat
  BY <1>1, <1>2, IndexType DEF InLog
<1>4. l.cursor.segment \in 0..l.active
  BY <1>1, <1>2 DEF LogType, InLog, Position
<1>5. /\ l.synced \in Nat /\ l.tail \in Nat /\ l.synced <= l.tail
      /\ l.lo \in 0..l.active /\ l.active \in Nat
  BY <1>1 DEF LogType
<1> QED BY <1>1, <1>2, <1>3, <1>4, <1>5 DEF CursorsOrdered, CountersExact

(* `commit` in memory: the cursor moves forward to a synced position.      *)
LEMMA MoveCursorFields ==
  ASSUME NEW l, LogType(l), NEW p
  PROVE  /\ MoveCursor(l, p).lo = l.lo
         /\ MoveCursor(l, p).active = l.active
         /\ MoveCursor(l, p).first = l.first
         /\ MoveCursor(l, p).tail = l.tail
         /\ MoveCursor(l, p).byteAt = l.byteAt
         /\ MoveCursor(l, p).cursor = p
         /\ MoveCursor(l, p).saved = l.saved
         /\ MoveCursor(l, p).pending =
              SaturatingSub(l.pending, CountBetween(l, l.cursor, p))
         /\ MoveCursor(l, p).diskBytes = l.diskBytes
         /\ MoveCursor(l, p).activeBytes = l.activeBytes
         /\ MoveCursor(l, p).dropped = l.dropped
         /\ MoveCursor(l, p).synced = l.synced
         /\ DOMAIN MoveCursor(l, p) = DOMAIN l
BY DEF LogType, MoveCursor

LEMMA MoveCursorInv ==
  ASSUME NEW l, LogInv(l), NEW p \in Position, InLog(l, p),
         Before(l.cursor, p), IndexOf(l, p) <= l.synced
  PROVE  LogInv(MoveCursor(l, p))
<1> DEFINE m == MoveCursor(l, p)
<1>0. LogType(l) /\ Segmented(l) /\ CursorsOrdered(l) /\ CountersExact(l)
  BY DEF LogInv
<1>a. /\ m.lo = l.lo /\ m.active = l.active /\ m.first = l.first
      /\ m.tail = l.tail /\ m.byteAt = l.byteAt /\ m.cursor = p
      /\ m.saved = l.saved /\ m.diskBytes = l.diskBytes
      /\ m.activeBytes = l.activeBytes /\ m.dropped = l.dropped
      /\ m.synced = l.synced /\ DOMAIN m = DOMAIN l
      /\ m.pending = SaturatingSub(l.pending, CountBetween(l, l.cursor, p))
  BY <1>0, MoveCursorFields
<1> HIDE DEF m
<1>b. \A q : IndexOf(m, q) = IndexOf(l, q) /\ (InLog(m, q) <=> InLog(l, q))
  BY <1>a DEF IndexOf, EndOf, InLog
<1>c. IndexOf(l, p) \in Nat /\ p.segment \in Nat /\ p.offset \in Nat
  BY <1>0, IndexType DEF InLog, Position
<1>d. /\ l.cursor \in Position /\ InLog(l, l.cursor)
      /\ l.saved \in Position /\ InLog(l, l.saved)
      /\ IndexOf(l, l.cursor) \in Nat
      /\ l.synced \in Nat /\ l.tail \in Nat /\ l.synced <= l.tail
      /\ l.pending = l.tail - IndexOf(l, l.cursor)
      /\ l.lo \in Nat
  BY CursorFacts
<1>e. /\ l.cursor.segment \in Nat /\ l.cursor.offset \in Nat
      /\ l.saved.segment \in Nat /\ l.saved.offset \in Nat
  BY <1>d DEF Position
<1>1. IndexOf(l, l.cursor) <= IndexOf(l, p)
  <2>1. ~Before(p, l.cursor)
    BY <1>c, <1>e DEF Before
  <2> QED BY <1>0, <1>d, <2>1, BeforeIndex
<1>2. m.pending = m.tail - IndexOf(m, m.cursor) /\ m.pending \in Nat
  <2>1. CountBetween(l, l.cursor, p) = IndexOf(l, p) - IndexOf(l, l.cursor)
    BY <1>1, <1>c, <1>d DEF CountBetween, SaturatingSub
  <2>2. m.pending = l.tail - IndexOf(l, p)
    BY <1>1, <1>a, <1>c, <1>d, <2>1 DEF SaturatingSub
  <2> QED BY <1>a, <1>b, <1>c, <1>d, <2>2
<1>3. LogType(m)
  BY <1>0, <1>2, <1>a DEF LogType
<1>4. Segmented(m)
  BY <1>0, <1>a DEF Segmented
<1>5. CursorsOrdered(m)
  <2>1. l.lo <= p.segment
    BY <1>0, <1>c, <1>d, <1>e DEF Before, CursorsOrdered
  <2>2. ~Before(p, l.saved)
    BY <1>0, <1>c, <1>e DEF Before, CursorsOrdered
  <2> QED BY <1>a, <1>b, <1>d, <2>1, <2>2 DEF CursorsOrdered
<1>6. CountersExact(m)
  BY <1>0, <1>2, <1>a DEF CountersExact
<1> QED BY <1>3, <1>4, <1>5, <1>6 DEF LogInv, m

(* Writing the cursor file. *)
LEMMA SaveCursorFields ==
  ASSUME NEW l, LogType(l)
  PROVE  /\ SaveCursor(l).lo = l.lo /\ SaveCursor(l).active = l.active
         /\ SaveCursor(l).first = l.first /\ SaveCursor(l).tail = l.tail
         /\ SaveCursor(l).byteAt = l.byteAt
         /\ SaveCursor(l).cursor = l.cursor
         /\ SaveCursor(l).saved = l.cursor
         /\ SaveCursor(l).pending = l.pending
         /\ SaveCursor(l).diskBytes = l.diskBytes
         /\ SaveCursor(l).activeBytes = l.activeBytes
         /\ SaveCursor(l).dropped = l.dropped
         /\ SaveCursor(l).synced = l.synced
         /\ DOMAIN SaveCursor(l) = DOMAIN l
BY DEF LogType, SaveCursor

LEMMA SaveCursorInv ==
  ASSUME NEW l, LogInv(l)
  PROVE  LogInv(SaveCursor(l))
<1> DEFINE m == SaveCursor(l)
<1>0. LogType(l) /\ Segmented(l) /\ CursorsOrdered(l) /\ CountersExact(l)
  BY DEF LogInv
<1>a. /\ m.lo = l.lo /\ m.active = l.active /\ m.first = l.first
      /\ m.tail = l.tail /\ m.byteAt = l.byteAt /\ m.cursor = l.cursor
      /\ m.saved = l.cursor /\ m.diskBytes = l.diskBytes
      /\ m.activeBytes = l.activeBytes /\ m.dropped = l.dropped
      /\ m.synced = l.synced /\ DOMAIN m = DOMAIN l /\ m.pending = l.pending
  BY <1>0, SaveCursorFields
<1> HIDE DEF m
<1>b. \A q : IndexOf(m, q) = IndexOf(l, q) /\ (InLog(m, q) <=> InLog(l, q))
  BY <1>a DEF IndexOf, EndOf, InLog
<1>1. LogType(m)
  BY <1>0, <1>a DEF LogType
<1>2. Segmented(m)
  BY <1>0, <1>a DEF Segmented
<1>3. CursorsOrdered(m)
  <2>1. l.cursor.segment \in Nat /\ l.cursor.offset \in Nat
    BY <1>0 DEF LogType, Position
  <2>2. ~Before(l.cursor, l.cursor)
    BY <2>1 DEF Before
  <2> QED BY <1>0, <1>a, <1>b, <2>2 DEF CursorsOrdered
<1>4. CountersExact(m)
  BY <1>0, <1>a, <1>b DEF CountersExact
<1> QED BY <1>1, <1>2, <1>3, <1>4 DEF LogInv, m

-----------------------------------------------------------------------------
(* Removing segments.                                                      *)

(* The disk use left when the oldest segments up to s are removed.         *)
LEMMA BytesLeft ==
  ASSUME NEW l, LogInv(l), NEW s \in l.lo..l.active
  PROVE  /\ l.byteAt[l.first[s]] \in Nat
         /\ l.byteAt[l.first[l.lo]] \in Nat
         /\ l.byteAt[l.tail] \in Nat
         /\ l.byteAt[l.first[l.lo]] <= l.byteAt[l.first[s]]
         /\ l.byteAt[l.first[s]] <= l.byteAt[l.tail]
         /\ SaturatingSub(l.diskBytes,
              l.byteAt[l.first[s]] - l.byteAt[l.first[l.lo]])
              = l.byteAt[l.tail] - l.byteAt[l.first[s]]
<1>0. LogType(l) /\ Segmented(l) /\ CountersExact(l)
  BY DEF LogInv
<1>1. /\ l.lo \in 0..l.active /\ s \in 0..l.active /\ l.lo <= s
      /\ l.tail \in 0..l.tail /\ l.tail \in Nat
  BY <1>0 DEF LogType
<1>2. l.first[l.lo] \in 0..l.tail
  BY <1>0, <1>1, EndOrder
<1>3. l.first[s] \in 0..l.tail
  BY <1>0, <1>1, EndOrder
<1>4. l.first[l.lo] <= l.first[s]
  BY <1>0, <1>1 DEF Segmented
<1>5. \A i \in 0..l.tail : l.byteAt[i] \in Nat
  BY <1>0 DEF LogType
<1>6. l.byteAt[l.first[s]] \in Nat /\ l.byteAt[l.first[l.lo]] \in Nat
  BY <1>2, <1>3, <1>5
<1>7. l.byteAt[l.tail] \in Nat
  BY <1>1, <1>5
<1>8. l.byteAt[l.first[l.lo]] <= l.byteAt[l.first[s]]
  BY <1>0, <1>2, <1>3, <1>4 DEF Segmented
<1>9. l.byteAt[l.first[s]] <= l.byteAt[l.tail]
  BY <1>0, <1>1, <1>3 DEF Segmented
<1>10. l.diskBytes = l.byteAt[l.tail] - l.byteAt[l.first[l.lo]]
  BY <1>0 DEF CountersExact
<1> QED BY <1>6, <1>7, <1>8, <1>9, <1>10 DEF SaturatingSub

(* The bytes of the oldest segment of several. *)
LEMMA OldestBytes ==
  ASSUME NEW l, LogInv(l), l.lo # l.active
  PROVE  /\ l.lo + 1 \in l.lo..l.active
         /\ EndOf(l, l.lo) = l.first[l.lo + 1]
         /\ SaturatingSub(l.diskBytes, BytesOf(l, l.lo))
              = l.byteAt[l.tail] - l.byteAt[l.first[l.lo + 1]]
         /\ l.byteAt[l.tail] - l.byteAt[l.first[l.lo + 1]] \in Nat
<1>1. l.lo + 1 \in l.lo..l.active
  BY DEF LogInv, LogType
<1>2. EndOf(l, l.lo) = l.first[l.lo + 1]
  BY DEF EndOf
<1>3. BytesOf(l, l.lo)
        = l.byteAt[l.first[l.lo + 1]] - l.byteAt[l.first[l.lo]]
  BY <1>2 DEF BytesOf
<1> DEFINE n == l.lo + 1
<1>4. /\ l.byteAt[l.first[n]] \in Nat /\ l.byteAt[l.tail] \in Nat
      /\ l.byteAt[l.first[n]] <= l.byteAt[l.tail]
      /\ SaturatingSub(l.diskBytes,
              l.byteAt[l.first[n]] - l.byteAt[l.first[l.lo]])
              = l.byteAt[l.tail] - l.byteAt[l.first[n]]
  <2> HIDE DEF n
  <2>1. n \in l.lo..l.active
    BY <1>1 DEF n
  <2> QED BY <2>1, BytesLeft
<1>5. l.byteAt[l.tail] - l.byteAt[l.first[n]] \in Nat
  BY <1>4
<1> QED BY <1>1, <1>2, <1>3, <1>4, <1>5

(* `collect_consumed_segments` removes one file. *)
LEMMA RemoveObsoleteInv ==
  ASSUME NEW l, LogInv(l), HasObsolete(l)
  PROVE  LogInv(RemoveObsolete(l))
<1> DEFINE m == RemoveObsolete(l)
<1>0. LogType(l) /\ Segmented(l) /\ CursorsOrdered(l) /\ CountersExact(l)
  BY DEF LogInv
<1>a. /\ m.lo = l.lo + 1 /\ m.active = l.active /\ m.first = l.first
      /\ m.tail = l.tail /\ m.byteAt = l.byteAt /\ m.cursor = l.cursor
      /\ m.saved = l.saved /\ m.pending = l.pending
      /\ m.activeBytes = l.activeBytes /\ m.dropped = l.dropped
      /\ m.synced = l.synced /\ DOMAIN m = DOMAIN l
      /\ m.diskBytes = SaturatingSub(l.diskBytes, BytesOf(l, l.lo))
  BY <1>0 DEF LogType, RemoveObsolete
<1> HIDE DEF m
<1>b. \A q : IndexOf(m, q) = IndexOf(l, q) /\ (InLog(m, q) <=> InLog(l, q))
  BY <1>a DEF IndexOf, EndOf, InLog
<1>c. /\ l.lo \in Nat /\ l.lo + 1 \in l.lo..l.active
      /\ l.cursor.segment \in Nat /\ l.lo + 1 <= l.cursor.segment
  BY <1>0, OldestBytes, SMTT(40) DEF HasObsolete, LogType, Position
<1>d. /\ m.diskBytes = l.byteAt[l.tail] - l.byteAt[l.first[l.lo + 1]]
      /\ m.diskBytes \in Nat
  BY <1>a, OldestBytes DEF HasObsolete
<1>1. LogType(m)
  BY <1>0, <1>a, <1>c, <1>d, SMTT(40) DEF LogType
<1>2. Segmented(m)
  BY <1>0, <1>a DEF Segmented
<1>3. CursorsOrdered(m)
  BY <1>0, <1>a, <1>b, <1>c DEF CursorsOrdered
<1>4. CountersExact(m)
  BY <1>0, <1>a, <1>b, <1>d DEF CountersExact
<1> QED BY <1>1, <1>2, <1>3, <1>4 DEF LogInv, m

(* The whole loop of `collect_consumed_segments`. *)
LEMMA CollectConsumedInv ==
  ASSUME NEW l, LogInv(l)
  PROVE  LogInv(CollectConsumed(l))
<1>1. CASE ~HasObsolete(l)
  BY <1>1 DEF CollectConsumed
<1>2. CASE HasObsolete(l)
  <2> DEFINE m == CollectConsumed(l)
             s == l.cursor.segment
  <2>0. LogType(l) /\ Segmented(l) /\ CursorsOrdered(l) /\ CountersExact(l)
    BY DEF LogInv
  <2>a. /\ m.lo = s /\ m.active = l.active
        /\ m.first = l.first /\ m.tail = l.tail /\ m.byteAt = l.byteAt
        /\ m.cursor = l.cursor /\ m.saved = l.saved /\ m.pending = l.pending
        /\ m.activeBytes = l.activeBytes /\ m.dropped = l.dropped
        /\ m.synced = l.synced /\ DOMAIN m = DOMAIN l
        /\ m.diskBytes =
             SaturatingSub(l.diskBytes,
               l.byteAt[l.first[s]] - l.byteAt[l.first[l.lo]])
    BY <1>2, <2>0 DEF LogType, CollectConsumed
  <2>b. /\ l.lo \in Nat \ {0} /\ l.active \in Nat
        /\ s \in l.lo..l.active /\ s \in Nat \ {0} /\ s <= l.active
    <3>1. l.lo \in Nat \ {0} /\ l.active \in Nat /\ s \in Nat
      BY <2>0 DEF LogType, Position
    <3>2. l.lo < s /\ s <= l.active
      BY <1>2, <2>0 DEF HasObsolete, CursorsOrdered, InLog
    <3> QED BY <3>1, <3>2
  <2> HIDE DEF m, s
  <2>c. m.diskBytes = l.byteAt[l.tail] - l.byteAt[l.first[s]]
    BY <2>a, <2>b, BytesLeft
  <2>d. m.diskBytes \in Nat
    <3>1. /\ l.byteAt[l.first[s]] \in Nat /\ l.byteAt[l.tail] \in Nat
          /\ l.byteAt[l.first[s]] <= l.byteAt[l.tail]
      BY <2>b, BytesLeft
    <3> QED BY <2>c, <3>1
  <2>e. \A q : IndexOf(m, q) = IndexOf(l, q) /\ (InLog(m, q) <=> InLog(l, q))
    BY <2>a DEF IndexOf, EndOf, InLog
  <2>1. LogType(m)
    BY <2>0, <2>a, <2>b, <2>d DEF LogType
  <2>2. Segmented(m)
    BY <2>0, <2>a DEF Segmented
  <2>3. CursorsOrdered(m)
    BY <2>0, <2>a, <2>b, <2>e DEF CursorsOrdered, s
  <2>4. CountersExact(m)
    BY <2>0, <2>a, <2>c, <2>e DEF CountersExact
  <2> QED BY <2>1, <2>2, <2>3, <2>4 DEF LogInv, m
<1> QED BY <1>1, <1>2

(* `drop_oldest_segment` in memory. *)
LEMMA DropOldestFields ==
  ASSUME NEW l, LogType(l)
  PROVE  /\ DropOldest(l).lo = l.lo + 1
         /\ DropOldest(l).active = l.active
         /\ DropOldest(l).first = l.first
         /\ DropOldest(l).tail = l.tail
         /\ DropOldest(l).byteAt = l.byteAt
         /\ DropOldest(l).cursor = ClampCursor(l.cursor, l.lo + 1)
         /\ DropOldest(l).saved = l.saved
         /\ DropOldest(l).pending =
              SaturatingSub(l.pending, UnreadIn(l, l.lo))
         /\ DropOldest(l).diskBytes =
              SaturatingSub(l.diskBytes, BytesOf(l, l.lo))
         /\ DropOldest(l).activeBytes = l.activeBytes
         /\ DropOldest(l).dropped = l.dropped + UnreadIn(l, l.lo)
         /\ DropOldest(l).synced = l.synced
         /\ DOMAIN DropOldest(l) = DOMAIN l
BY DEF LogType, DropOldest

(* What retention reports as lost is the distance the cursor moves. *)
LEMMA DropOldestCursor ==
  ASSUME NEW l, LogInv(l), Droppable(l)
  PROVE  LET c == ClampCursor(l.cursor, l.lo + 1) IN
         /\ c \in Position /\ InLog(l, c) /\ l.lo + 1 <= c.segment
         /\ ~Before(c, l.cursor)
         /\ IndexOf(l, c) \in Nat /\ IndexOf(l, c) <= l.synced
         /\ UnreadIn(l, l.lo) \in Nat
         /\ UnreadIn(l, l.lo) = IndexOf(l, c) - IndexOf(l, l.cursor)
<1> DEFINE c == ClampCursor(l.cursor, l.lo + 1)
<1>0. LogType(l) /\ Segmented(l) /\ CursorsOrdered(l)
  BY DEF LogInv
<1>1. /\ l.cursor \in Position /\ InLog(l, l.cursor)
      /\ IndexOf(l, l.cursor) \in Nat /\ IndexOf(l, l.cursor) <= l.synced
      /\ l.cursor.segment \in Nat /\ l.cursor.offset \in Nat
      /\ l.synced \in Nat
  BY CursorFacts DEF Position
<1>2. /\ l.lo \in Nat /\ l.active \in Nat /\ l.lo < l.active
      /\ l.lo <= l.cursor.segment
  BY <1>0 DEF Droppable, LogType, CursorsOrdered
<1>3. CASE l.lo < l.cursor.segment
  <2>1. c = l.cursor
    BY <1>1, <1>2, <1>3 DEF ClampCursor
  <2>2. UnreadIn(l, l.lo) = 0
    BY <1>3 DEF UnreadIn
  <2>3. ~Before(l.cursor, l.cursor)
    BY <1>1 DEF Before
  <2>4. l.lo + 1 <= l.cursor.segment
    BY <1>1, <1>2, <1>3
  <2>5. IndexOf(l, l.cursor) - IndexOf(l, l.cursor) = 0
    BY <1>1
  <2> HIDE DEF c
  <2> QED BY <1>1, <2>1, <2>2, <2>3, <2>4, <2>5 DEF c
<1>4. CASE l.lo = l.cursor.segment
  <2>1. c = [segment |-> l.lo + 1, offset |-> 0]
    BY <1>1, <1>2, <1>4 DEF ClampCursor
  <2> HIDE DEF c
  <2>2. c \in Position /\ c.segment = l.lo + 1 /\ c.offset = 0
    BY <1>2, <2>1 DEF Position
  <2>3. EndOf(l, l.lo) = l.first[l.lo + 1]
    BY <1>2 DEF EndOf
  <2>4. /\ l.lo + 1 \in 0..l.active
        /\ l.active \in 0..l.active /\ l.lo \in 0..l.active
    BY <1>2
  <2>5. /\ l.first[l.lo + 1] \in Nat
        /\ l.first[l.lo + 1] <= EndOf(l, l.lo + 1)
    <3> DEFINE n == l.lo + 1
    <3> HIDE DEF n
    <3>1. n \in 0..l.active
      BY <2>4 DEF n
    <3>2. l.first[n] \in Nat /\ l.first[n] <= EndOf(l, n)
      BY <1>0, <3>1, EndOrder
    <3> QED BY <3>2 DEF n
  <2>6. IndexOf(l, c) = l.first[l.lo + 1]
    BY <2>2, <2>5 DEF IndexOf
  <2>7. l.first[l.lo + 1] <= l.synced
    BY <1>0, <1>2, <2>3, <2>4, EndOrder
  <2>8. InLog(l, c)
    BY <1>2, <2>2, <2>5, <2>6 DEF InLog
  <2>9. ~Before(c, l.cursor)
    BY <1>1, <1>2, <1>4, <2>2 DEF Before
  <2>10. IndexOf(l, l.cursor) <= l.first[l.lo + 1]
    BY <1>1, <1>4, <2>3 DEF InLog
  <2>11. UnreadIn(l, l.lo) = l.first[l.lo + 1] - IndexOf(l, l.cursor)
    BY <1>2, <1>4, <2>3 DEF UnreadIn
  <2>12. UnreadIn(l, l.lo) \in Nat
    BY <1>1, <2>5, <2>10, <2>11
  <2> QED BY <1>2, <2>2, <2>5, <2>6, <2>7, <2>8, <2>9, <2>11, <2>12 DEF c
<1> QED BY <1>1, <1>2, <1>3, <1>4

LEMMA DropOldestInv ==
  ASSUME NEW l, LogInv(l), Droppable(l)
  PROVE  LogInv(DropOldest(l))
<1> DEFINE m == DropOldest(l)
           c == ClampCursor(l.cursor, l.lo + 1)
<1>0. LogType(l) /\ Segmented(l) /\ CursorsOrdered(l) /\ CountersExact(l)
  BY DEF LogInv
<1>a. /\ m.lo = l.lo + 1 /\ m.active = l.active /\ m.first = l.first
      /\ m.tail = l.tail /\ m.byteAt = l.byteAt /\ m.cursor = c
      /\ m.saved = l.saved /\ m.activeBytes = l.activeBytes
      /\ m.synced = l.synced /\ DOMAIN m = DOMAIN l
      /\ m.pending = SaturatingSub(l.pending, UnreadIn(l, l.lo))
      /\ m.dropped = l.dropped + UnreadIn(l, l.lo)
      /\ m.diskBytes = SaturatingSub(l.diskBytes, BytesOf(l, l.lo))
  BY <1>0, DropOldestFields
<1>c. /\ c \in Position /\ InLog(l, c) /\ l.lo + 1 <= c.segment
      /\ ~Before(c, l.cursor)
      /\ IndexOf(l, c) \in Nat /\ IndexOf(l, c) <= l.synced
      /\ UnreadIn(l, l.lo) \in Nat
      /\ UnreadIn(l, l.lo) = IndexOf(l, c) - IndexOf(l, l.cursor)
  BY DropOldestCursor
<1> HIDE DEF m, c
<1>b. \A q : IndexOf(m, q) = IndexOf(l, q) /\ (InLog(m, q) <=> InLog(l, q))
  BY <1>a DEF IndexOf, EndOf, InLog
<1>d. /\ l.synced \in Nat /\ l.tail \in Nat /\ l.synced <= l.tail
      /\ IndexOf(l, l.cursor) \in Nat
      /\ l.pending = l.tail - IndexOf(l, l.cursor)
      /\ l.lo \in Nat
  BY CursorFacts
<1>1. m.pending = m.tail - IndexOf(m, m.cursor) /\ m.pending \in Nat
  <2>1. m.pending = l.tail - IndexOf(l, c)
    BY <1>a, <1>c, <1>d DEF SaturatingSub
  <2> QED BY <1>a, <1>b, <1>c, <1>d, <2>1
<1>2. /\ m.diskBytes = l.byteAt[l.tail] - l.byteAt[l.first[l.lo + 1]]
      /\ m.diskBytes \in Nat
      /\ l.lo + 1 \in l.lo..l.active
  BY <1>a, OldestBytes DEF Droppable
<1>3. m.dropped \in Nat
  <2>1. l.dropped \in Nat
    BY <1>0 DEF LogType
  <2> QED BY <1>a, <1>c, <2>1
<1>4. LogType(m)
  <2>1. m.lo \in Nat \ {0} /\ m.lo <= m.active
    BY <1>a, <1>d, <1>2
  <2>2. m.cursor \in Position /\ m.pending \in Nat /\ m.dropped \in Nat
        /\ m.diskBytes \in Nat
    BY <1>a, <1>c, <1>1, <1>2, <1>3
  <2> QED BY <1>0, <1>a, <2>1, <2>2 DEF LogType
<1>5. Segmented(m)
  BY <1>0, <1>a DEF Segmented
<1>6. CursorsOrdered(m)
  <2>1. ~Before(c, l.saved)
    <3>1. /\ c.segment \in Nat /\ c.offset \in Nat
          /\ l.cursor.segment \in Nat /\ l.cursor.offset \in Nat
          /\ l.saved.segment \in Nat /\ l.saved.offset \in Nat
      BY <1>0, <1>c DEF LogType, Position
    <3>2. ~Before(l.cursor, l.saved)
      BY <1>0 DEF CursorsOrdered
    <3> QED BY <1>c, <3>1, <3>2 DEF Before
  <2>2. InLog(l, l.saved)
    BY <1>0 DEF CursorsOrdered
  <2> QED BY <1>a, <1>b, <1>c, <2>1, <2>2 DEF CursorsOrdered
<1>7. CountersExact(m)
  BY <1>0, <1>a, <1>1, <1>2 DEF CountersExact
<1> QED BY <1>4, <1>5, <1>6, <1>7 DEF LogInv, m

-----------------------------------------------------------------------------
(* Recovery.                                                               *)

(* What a stop may leave of a log: the segments lo..hi up to record t,     *)
(* with no synced record missing and the cursor file inside.               *)
Recoverable(l, lo, hi, t) ==
  /\ lo \in 1..hi
  /\ hi \in 1..l.active
  /\ t \in l.synced..l.tail
  /\ l.saved.segment <= hi
  /\ hi < l.active =>
       hi = l.active - 1 /\ l.synced = l.first[l.active] /\ t = l.synced

(* `open` rebuilds a well-formed log from any such state of the files. *)
LEMMA OpenFields ==
  ASSUME NEW l, NEW lo, NEW hi, NEW t
  PROVE  /\ OpenLog(l, lo, hi, t).lo = lo
         /\ OpenLog(l, lo, hi, t).active = hi
         /\ OpenLog(l, lo, hi, t).first = [s \in 0..hi |-> l.first[s]]
         /\ OpenLog(l, lo, hi, t).tail = t
         /\ OpenLog(l, lo, hi, t).byteAt = [i \in 0..t |-> l.byteAt[i]]
         /\ OpenLog(l, lo, hi, t).cursor = ClampCursor(l.saved, lo)
         /\ OpenLog(l, lo, hi, t).saved = l.saved
         /\ OpenLog(l, lo, hi, t).pending =
              SaturatingSub(t, IndexOf(l, ClampCursor(l.saved, lo)))
         /\ OpenLog(l, lo, hi, t).diskBytes =
              l.byteAt[t] - l.byteAt[l.first[lo]]
         /\ OpenLog(l, lo, hi, t).activeBytes =
              l.byteAt[t] - l.byteAt[l.first[hi]]
         /\ OpenLog(l, lo, hi, t).dropped = 0
         /\ OpenLog(l, lo, hi, t).synced = l.synced
         /\ DOMAIN OpenLog(l, lo, hi, t) =
              {"lo", "active", "first", "tail", "byteAt", "cursor", "saved",
               "pending", "diskBytes", "activeBytes", "dropped", "synced"}
BY DEF OpenLog

(* Where reading resumes after a restart. *)
LEMMA OpenCursor ==
  ASSUME NEW l, LogInv(l), NEW lo, NEW hi, NEW t, Recoverable(l, lo, hi, t)
  PROVE  LET c == ClampCursor(l.saved, lo) IN
         /\ c \in Position /\ InLog(l, c)
         /\ lo <= c.segment /\ c.segment <= hi
         /\ ~Before(c, l.saved)
         /\ IndexOf(l, c) \in Nat /\ IndexOf(l, c) <= l.synced
         /\ IndexOf(l, l.saved) <= IndexOf(l, c)
<1> DEFINE c == ClampCursor(l.saved, lo)
<1>0. LogType(l) /\ Segmented(l) /\ CursorsOrdered(l)
  BY DEF LogInv
<1>1. /\ lo \in Nat /\ hi \in Nat /\ lo <= hi /\ hi <= l.active
      /\ l.active \in Nat /\ l.saved.segment <= hi
      /\ l.synced \in Nat /\ lo \in 0..l.active
  BY <1>0 DEF Recoverable, LogType
<1>2. /\ l.saved \in Position /\ InLog(l, l.saved)
      /\ l.saved.segment \in Nat /\ l.saved.offset \in Nat
      /\ l.cursor \in Position /\ InLog(l, l.cursor)
      /\ IndexOf(l, l.cursor) \in Nat /\ IndexOf(l, l.cursor) <= l.synced
  BY CursorFacts DEF Position
<1>3. IndexOf(l, l.saved) \in Nat
  BY <1>0, <1>2, IndexType DEF InLog
<1>4. IndexOf(l, l.saved) <= l.synced
  <2>1. IndexOf(l, l.saved) <= IndexOf(l, l.cursor)
    BY <1>0, <1>2, BeforeIndex DEF CursorsOrdered
  <2> QED BY <1>1, <1>2, <1>3, <2>1
<1>5. CASE lo <= l.saved.segment
  <2>1. c = l.saved
    BY <1>1, <1>2, <1>5 DEF ClampCursor
  <2>2. ~Before(l.saved, l.saved)
    BY <1>2 DEF Before
  <2> HIDE DEF c
  <2> QED BY <1>1, <1>2, <1>3, <1>4, <1>5, <2>1, <2>2 DEF c
<1>6. CASE l.saved.segment < lo
  <2>1. c = [segment |-> lo, offset |-> 0]
    BY <1>6 DEF ClampCursor
  <2> HIDE DEF c
  <2>2. c \in Position /\ c.segment = lo /\ c.offset = 0
    BY <1>1, <2>1 DEF Position
  <2>3. l.first[lo] \in Nat /\ l.first[lo] <= EndOf(l, lo)
    BY <1>0, <1>1, EndOrder
  <2>4. IndexOf(l, c) = l.first[lo]
    BY <2>2, <2>3 DEF IndexOf
  <2>5. l.first[lo] <= l.synced
    <3>1. l.active \in 0..l.active
      BY <1>1
    <3>2. /\ l.first[lo] <= l.first[l.active] /\ l.first[l.active] \in Nat
          /\ l.first[l.active] <= l.synced
      BY <1>0, <1>1, <3>1, EndOrder DEF Segmented
    <3> QED BY <1>1, <2>3, <3>2
  <2>6. InLog(l, c)
    BY <1>1, <2>2, <2>3, <2>4 DEF InLog
  <2>7. ~Before(c, l.saved)
    BY <1>1, <1>2, <1>6, <2>2 DEF Before
  <2>8. IndexOf(l, l.saved) <= IndexOf(l, c)
    BY <1>0, <1>2, <2>2, <2>6, <2>7, BeforeIndex
  <2> QED BY <1>1, <2>2, <2>3, <2>4, <2>5, <2>6, <2>7, <2>8 DEF c
<1> QED BY <1>1, <1>2, <1>5, <1>6

LEMMA OpenInv ==
  ASSUME NEW l, LogInv(l), NEW lo, NEW hi, NEW t, Recoverable(l, lo, hi, t)
  PROVE  /\ LogInv(OpenLog(l, lo, hi, t))
         /\ \A p \in Position :
              InLog(l, p) /\ p.segment <= hi =>
                IndexOf(OpenLog(l, lo, hi, t), p) = IndexOf(l, p)
<1> DEFINE m == OpenLog(l, lo, hi, t)
           c == ClampCursor(l.saved, lo)
<1>0. LogType(l) /\ Segmented(l) /\ CursorsOrdered(l)
  BY DEF LogInv
<1>a. /\ m.lo = lo /\ m.active = hi /\ m.tail = t /\ m.cursor = c
      /\ m.saved = l.saved /\ m.dropped = 0 /\ m.synced = l.synced
      /\ m.first = [s \in 0..hi |-> l.first[s]]
      /\ m.byteAt = [i \in 0..t |-> l.byteAt[i]]
      /\ m.pending = SaturatingSub(t, IndexOf(l, c))
      /\ m.diskBytes = l.byteAt[t] - l.byteAt[l.first[lo]]
      /\ m.activeBytes = l.byteAt[t] - l.byteAt[l.first[hi]]
      /\ DOMAIN m =
           {"lo", "active", "first", "tail", "byteAt", "cursor", "saved",
            "pending", "diskBytes", "activeBytes", "dropped", "synced"}
  BY OpenFields
<1>c. /\ c \in Position /\ InLog(l, c) /\ lo <= c.segment
      /\ c.segment <= hi /\ ~Before(c, l.saved)
      /\ IndexOf(l, c) \in Nat /\ IndexOf(l, c) <= l.synced
  BY OpenCursor
<1> HIDE DEF m, c
<1>d. /\ lo \in Nat \ {0} /\ hi \in Nat \ {0} /\ lo <= hi
      /\ hi <= l.active /\ l.active \in Nat
      /\ l.tail \in Nat /\ l.synced \in Nat /\ t \in Nat
      /\ l.synced <= t /\ t <= l.tail
      /\ lo \in 0..l.active /\ hi \in 0..l.active /\ l.active \in 0..l.active
      /\ lo \in 0..hi /\ hi \in 0..hi
  BY <1>0 DEF Recoverable, LogType
<1>e. /\ \A s \in 0..l.active : l.first[s] \in Nat
      /\ \A i \in 0..l.tail : l.byteAt[i] \in Nat
  BY <1>0 DEF LogType
<1>f. /\ m.first \in [0..hi -> Nat] /\ m.byteAt \in [0..t -> Nat]
      /\ \A s \in 0..hi : m.first[s] = l.first[s]
      /\ \A i \in 0..t : m.byteAt[i] = l.byteAt[i]
  <2>1. \A s \in 0..hi : l.first[s] \in Nat
    BY <1>d, <1>e
  <2>2. \A i \in 0..t : l.byteAt[i] \in Nat
    BY <1>d, <1>e
  <2> QED BY <1>a, <2>1, <2>2
<1>g. /\ l.first[hi] \in Nat /\ l.first[lo] \in Nat
      /\ l.first[lo] <= l.first[hi] /\ l.first[hi] <= l.synced
  <2>1. l.first[hi] <= l.first[l.active] /\ l.first[lo] <= l.first[hi]
        /\ l.first[l.active] <= l.synced
    BY <1>0, <1>d DEF Segmented
  <2> QED BY <1>d, <1>e, <2>1
<1>1. \A s \in 0..hi : EndOf(m, s) = IF s = hi THEN t ELSE EndOf(l, s)
  <2> SUFFICES ASSUME NEW s \in 0..hi
               PROVE  EndOf(m, s) = IF s = hi THEN t ELSE EndOf(l, s)
    OBVIOUS
  <2>1. CASE s = hi
    BY <1>a, <2>1 DEF EndOf
  <2>2. CASE s # hi
    <3>1. s + 1 \in 0..hi /\ s # l.active
      BY <1>d, <2>2
    <3> QED BY <1>a, <1>f, <2>2, <3>1 DEF EndOf
  <2> QED BY <2>1, <2>2
<1>2. \A p \in Position :
        InLog(l, p) /\ p.segment <= hi => IndexOf(m, p) = IndexOf(l, p)
  <2> SUFFICES ASSUME NEW p \in Position, InLog(l, p), p.segment <= hi
               PROVE  IndexOf(m, p) = IndexOf(l, p)
    OBVIOUS
  <2>1. p.segment \in 0..hi
    BY <1>d DEF Position
  <2> QED BY <1>f, <2>1 DEF IndexOf
<1>3. \A p \in Position :
        InLog(l, p) /\ p.segment <= hi /\ IndexOf(l, p) <= l.synced
          => InLog(m, p)
  <2> SUFFICES ASSUME NEW p \in Position, InLog(l, p), p.segment <= hi,
                      IndexOf(l, p) <= l.synced
               PROVE  InLog(m, p)
    OBVIOUS
  <2>1. p.segment \in 0..hi
    BY <1>d DEF Position
  <2>2. IndexOf(l, p) \in Nat
    BY <1>0, IndexType DEF InLog
  <2>3. IndexOf(l, p) <= EndOf(m, p.segment)
    <3>1. CASE p.segment = hi
      BY <1>1, <1>d, <2>1, <2>2, <3>1
    <3>2. CASE p.segment # hi
      BY <1>1, <2>1, <3>2 DEF InLog
    <3> QED BY <3>1, <3>2
  <2> QED BY <1>2, <1>a, <2>3 DEF InLog
<1>4. l.saved \in Position /\ InLog(l, l.saved) /\ l.saved.segment <= hi
      /\ IndexOf(l, l.saved) <= l.synced
  <2>1. /\ l.saved \in Position /\ InLog(l, l.saved)
        /\ IndexOf(l, l.saved) <= IndexOf(l, c)
    BY CursorFacts, OpenCursor DEF c
  <2>2. IndexOf(l, l.saved) \in Nat
    BY <1>0, <2>1, IndexType DEF InLog
  <2> QED BY <1>c, <1>d, <2>1, <2>2 DEF Recoverable
<1>5. /\ l.byteAt[l.first[lo]] \in Nat /\ l.byteAt[l.first[hi]] \in Nat
      /\ l.byteAt[t] \in Nat
      /\ l.byteAt[l.first[lo]] <= l.byteAt[t]
      /\ l.byteAt[l.first[hi]] <= l.byteAt[t]
      /\ m.byteAt[m.first[lo]] = l.byteAt[l.first[lo]]
      /\ m.byteAt[m.first[hi]] = l.byteAt[l.first[hi]]
      /\ m.byteAt[t] = l.byteAt[t]
  <2>1. /\ l.first[lo] \in 0..l.tail /\ l.first[hi] \in 0..l.tail
        /\ l.first[lo] \in 0..t /\ l.first[hi] \in 0..t
        /\ t \in 0..l.tail /\ t \in 0..t
        /\ l.first[lo] <= t /\ l.first[hi] <= t
    BY <1>d, <1>g
  <2>2. /\ l.byteAt[l.first[lo]] <= l.byteAt[t]
        /\ l.byteAt[l.first[hi]] <= l.byteAt[t]
    BY <1>0, <2>1 DEF Segmented
  <2>3. m.first[lo] = l.first[lo] /\ m.first[hi] = l.first[hi]
    BY <1>d, <1>f
  <2>4. /\ m.byteAt[l.first[lo]] = l.byteAt[l.first[lo]]
        /\ m.byteAt[l.first[hi]] = l.byteAt[l.first[hi]]
        /\ m.byteAt[t] = l.byteAt[t]
    BY <1>f, <2>1
  <2>5. /\ l.byteAt[l.first[lo]] \in Nat /\ l.byteAt[l.first[hi]] \in Nat
        /\ l.byteAt[t] \in Nat
    BY <1>e, <2>1
  <2> QED BY <2>2, <2>3, <2>4, <2>5
<1>6. m.pending = t - IndexOf(l, c) /\ m.pending \in Nat
  BY <1>a, <1>c, <1>d DEF SaturatingSub
<1>7. LogType(m)
  <2>1. m.diskBytes \in Nat /\ m.activeBytes \in Nat
    <3>1. l.byteAt[t] - l.byteAt[l.first[lo]] \in Nat
      BY <1>5
    <3>2. l.byteAt[t] - l.byteAt[l.first[hi]] \in Nat
      BY <1>5
    <3> QED BY <1>a, <3>1, <3>2
  <2>2. m.synced \in 0..m.tail /\ m.tail \in Nat /\ m.dropped \in Nat
    BY <1>a, <1>d
  <2>3. m.cursor \in Position /\ m.saved \in Position /\ m.pending \in Nat
    BY <1>a, <1>c, <1>4, <1>6
  <2>4. m.lo \in Nat \ {0} /\ m.active \in Nat \ {0} /\ m.lo <= m.active
    BY <1>a, <1>d
  <2>5. m.first \in [0..m.active -> Nat] /\ m.byteAt \in [0..m.tail -> Nat]
    BY <1>a, <1>f
  <2> QED BY <1>a, <2>1, <2>2, <2>3, <2>4, <2>5 DEF LogType
<1>8. Segmented(m)
  <2>1. \A s, u \in 0..hi : s <= u => m.first[s] <= m.first[u]
    <3>1. \A s, u \in 0..hi : s <= u => l.first[s] <= l.first[u]
      BY <1>0, <1>d DEF Segmented
    <3> QED BY <1>f, <3>1
  <2>2. \A i, j \in 0..t : i <= j => m.byteAt[i] <= m.byteAt[j]
    <3>1. \A i, j \in 0..t : i <= j => l.byteAt[i] <= l.byteAt[j]
      BY <1>0, <1>d DEF Segmented
    <3> QED BY <1>f, <3>1
  <2>3. m.first[hi] <= l.synced
    BY <1>d, <1>f, <1>g
  <2> QED BY <1>a, <2>1, <2>2, <2>3 DEF Segmented
<1>9. CursorsOrdered(m)
  <2>1. InLog(m, c) /\ InLog(m, l.saved)
    BY <1>3, <1>4, <1>c
  <2>2. IndexOf(m, c) <= l.synced
    BY <1>2, <1>c
  <2> QED BY <1>a, <1>c, <2>1, <2>2 DEF CursorsOrdered
<1>10. CountersExact(m)
  <2>1. IndexOf(m, c) = IndexOf(l, c)
    BY <1>2, <1>c
  <2> QED BY <1>5, <1>6, <1>a, <2>1 DEF CountersExact
<1> QED BY <1>2, <1>7, <1>8, <1>9, <1>10 DEF LogInv, m

=============================================================================
