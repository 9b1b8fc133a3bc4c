------------------------ MODULE SegmentedLog_proofs -------------------------
(***************************************************************************)
(* The invariants of SegmentedLog, what the loops over its files count,    *)
(* what retention and collection may do, and that the log implements       *)
(* DurableQueue, for every segment size, every set of record sizes, every  *)
(* batch size and any number of records.                                   *)
(***************************************************************************)
EXTENDS SegmentedLog, WalLog_proofs, WellFoundedInduction

-----------------------------------------------------------------------------
(* The inductive invariant IInv.                                           *)

(* A position stays good while a log only grows or is synced. *)
LEMMA BatchKept ==
  ASSUME NEW l, NEW m, NEW b \in Position,
         b # NoBatch => InLog(l, b) /\ IndexOf(l, b) <= l.synced,
         LogType(l), LogType(m), l.synced <= m.synced,
         InLog(l, b) => InLog(m, b) /\ IndexOf(m, b) = IndexOf(l, b)
  PROVE  b # NoBatch => InLog(m, b) /\ IndexOf(m, b) <= m.synced
<1>1. l.synced \in Nat /\ m.synced \in Nat
  BY DEF LogType
<1>2. InLog(l, b) => IndexOf(l, b) \in Nat
  BY IndexType DEF InLog
<1> QED BY <1>1, <1>2

LEMMA InitIInv == Init => IInv
<1> SUFFICES ASSUME Init PROVE IInv
  OBVIOUS
<1>1. LogInv(log)
  BY EmptyLogInv DEF Init
<1>2. TypeOK
  BY <1>1 DEF Init, TypeOK, LogInv, Position, NoBatch, Steps
<1>3. DirectorySafe
  BY DEF Init, DirectorySafe, EmptyLog
<1>4. BatchSynced
  BY DEF Init, BatchSynced
<1> QED BY <1>1, <1>2, <1>3, <1>4 DEF IInv

(* `append` *)
LEMMA AppendKeeps ==
  ASSUME IInv, NEW size \in Sizes, Append(size)
  PROVE  IInv'
<1>0. LogInv(log) /\ TypeOK /\ DirectorySafe /\ BatchSynced /\ LogType(log)
  BY DEF IInv, LogInv
<1>1. size \in Nat
  BY SizesAssumption
<1>2. log' = AppendRecord(log, size, SegmentBytes)
  BY DEF Append
<1>3. /\ LogInv(log')
      /\ \A p \in Position : InLog(log, p) =>
           InLog(log', p) /\ IndexOf(log', p) = IndexOf(log, p)
      /\ log'.lo = log.lo /\ log'.saved = log.saved
      /\ IF MustRoll(log, SegmentBytes)
           THEN /\ log'.active = log.active + 1 /\ log'.synced = log.tail
                /\ log'.first[log'.active] = log.tail
           ELSE /\ log'.active = log.active /\ log'.synced = log.synced
                /\ log'.first = log.first
  BY <1>0, <1>1, <1>2, AppendInv
<1>4. UNCHANGED <<batch, step, dirLo>>
      /\ dirHi' = IF MustRoll(log, SegmentBytes) THEN log.active ELSE dirHi
  BY DEF Append
<1>5. log.active \in Nat \ {0} /\ dirHi \in Nat \ {0} /\ log.synced <= log.tail
      /\ log.saved.segment \in Nat /\ log.saved.segment <= log.active
      /\ log.synced \in Nat /\ log.tail \in Nat
  BY <1>0 DEF TypeOK, LogType, LogInv, CursorsOrdered, InLog, Position
<1>6. TypeOK'
  BY <1>0, <1>3, <1>4, <1>5 DEF TypeOK, LogInv
<1>7. DirectorySafe'
  <2>1. CASE MustRoll(log, SegmentBytes)
    BY <1>0, <1>3, <1>4, <1>5, <2>1 DEF DirectorySafe
  <2>2. CASE ~MustRoll(log, SegmentBytes)
    BY <1>0, <1>3, <1>4, <1>5, <2>2 DEF DirectorySafe
  <2> QED BY <2>1, <2>2
<1>8. BatchSynced'
  <2>1. LogType(log') /\ log.synced <= log'.synced
    BY <1>3, <1>5 DEF LogInv
  <2>2. batch \in Position
    BY <1>0 DEF TypeOK
  <2> QED BY <1>0, <1>3, <1>4, <2>1, <2>2, BatchKept DEF BatchSynced
<1> QED BY <1>3, <1>6, <1>7, <1>8 DEF IInv

(* `flush`, alone or at the start of append and read_batch. *)
LEMMA FlushKeeps ==
  ASSUME IInv, log' = Flush(log), dirHi' = log.active, dirLo' = dirLo,
         step' = step, batch' \in Position,
         batch' = batch \/ (InLog(log, batch'))
  PROVE  IInv'
<1>0. LogInv(log) /\ TypeOK /\ DirectorySafe /\ BatchSynced
      /\ LogType(log) /\ Segmented(log)
  BY DEF IInv, LogInv
<1>1. LogInv(log')
  BY <1>0, FlushInv
<1>2. /\ log'.lo = log.lo /\ log'.active = log.active
      /\ log'.first = log.first /\ log'.tail = log.tail
      /\ log'.saved = log.saved /\ log'.synced = log.tail
  BY <1>0, FlushFields
<1>3. /\ log.active \in Nat \ {0} /\ log.saved.segment <= log.active
      /\ log.synced <= log.tail /\ log.tail \in Nat /\ log.synced \in Nat
  BY <1>0 DEF LogType, LogInv, CursorsOrdered, InLog
<1>4. \A p : IndexOf(log', p) = IndexOf(log, p)
             /\ (InLog(log', p) <=> InLog(log, p))
  BY <1>2 DEF IndexOf, EndOf, InLog
<1>5. TypeOK'
  BY <1>0, <1>1, <1>3 DEF TypeOK, LogInv
<1>6. DirectorySafe'
  BY <1>0, <1>2, <1>3 DEF DirectorySafe
<1>7. BatchSynced'
  <2>1. InLog(log, batch') => IndexOf(log, batch') <= log.tail
    <3> SUFFICES ASSUME InLog(log, batch')
                 PROVE  IndexOf(log, batch') <= log.tail
      OBVIOUS
    <3>1. batch'.segment \in 0..log.active
      BY <1>3 DEF Position, InLog
    <3>2. EndOf(log, batch'.segment) <= log.tail
          /\ EndOf(log, batch'.segment) \in Nat
      BY <1>0, <3>1, EndOrder
    <3>3. IndexOf(log, batch') \in Nat
      BY <1>0, IndexType DEF InLog
    <3> QED BY <1>3, <3>2, <3>3 DEF InLog
  <2> QED BY <1>0, <1>2, <1>4, <2>1 DEF BatchSynced
<1> QED BY <1>1, <1>5, <1>6, <1>7 DEF IInv

LEMMA ReadKeeps ==
  ASSUME IInv, NEW max \in 1..MaxBatch, Read(max)
  PROVE  IInv'
<1>1. PICK s \in log.lo..log.active, n \in 1..log.tail :
        /\ ReadsUpTo(log, max, [segment |-> s, offset |-> n])
        /\ batch' = [segment |-> s, offset |-> n]
  BY DEF Read
<1>2. s \in Nat /\ n \in Nat /\ s <= log.active
  BY DEF IInv, LogInv, LogType
<1>3. batch' \in Position /\ batch'.segment = s
  BY <1>1, <1>2 DEF Position
<1>4. InLog(log, batch')
  BY <1>1, <1>2, <1>3 DEF ReadsUpTo, InLog
<1> QED BY <1>3, <1>4, FlushKeeps DEF Read

(* The batch `commit` confirms is a synced position behind the cursor. *)
LEMMA CommitFacts ==
  ASSUME IInv, Before(log.cursor, batch)
  PROVE  /\ batch \in Position /\ InLog(log, batch)
         /\ IndexOf(log, batch) \in Nat
         /\ IndexOf(log, batch) <= log.synced
         /\ IndexOf(log, log.cursor) <= IndexOf(log, batch)
<1>0. LogInv(log) /\ LogType(log) /\ Segmented(log) /\ TypeOK /\ BatchSynced
  BY DEF IInv, LogInv
<1>1. /\ log.cursor \in Position /\ InLog(log, log.cursor)
      /\ log.cursor.segment \in Nat /\ log.cursor.offset \in Nat
      /\ batch \in Position /\ batch.segment \in Nat /\ batch.offset \in Nat
  BY <1>0, CursorFacts DEF TypeOK, Position
<1>2. batch # NoBatch
  BY <1>1 DEF Before, NoBatch
<1>3. InLog(log, batch) /\ IndexOf(log, batch) <= log.synced
  BY <1>0, <1>2 DEF BatchSynced
<1>4. IndexOf(log, batch) \in Nat
  BY <1>0, <1>1, <1>3, IndexType DEF InLog
<1>5. ~Before(batch, log.cursor)
  BY <1>1 DEF Before
<1>6. IndexOf(log, log.cursor) <= IndexOf(log, batch)
  BY <1>0, <1>1, <1>3, <1>5, BeforeIndex
<1> QED BY <1>1, <1>3, <1>4, <1>6

(* `commit`, whether or not the cursor file could be written. *)
LEMMA CommitKeeps ==
  ASSUME IInv, Commit \/ CommitFails
  PROVE  IInv'
<1> DEFINE m == MoveCursor(log, batch)
<1>0. LogInv(log) /\ LogType(log) /\ TypeOK /\ DirectorySafe /\ BatchSynced
  BY DEF IInv, LogInv
<1>1. LogInv(m)
  BY <1>0, CommitFacts, MoveCursorInv DEF Commit, CommitFails
<1>2. /\ m.lo = log.lo /\ m.active = log.active /\ m.first = log.first
      /\ m.tail = log.tail /\ m.cursor = batch /\ m.saved = log.saved
      /\ m.synced = log.synced
  BY <1>0, MoveCursorFields
<1>3. /\ Commit => log' = SaveCursor(m)
      /\ CommitFails => log' = m
  BY DEF Commit, CommitFails
<1> HIDE DEF m
<1>4. LogInv(log')
  BY <1>1, <1>3, SaveCursorInv
<1>5. /\ log'.lo = log.lo /\ log'.active = log.active
      /\ log'.first = log.first /\ log'.tail = log.tail
      /\ log'.synced = log.synced /\ log'.cursor = batch
      /\ Commit => log'.saved = batch
      /\ CommitFails => log'.saved = log.saved
  BY <1>1, <1>2, <1>3, SaveCursorFields DEF LogInv
<1>6. \A p : IndexOf(log', p) = IndexOf(log, p)
             /\ (InLog(log', p) <=> InLog(log, p))
  BY <1>5 DEF IndexOf, EndOf, InLog
<1>7. batch' = batch
  BY DEF Commit, CommitFails
<1>8. BatchSynced'
  BY <1>0, <1>5, <1>6, <1>7 DEF BatchSynced
<1>9. CASE Commit
  <2>1. dirLo' = log.lo /\ dirHi' = log.active /\ step' = "collect"
    BY <1>9 DEF Commit, CursorSaved
  <2>2. /\ log.lo \in Nat \ {0} /\ log.active \in Nat \ {0}
        /\ batch.segment <= log.active
    BY <1>0, <1>9, CommitFacts DEF LogType, InLog, Commit
  <2>3. TypeOK'
    BY <1>0, <1>4, <1>7, <2>1, <2>2 DEF TypeOK, LogInv, Steps
  <2>4. DirectorySafe'
    BY <1>5, <1>9, <2>1, <2>2 DEF DirectorySafe
  <2> QED BY <1>4, <1>8, <2>3, <2>4 DEF IInv
<1>10. CASE CommitFails
  <2>1. dirLo' = dirLo /\ dirHi' = dirHi /\ step' = step
    BY <1>10 DEF CommitFails
  <2>2. TypeOK'
    BY <1>0, <1>4, <1>7, <2>1 DEF TypeOK, LogInv
  <2>3. DirectorySafe'
    BY <1>0, <1>5, <1>10, <2>1 DEF DirectorySafe
  <2> QED BY <1>4, <1>8, <2>2, <2>3 DEF IInv
<1> QED BY <1>9, <1>10

(* A file is removed by collection or retention. *)
LEMMA RemovalKeeps ==
  ASSUME IInv, Collect \/ Drop
  PROVE  IInv'
<1>0. LogInv(log) /\ LogType(log) /\ TypeOK /\ DirectorySafe /\ BatchSynced
  BY DEF IInv, LogInv
<1>1. UNCHANGED <<batch, dirLo, dirHi>> /\ step' \in Steps
  BY <1>0 DEF Collect, Drop, Steps, TypeOK
<1>2. /\ LogInv(log') /\ log.lo <= log'.lo
      /\ log'.active = log.active /\ log'.first = log.first
      /\ log'.tail = log.tail /\ log'.saved = log.saved
      /\ log'.synced = log.synced
  <2>0. log.lo \in Nat
    BY <1>0 DEF LogType
  <2>1. CASE Collect /\ ~HasObsolete(log)
    BY <1>0, <2>0, <2>1 DEF Collect
  <2>2. CASE Collect /\ HasObsolete(log)
    <3>1. log' = RemoveObsolete(log)
      BY <2>2 DEF Collect
    <3>2. /\ log'.lo = log.lo + 1
          /\ log'.active = log.active /\ log'.first = log.first
          /\ log'.tail = log.tail /\ log'.saved = log.saved
          /\ log'.synced = log.synced
      BY <1>0, <3>1 DEF LogType, RemoveObsolete
    <3>3. LogInv(log')
      BY <1>0, <2>2, <3>1, RemoveObsoleteInv
    <3> QED BY <2>0, <3>2, <3>3
  <2>3. CASE Drop
    <3>1. log' = DropOldest(log) /\ Droppable(log)
      BY <2>3 DEF Drop
    <3>2. /\ log'.lo = log.lo + 1
          /\ log'.active = log.active /\ log'.first = log.first
          /\ log'.tail = log.tail /\ log'.saved = log.saved
          /\ log'.synced = log.synced
      BY <1>0, <3>1, DropOldestFields
    <3>3. LogInv(log')
      BY <1>0, <3>1, DropOldestInv
    <3> QED BY <2>0, <3>2, <3>3
  <2> QED BY <2>1, <2>2, <2>3
<1>3. \A p : IndexOf(log', p) = IndexOf(log, p)
             /\ (InLog(log', p) <=> InLog(log, p))
  BY <1>2 DEF IndexOf, EndOf, InLog
<1>4. TypeOK'
  BY <1>0, <1>1, <1>2 DEF TypeOK, LogInv
<1>5. DirectorySafe'
  <2>1. dirLo \in Nat /\ log.lo \in Nat /\ log'.lo \in Nat
    BY <1>0, <1>2 DEF TypeOK, LogType, LogInv
  <2> QED BY <1>0, <1>1, <1>2, <2>1 DEF DirectorySafe
<1>6. BatchSynced'
  BY <1>0, <1>1, <1>2, <1>3 DEF BatchSynced
<1> QED BY <1>2, <1>4, <1>5, <1>6 DEF IInv

LEMMA DropSavesCursorKeeps ==
  ASSUME IInv, DropSavesCursor
  PROVE  IInv'
<1>0. LogInv(log) /\ LogType(log) /\ TypeOK /\ DirectorySafe /\ BatchSynced
  BY DEF IInv, LogInv
<1>1. log' = SaveCursor(log) /\ batch' = batch /\ step' = "idle"
      /\ dirLo' = log.lo /\ dirHi' = log.active
  BY DEF DropSavesCursor, CursorSaved
<1>2. LogInv(log')
  BY <1>0, <1>1, SaveCursorInv
<1>3. /\ log'.lo = log.lo /\ log'.active = log.active
      /\ log'.first = log.first /\ log'.tail = log.tail
      /\ log'.saved = log.cursor /\ log'.synced = log.synced
  BY <1>0, <1>1, SaveCursorFields
<1>4. \A p : IndexOf(log', p) = IndexOf(log, p)
             /\ (InLog(log', p) <=> InLog(log, p))
  BY <1>3 DEF IndexOf, EndOf, InLog
<1>5. log.lo \in Nat \ {0} /\ log.active \in Nat \ {0}
      /\ log.cursor.segment <= log.active
  BY <1>0 DEF LogType, LogInv, CursorsOrdered, InLog
<1>6. TypeOK'
  BY <1>0, <1>1, <1>2, <1>5 DEF TypeOK, LogInv, Steps
<1>7. DirectorySafe'
  BY <1>1, <1>3, <1>5 DEF DirectorySafe
<1>8. BatchSynced'
  BY <1>0, <1>1, <1>3, <1>4 DEF BatchSynced
<1> QED BY <1>2, <1>6, <1>7, <1>8 DEF IInv

-----------------------------------------------------------------------------
(* Crashes.                                                                *)

(* Either kind of stop leaves files that `open` can recover from. *)
LEMMA KillRecoverable ==
  ASSUME IInv, NEW t \in log.synced..log.tail
  PROVE  Recoverable(log, log.lo, log.active, t)
<1>1. LogType(log) /\ CursorsOrdered(log)
  BY DEF IInv, LogInv
<1> QED BY <1>1 DEF Recoverable, LogType, CursorsOrdered, InLog

LEMMA KillKeeps ==
  ASSUME IInv, Kill
  PROVE  IInv'
<1>0. LogInv(log) /\ LogType(log) /\ TypeOK /\ DirectorySafe
  BY DEF IInv, LogInv
<1>1. PICK t \in log.synced..log.tail :
        log' = OpenLog(log, log.lo, log.active, t)
  BY DEF Kill
<1>2. LogInv(log')
  BY <1>0, <1>1, KillRecoverable, OpenInv
<1>3. /\ log'.lo = log.lo /\ log'.active = log.active
      /\ log'.first = [s \in 0..log.active |-> log.first[s]]
      /\ log'.saved = log.saved /\ log'.synced = log.synced
  BY <1>1 DEF OpenLog
<1>4. log'.first[log.active] = log.first[log.active]
  <2>1. log.active \in 0..log.active
    BY <1>0 DEF LogType
  <2> QED BY <1>3, <2>1
<1>5. batch' = NoBatch /\ step' = "idle" /\ dirLo' = dirLo /\ dirHi' = dirHi
  BY DEF Kill
<1>6. TypeOK'
  BY <1>0, <1>2, <1>5 DEF TypeOK, LogInv, Steps, NoBatch, Position
<1>7. DirectorySafe'
  BY <1>0, <1>3, <1>4, <1>5 DEF DirectorySafe
<1>8. BatchSynced'
  BY <1>5 DEF BatchSynced
<1> QED BY <1>2, <1>6, <1>7, <1>8 DEF IInv

LEMMA PowerLossRecoverable ==
  ASSUME IInv,
         NEW lo \in dirLo..log.lo, NEW hi \in dirHi..log.active, lo <= hi,
         NEW t \in log.synced..(IF hi = log.active THEN log.tail
                                                   ELSE log.synced)
  PROVE  Recoverable(log, lo, hi, t) /\ t \in log.synced..log.tail
<1>0. LogType(log) /\ TypeOK /\ DirectorySafe /\ CursorsOrdered(log)
  BY DEF IInv, LogInv
<1>1. /\ log.active \in Nat \ {0} /\ log.lo \in Nat \ {0}
      /\ log.saved.segment \in Nat
      /\ dirLo \in Nat \ {0} /\ dirHi \in Nat \ {0}
      /\ log.synced \in Nat /\ log.tail \in Nat /\ log.synced <= log.tail
  BY <1>0 DEF LogType, TypeOK, Position
<1>2. lo \in 1..hi /\ hi \in 1..log.active /\ t \in log.synced..log.tail
  BY <1>1
<1>3. log.saved.segment <= hi
  BY <1>0, <1>1 DEF DirectorySafe
<1>4. hi < log.active =>
        /\ hi = log.active - 1 /\ log.synced = log.first[log.active]
        /\ t = log.synced
  <2> SUFFICES ASSUME hi < log.active
               PROVE  /\ hi = log.active - 1 /\ t = log.synced
                      /\ log.synced = log.first[log.active]
    OBVIOUS
  <2>1. dirHi < log.active
    BY <1>1
  <2>2. dirHi = log.active - 1 /\ log.synced = log.first[log.active]
    BY <1>0, <2>1 DEF DirectorySafe
  <2> QED BY <1>1, <2>2
<1> QED BY <1>2, <1>3, <1>4 DEF Recoverable

(* What came back after a power loss is what is on the platter. *)
LEMMA SurvivorsSynced ==
  ASSUME NEW l, NEW lo, NEW hi, NEW t, LogType(OpenLog(l, lo, hi, t))
  PROVE  [OpenLog(l, lo, hi, t) EXCEPT !.synced = t]
           = Flush(OpenLog(l, lo, hi, t))
<1>1. OpenLog(l, lo, hi, t).tail = t
  BY DEF OpenLog
<1> QED BY <1>1 DEF Flush

LEMMA PowerLossKeeps ==
  ASSUME IInv, PowerLoss
  PROVE  IInv'
<1>0. LogInv(log) /\ LogType(log) /\ TypeOK /\ DirectorySafe
  BY DEF IInv, LogInv
<1>1. PICK lo \in dirLo..log.lo, hi \in dirHi..log.active :
        /\ lo <= hi
        /\ \E t \in log.synced..(IF hi = log.active THEN log.tail
                                                    ELSE log.synced) :
             log' = [OpenLog(log, lo, hi, t) EXCEPT !.synced = t]
        /\ dirLo' = lo
        /\ dirHi' = hi
  BY DEF PowerLoss
<1>2. PICK t \in log.synced..(IF hi = log.active THEN log.tail
                                                 ELSE log.synced) :
        log' = [OpenLog(log, lo, hi, t) EXCEPT !.synced = t]
  BY <1>1
<1> DEFINE m == OpenLog(log, lo, hi, t)
<1>3. Recoverable(log, lo, hi, t)
  BY <1>1, PowerLossRecoverable
<1>4. LogInv(m) /\ LogType(m)
  BY <1>0, <1>3, OpenInv DEF LogInv
<1>5. m.lo = lo /\ m.active = hi /\ m.saved = log.saved
  BY DEF OpenLog
<1>6. log' = Flush(m)
  BY <1>2, <1>4, SurvivorsSynced
<1> HIDE DEF m
<1>7. LogInv(log') /\ log'.lo = lo /\ log'.active = hi
      /\ log'.saved = log.saved
  BY <1>4, <1>5, <1>6, FlushInv, FlushFields
<1>8. batch' = NoBatch /\ step' = "idle" /\ dirLo' = lo /\ dirHi' = hi
  BY <1>1 DEF PowerLoss
<1>9. lo \in Nat \ {0} /\ hi \in Nat \ {0} /\ log.saved.segment <= hi
  BY <1>3, <1>0 DEF Recoverable, LogType
<1>10. TypeOK'
  BY <1>7, <1>8, <1>9 DEF TypeOK, LogInv, Steps, NoBatch, Position
<1>11. DirectorySafe'
  BY <1>7, <1>8, <1>9 DEF DirectorySafe
<1>12. BatchSynced'
  BY <1>8 DEF BatchSynced
<1> QED BY <1>7, <1>10, <1>11, <1>12 DEF IInv

-----------------------------------------------------------------------------

LEMMA NextIInv == IInv /\ [Next]_vars => IInv'
<1> SUFFICES ASSUME IInv, [Next]_vars PROVE IInv'
  OBVIOUS
<1>1. ASSUME NEW size \in Sizes, Append(size) PROVE IInv'
  BY <1>1, AppendKeeps
<1>2. CASE AppendFails \/ Sync
  <2>1. batch \in Position
    BY DEF IInv, TypeOK
  <2> QED BY <1>2, <2>1, FlushKeeps DEF AppendFails, Sync
<1>3. ASSUME NEW max \in 1..MaxBatch, Read(max) PROVE IInv'
  BY <1>3, ReadKeeps
<1>4. CASE Commit \/ CommitFails
  BY <1>4, CommitKeeps
<1>5. CASE Collect \/ Drop
  BY <1>5, RemovalKeeps
<1>6. CASE CollectFails \/ DropFails \/ UNCHANGED vars
  <2>1. UNCHANGED <<log, batch, dirLo, dirHi>> /\ step' \in Steps
    BY <1>6 DEF CollectFails, DropFails, vars, IInv, TypeOK, Steps
  <2> QED BY <2>1 DEF IInv, TypeOK, DirectorySafe, BatchSynced
<1>7. CASE DropSavesCursor
  BY <1>7, DropSavesCursorKeeps
<1>8. CASE Kill
  BY <1>8, KillKeeps
<1>9. CASE PowerLoss
  BY <1>9, PowerLossKeeps
<1> QED BY <1>1, <1>2, <1>3, <1>4, <1>5, <1>6, <1>7, <1>8, <1>9 DEF Next

(* In every reachable state, also between the steps of commit, retention   *)
(* and recovery, the log is well formed and a crash is survivable.         *)
THEOREM Invariance == Spec => []IInv
BY InitIInv, NextIInv, PTL DEF Spec

(* Every variable of the log keeps its type (log.rs:61-78). *)
THEOREM TypeCorrect == Spec => []TypeOK
<1>1. IInv => TypeOK
  BY DEF IInv
<1> QED BY <1>1, Invariance, PTL

(* The counters kept by increments and decrements are the ones a scan of   *)
(* the files would find (log.rs:71-75).                                    *)
THEOREM CountersCorrect == Spec => []CountersMatchFiles
<1>1. IInv => CountersMatchFiles
  BY DEF IInv, LogInv, CountersMatchFiles
<1> QED BY <1>1, Invariance, PTL

(* Recovery never skips an unconfirmed record and never starts behind the  *)
(* end of the log (log.rs:274-281, 397-407).                               *)
THEOREM CursorsCorrect == Spec => []CursorsSafe
<1>1. IInv => CursorsSafe
  BY DEF IInv, LogInv, CursorsSafe
<1> QED BY <1>1, Invariance, PTL

(* A power loss that undoes directory changes leaves the cursor file and   *)
(* the synced records inside the log (log.rs:642-677).                     *)
THEOREM DirectoryCorrect == Spec => []DirectorySafe
<1>1. IInv => DirectorySafe
  BY DEF IInv
<1> QED BY <1>1, Invariance, PTL

(* A batch handed out can be confirmed at any later time without passing a *)
(* record a crash may take away (log.rs:205-209).                          *)
THEOREM BatchCorrect == Spec => []BatchSynced
<1>1. IInv => BatchSynced
  BY DEF IInv
<1> QED BY <1>1, Invariance, PTL

-----------------------------------------------------------------------------
(* The loops that count records.                                           *)

(* A set of naturals has a least member. *)
LEMMA LeastNatural ==
  ASSUME NEW T, T \subseteq Nat, T # {}
  PROVE  \E x \in T : \A y \in T : ~(y < x)
<1>1. PICK x \in T : \A y \in T : ~(<<y, x>> \in OpToRel(<, Nat))
  BY NatLessThanWellFounded, WFMin
<1>2. ASSUME NEW y \in T, y < x
      PROVE  <<y, x>> \in OpToRel(<, Nat)
  BY <1>2 DEF OpToRel
<1> QED BY <1>1, <1>2

Totals(f, n, start, c) ==
  f = [s \in 0..n |-> IF s < start THEN 0 ELSE f[s - 1] + c[s]]

(* A running total is determined by what is added at every step. *)
LEMMA TotalsUnique ==
  ASSUME NEW n \in Nat, NEW start \in Nat \ {0}, NEW c, NEW f, NEW g,
         Totals(f, n, start, c), Totals(g, n, start, c)
  PROVE  f = g
<1> DEFINE T == {s \in 0..n : f[s] # g[s]}
<1>1. /\ DOMAIN f = 0..n /\ DOMAIN g = 0..n
      /\ f = [s \in 0..n |-> f[s]] /\ g = [s \in 0..n |-> g[s]]
      /\ \A s \in 0..n : f[s] = IF s < start THEN 0 ELSE f[s - 1] + c[s]
      /\ \A s \in 0..n : g[s] = IF s < start THEN 0 ELSE g[s - 1] + c[s]
  BY DEF Totals
<1>2. ASSUME T # {} PROVE FALSE
  <2>1. PICK x \in T : \A y \in T : ~(y < x)
    <3>1. PICK U : U = T
      OBVIOUS
    <3>2. U \subseteq Nat /\ U # {}
      BY <1>2, <3>1
    <3>3. \E x \in U : \A y \in U : ~(y < x)
      BY <3>2, LeastNatural
    <3> QED BY <3>1, <3>3
  <2>2. x \in 0..n /\ f[x] # g[x]
    BY <2>1
  <2>3. ~(x < start) /\ x - 1 \in 0..n /\ x - 1 < x
    BY <1>1, <2>2
  <2>4. f[x - 1] = g[x - 1]
    BY <2>1, <2>3
  <2> QED BY <1>1, <2>2, <2>3, <2>4
<1>3. \A s \in 0..n : f[s] = g[s]
  BY <1>2
<1> QED BY <1>1, <1>3

(* A file is counted up to its limit or its end, whichever comes first,    *)
(* if one of them lies behind the place reading starts (log.rs:583-611).   *)
LEMMA FileCounts ==
  ASSUME NEW l, NEW s, NEW from \in Nat, NEW to \in Nat,
         l.first[s] \in Nat, EndOf(l, s) \in Nat,
         l.first[s] + from <= EndOf(l, s),
         from < to \/ EndOf(l, s) <= l.first[s] + to
  PROVE  CountInFile(l, s, from, to) =
           (IF l.first[s] + to <= EndOf(l, s) THEN l.first[s] + to
                                              ELSE EndOf(l, s))
             - (l.first[s] + from)
<1>1. PICK f, e : f = l.first[s] /\ e = EndOf(l, s)
  OBVIOUS
<1>2. /\ f \in Nat /\ e \in Nat /\ f + from <= e
      /\ from < to \/ e <= f + to
  BY <1>1
<1>3. PICK limit : limit = IF to <= from THEN from + 1 ELSE to
  OBVIOUS
<1>4. CountInFile(l, s, from, to) =
        SaturatingSub(IF limit < e - f THEN limit ELSE e - f, from)
  BY <1>1, <1>3 DEF CountInFile
<1>5. SaturatingSub(IF limit < e - f THEN limit ELSE e - f, from) =
        (IF f + to <= e THEN f + to ELSE e) - (f + from)
  BY <1>2, <1>3 DEF SaturatingSub
<1> QED BY <1>1, <1>4, <1>5

(* Where the loop from p to q starts and stops reading file s. *)
From(p, s) == IF s = p.segment THEN p.offset ELSE 0
Upto(l, q, s) == IF s = q.segment THEN q.offset ELSE l.tail

(* The record behind the last one the loop counts in file s, and all it    *)
(* has counted by then.                                                    *)
Reached(l, q, s) ==
  IF l.first[s] + Upto(l, q, s) <= EndOf(l, s)
    THEN l.first[s] + Upto(l, q, s) ELSE EndOf(l, s)

Behind(l, p, q) ==
  [s \in 0..q.segment |->
     IF s < p.segment THEN 0 ELSE Reached(l, q, s) - IndexOf(l, p)]

Added(l, p, q) ==
  [s \in 0..q.segment |-> CountInFile(l, s, From(p, s), Upto(l, q, s))]

(* What the caller of the loop has to bring: positions of this log, the    *)
(* first in a file that exists, the second behind it, and behind a record. *)
Countable(l, p, q) ==
  /\ p \in Position /\ q \in Position
  /\ InLog(l, p) /\ l.lo <= p.segment
  /\ p.segment <= q.segment /\ q.segment <= l.active
  /\ \/ From(p, q.segment) < q.offset
     \/ EndOf(l, q.segment) <= l.first[q.segment] + q.offset

(* From a record on, the files up to another one add up to the distance of *)
(* the two (log.rs:423-436).                                               *)
LEMMA BehindAdds ==
  ASSUME NEW l, LogType(l), Segmented(l), NEW p, NEW q, Countable(l, p, q)
  PROVE  Totals(Behind(l, p, q), q.segment, p.segment, Added(l, p, q))
<1> DEFINE b == Behind(l, p, q)
           a == Added(l, p, q)
<1>1. /\ p.segment \in Nat /\ p.offset \in Nat
      /\ q.segment \in Nat /\ q.offset \in Nat
      /\ l.active \in Nat /\ l.tail \in Nat /\ l.lo \in Nat \ {0}
      /\ p.segment <= q.segment /\ q.segment <= l.active
      /\ 1 <= p.segment
  <2>1. /\ l.active \in Nat /\ l.tail \in Nat /\ l.lo \in Nat \ {0}
    BY DEF LogType
  <2>2. /\ p.segment \in Nat /\ p.offset \in Nat
        /\ q.segment \in Nat /\ q.offset \in Nat
    BY DEF Countable, Position
  <2>3. /\ p.segment <= q.segment /\ q.segment <= l.active
        /\ l.lo <= p.segment
    BY DEF Countable
  <2> QED BY <2>1, <2>2, <2>3
<1>2. ASSUME NEW s \in 0..q.segment, p.segment <= s
      PROVE  /\ l.first[s] \in Nat /\ EndOf(l, s) \in Nat
             /\ Reached(l, q, s) \in Int
             /\ a[s] = Reached(l, q, s) - (l.first[s] + From(p, s))
  <2>1. s \in 0..l.active
    BY <1>1
  <2>2. /\ l.first[s] \in Nat /\ EndOf(l, s) \in Nat
        /\ l.first[s] <= EndOf(l, s) /\ EndOf(l, s) <= l.tail
    BY <2>1, EndOrder
  <2>3. From(p, s) \in Nat /\ Upto(l, q, s) \in Nat
    BY <1>1 DEF From, Upto
  <2>4. l.first[s] + From(p, s) <= EndOf(l, s)
    <3>1. CASE s = p.segment
      BY <3>1 DEF Countable, InLog, IndexOf, From
    <3>2. CASE s # p.segment
      BY <2>2, <3>2 DEF From
    <3> QED BY <3>1, <3>2
  <2>5. \/ From(p, s) < Upto(l, q, s)
        \/ EndOf(l, s) <= l.first[s] + Upto(l, q, s)
    <3>1. CASE s = q.segment
      BY <3>1 DEF Countable, Upto
    <3>2. CASE s # q.segment
      BY <1>1, <2>2, <3>2 DEF Upto
    <3> QED BY <3>1, <3>2
  <2>6. CountInFile(l, s, From(p, s), Upto(l, q, s)) =
          Reached(l, q, s) - (l.first[s] + From(p, s))
    BY <2>2, <2>3, <2>4, <2>5, FileCounts DEF Reached
  <2>7. Reached(l, q, s) \in Int
    BY <2>2, <2>3 DEF Reached
  <2> QED BY <2>2, <2>6, <2>7 DEF Added
<1>3. IndexOf(l, p) = l.first[p.segment] + p.offset /\ IndexOf(l, p) \in Nat
  BY <1>1, <1>2 DEF IndexOf
<1>4. ASSUME NEW s \in 0..q.segment
      PROVE  b[s] = IF s < p.segment THEN 0 ELSE b[s - 1] + a[s]
  <2>1. CASE s < p.segment
    BY <2>1 DEF Behind
  <2>2. CASE s = p.segment
    <3>1. s - 1 \in 0..q.segment /\ s - 1 < p.segment
      BY <1>1, <2>2
    <3>2. b[s - 1] = 0 /\ b[s] = Reached(l, q, s) - IndexOf(l, p)
      BY <1>1, <2>2, <3>1 DEF Behind
    <3>3. a[s] = Reached(l, q, s) - IndexOf(l, p) /\ a[s] \in Int
      BY <1>1, <1>2, <1>3, <2>2 DEF From
    <3> HIDE DEF a, b
    <3> QED BY <1>1, <2>2, <3>2, <3>3
  <2>3. CASE p.segment < s
    <3>1. /\ s - 1 \in 0..q.segment /\ ~(s - 1 < p.segment)
          /\ s - 1 # q.segment /\ s - 1 # l.active /\ ~(s < p.segment)
          /\ s # p.segment
      BY <1>1, <2>3
    <3>2. EndOf(l, s - 1) = l.first[s]
      BY <1>1, <2>3, <3>1 DEF EndOf
    <3>3. l.first[s - 1] \in Nat /\ l.first[s] \in Nat /\ l.first[s] <= l.tail
      BY <1>1, <1>2, <2>3, <3>1, <3>2, EndOrder
    <3>4. Reached(l, q, s - 1) = l.first[s]
      BY <1>1, <3>1, <3>2, <3>3 DEF Reached, Upto
    <3>5. /\ b[s - 1] = l.first[s] - IndexOf(l, p)
          /\ b[s] = Reached(l, q, s) - IndexOf(l, p)
      BY <3>1, <3>4 DEF Behind
    <3>6. a[s] = Reached(l, q, s) - l.first[s] /\ Reached(l, q, s) \in Int
      <4>1. From(p, s) = 0
        BY <3>1 DEF From
      <4>2. /\ Reached(l, q, s) \in Int
            /\ a[s] = Reached(l, q, s) - (l.first[s] + From(p, s))
        BY <1>1, <1>2, <2>3
      <4> HIDE DEF a
      <4> QED BY <3>3, <4>1, <4>2
    <3> HIDE DEF a, b
    <3> QED BY <1>3, <3>1, <3>3, <3>5, <3>6
  <2> QED BY <1>1, <2>1, <2>2, <2>3
<1>5. b = [s \in 0..q.segment |-> b[s]]
  BY DEF Behind
<1> HIDE DEF a, b
<1>6. b = [s \in 0..q.segment |->
             IF s < p.segment THEN 0 ELSE b[s - 1] + a[s]]
  BY <1>4, <1>5
<1> QED BY <1>6 DEF Totals, a, b

(* The loop returns that distance. *)
LEMMA LoopCounts ==
  ASSUME NEW l, LogType(l), Segmented(l), NEW p, NEW q, Countable(l, p, q)
  PROVE  CountLoop(l, p, q) = Reached(l, q, q.segment) - IndexOf(l, p)
<1> DEFINE start == IF l.lo <= p.segment THEN p.segment ELSE l.lo
           E(f) == f = [s \in 0..q.segment |->
                     IF s < start THEN 0
                     ELSE f[s - 1]
                            + CountInFile(l, s,
                                IF s = p.segment THEN p.offset ELSE 0,
                                IF s = q.segment THEN q.offset ELSE l.tail)]
<1>1. CountLoop(l, p, q) = (CHOOSE f : E(f))[q.segment]
  BY DEF CountLoop
<1>2. start = p.segment
  BY DEF Countable
<1>3. ASSUME NEW f
      PROVE  E(f) <=> Totals(f, q.segment, p.segment, Added(l, p, q))
  <2> HIDE DEF start
  <2>1. \A s \in 0..q.segment :
          Added(l, p, q)[s] = CountInFile(l, s,
                                IF s = p.segment THEN p.offset ELSE 0,
                                IF s = q.segment THEN q.offset ELSE l.tail)
    BY DEF Added, From, Upto
  <2> QED BY <1>2, <2>1 DEF Totals
<1> HIDE DEF E
<1>4. E(Behind(l, p, q))
  BY <1>3, BehindAdds
<1>5. PICK g : g = CHOOSE f : E(f)
  OBVIOUS
<1>6. E(g)
  BY <1>4, <1>5
<1>7. q.segment \in Nat /\ p.segment \in Nat \ {0} /\ p.segment <= q.segment
  BY DEF Countable, Position, LogType
<1>8. g = Behind(l, p, q)
  BY <1>3, <1>6, <1>7, BehindAdds, TotalsUnique
<1>9. Behind(l, p, q)[q.segment] = Reached(l, q, q.segment) - IndexOf(l, p)
  BY <1>7 DEF Behind
<1> QED BY <1>1, <1>5, <1>8, <1>9

(* A batch handed out ends behind a record. *)
BatchFilled == batch # NoBatch => batch.offset > 0

LEMMA BatchFilledAlways == Spec => []BatchFilled
<1>1. Init => BatchFilled
  BY DEF Init, BatchFilled
<1>2. BatchFilled /\ [Next]_vars => BatchFilled'
  <2> SUFFICES ASSUME BatchFilled, [Next]_vars PROVE BatchFilled'
    OBVIOUS
  <2>1. ASSUME NEW max \in 1..MaxBatch, Read(max) PROVE BatchFilled'
    BY <2>1 DEF Read, BatchFilled
  <2>2. CASE batch' = batch
    BY <2>2 DEF BatchFilled
  <2>3. CASE batch' = NoBatch
    BY <2>3 DEF BatchFilled
  <2>4. \/ batch' = batch \/ batch' = NoBatch
        \/ \E max \in 1..MaxBatch : Read(max)
    BY DEF Next, vars, Append, AppendFails, Sync, Commit, CommitFails,
           Collect, CollectFails, Drop, DropSavesCursor, DropFails, Kill,
           PowerLoss
  <2> QED BY <2>1, <2>2, <2>3, <2>4
<1> QED BY <1>1, <1>2, PTL DEF Spec

(* The loops over the files count what the counters are moved by, from the *)
(* cursor to the end of the log and to any batch that can be confirmed     *)
(* (log.rs:409-436).                                                       *)
THEOREM LoopsCorrect == Spec => []LoopsTelescope
<1>1. IInv /\ BatchFilled => LoopsTelescope
  <2> SUFFICES ASSUME IInv, BatchFilled PROVE LoopsTelescope
    OBVIOUS
  <2>1. /\ LogInv(log) /\ LogType(log) /\ Segmented(log)
        /\ log.cursor \in Position /\ InLog(log, log.cursor)
        /\ log.lo <= log.cursor.segment /\ log.cursor.segment <= log.active
        /\ log.active \in Nat \ {0} /\ log.tail \in Nat
    BY DEF IInv, LogInv, LogType, CursorsOrdered, InLog
  <2>2. log.active \in 0..log.active /\ log.cursor.segment \in Nat
        /\ log.cursor.offset \in Nat
    BY <2>1 DEF Position
  <2>3. IndexOf(log, log.cursor) \in Nat
        /\ IndexOf(log, log.cursor) <= log.tail
    <3>1. log.cursor.segment \in 0..log.active
      BY <2>1, <2>2
    <3>2. EndOf(log, log.cursor.segment) <= log.tail
          /\ EndOf(log, log.cursor.segment) \in Nat
      BY <2>1, <3>1, EndOrder
    <3> QED BY <2>1, <3>2, IndexType DEF InLog
  <2>4. CountLoop(log, log.cursor,
                  [segment |-> log.active, offset |-> log.tail])
          = CountPending(log, log.cursor)
    <3>1. PICK q : q = [segment |-> log.active, offset |-> log.tail]
      OBVIOUS
    <3>2. /\ q \in Position /\ q.segment = log.active
          /\ q.offset = log.tail
      BY <2>1, <3>1 DEF Position
    <3>3. log.first[log.active] \in Nat /\ EndOf(log, log.active) = log.tail
      BY <2>1, <2>2, EndOrder DEF EndOf
    <3>4. Countable(log, log.cursor, q)
      BY <2>1, <3>2, <3>3 DEF Countable
    <3>5. Reached(log, q, q.segment) = log.tail
      BY <2>1, <3>2, <3>3 DEF Reached, Upto
    <3>6. CountLoop(log, log.cursor, q) = log.tail - IndexOf(log, log.cursor)
      BY <2>1, <3>4, <3>5, LoopCounts
    <3> QED BY <2>1, <2>3, <3>1, <3>6 DEF CountPending, SaturatingSub
  <2>5. ASSUME Before(log.cursor, batch)
        PROVE  CountLoop(log, log.cursor, batch)
                 = CountBetween(log, log.cursor, batch)
    <3>1. /\ batch \in Position /\ InLog(log, batch)
          /\ IndexOf(log, batch) \in Nat
          /\ IndexOf(log, log.cursor) <= IndexOf(log, batch)
      BY <2>5, CommitFacts
    <3>2. batch.segment \in Nat /\ batch.offset \in Nat
          /\ batch.segment <= log.active
      BY <3>1 DEF Position, InLog
    <3>3. batch # NoBatch
      BY <2>2, <2>5 DEF Before, NoBatch
    <3>4. /\ log.cursor.segment <= batch.segment
          /\ From(log.cursor, batch.segment) < batch.offset
      BY <2>2, <2>5, <3>2, <3>3 DEF BatchFilled, Before, From
    <3>5. Countable(log, log.cursor, batch)
      BY <2>1, <3>1, <3>2, <3>4 DEF Countable
    <3>6. Reached(log, batch, batch.segment) = IndexOf(log, batch)
      BY <3>1 DEF Reached, Upto, InLog, IndexOf
    <3>7. CountLoop(log, log.cursor, batch)
            = IndexOf(log, batch) - IndexOf(log, log.cursor)
      BY <2>1, <3>5, <3>6, LoopCounts
    <3> QED BY <3>1, <3>7 DEF CountBetween, SaturatingSub
  <2> QED BY <2>4, <2>5 DEF LoopsTelescope
<1> QED BY <1>1, Invariance, BatchFilledAlways, PTL

-----------------------------------------------------------------------------
(* What retention and collection may do.                                   *)

(* Retention reports exactly the unconfirmed records that it makes         *)
(* undeliverable (log.rs:303-313).                                         *)
THEOREM RetentionCounts == Spec => DropCountsLoss
<1>1. ASSUME IInv, Drop
      PROVE  log'.dropped - log.dropped = Head' - Head
  <2> DEFINE c == ClampCursor(log.cursor, log.lo + 1)
  <2>0. LogInv(log) /\ LogType(log) /\ Droppable(log)
        /\ log' = DropOldest(log)
    BY <1>1 DEF IInv, LogInv, Drop
  <2>1. /\ log'.cursor = c /\ log'.first = log.first
        /\ log'.dropped = log.dropped + UnreadIn(log, log.lo)
    BY <2>0, DropOldestFields
  <2>2. /\ UnreadIn(log, log.lo) = IndexOf(log, c) - IndexOf(log, log.cursor)
        /\ UnreadIn(log, log.lo) \in Nat
    BY <2>0, DropOldestCursor
  <2> HIDE DEF c
  <2>3. Head' = IndexOf(log, c) /\ Head = IndexOf(log, log.cursor)
    BY <2>1 DEF Head, IndexOf
  <2>4. log.dropped \in Nat
    BY <2>0 DEF LogType
  <2>5. log'.dropped - log.dropped = UnreadIn(log, log.lo)
    BY <2>1, <2>2, <2>4
  <2> QED BY <2>2, <2>3, <2>5
<1>2. IInv /\ [Next]_vars
        => [Drop => log'.dropped - log.dropped = Head' - Head]_vars
  BY <1>1
<1> QED BY <1>2, Invariance, PTL DEF Spec, DropCountsLoss

(* Collection removes only segments whose records are all confirmed        *)
(* (log.rs:376-393).                                                       *)
THEOREM CollectSafe == Spec => CollectFreesOnlyConfirmed
<1>1. ASSUME IInv, Collect
      PROVE  log.first[log'.lo] <= Head
  <2>0. LogInv(log) /\ LogType(log) /\ Segmented(log) /\ CursorsOrdered(log)
    BY <1>1 DEF IInv, LogInv
  <2>1. /\ log.lo \in Nat /\ log.active \in Nat
        /\ log.cursor.segment \in 0..log.active
        /\ log.cursor.offset \in Nat /\ log.lo <= log.cursor.segment
        /\ log.lo \in 0..log.active
    BY <2>0, CursorFacts DEF Position, LogType, CursorsOrdered
  <2>2. log'.lo \in 0..log.cursor.segment
    <3>1. CASE ~HasObsolete(log)
      BY <1>1, <2>1, <3>1 DEF Collect
    <3>2. CASE HasObsolete(log)
      <4>1. log' = RemoveObsolete(log)
        BY <1>1, <3>2 DEF Collect
      <4>2. log'.lo = log.lo + 1
        BY <2>0, <4>1 DEF LogType, RemoveObsolete
      <4> QED BY <2>1, <3>2, <4>2 DEF HasObsolete
    <3> QED BY <3>1, <3>2
  <2>3. log'.lo \in 0..log.active /\ log'.lo <= log.cursor.segment
    BY <2>1, <2>2
  <2>4. log.first[log'.lo] <= log.first[log.cursor.segment]
    BY <2>0, <2>1, <2>3 DEF Segmented
  <2>5. log.first[log'.lo] \in Nat /\ log.first[log.cursor.segment] \in Nat
    BY <2>0, <2>1, <2>3 DEF LogType
  <2> QED BY <2>1, <2>4, <2>5 DEF Head, IndexOf
<1>2. IInv /\ [Next]_vars => [Collect => log.first[log'.lo] <= Head]_vars
  BY <1>1
<1> QED BY <1>2, Invariance, PTL DEF Spec, CollectFreesOnlyConfirmed

-----------------------------------------------------------------------------
(* The log implements DurableQueue.                                        *)

(* The abstract state a log stands for. *)
LEMMA QueueFacts ==
  ASSUME IInv
  PROVE  /\ IndexOf(log, log.cursor) \in Nat
         /\ IndexOf(log, log.saved) \in Nat
         /\ IndexOf(log, log.saved) <= IndexOf(log, log.cursor)
         /\ IndexOf(log, log.cursor) <= log.synced
         /\ log.synced \in Nat /\ log.tail \in Nat
         /\ log.synced <= log.tail
<1>0. LogInv(log) /\ LogType(log) /\ Segmented(log) /\ CursorsOrdered(log)
  BY DEF IInv, LogInv
<1>1. /\ log.cursor \in Position /\ InLog(log, log.cursor)
      /\ log.saved \in Position /\ InLog(log, log.saved)
      /\ IndexOf(log, log.cursor) \in Nat
      /\ IndexOf(log, log.cursor) <= log.synced
      /\ log.synced \in Nat /\ log.tail \in Nat /\ log.synced <= log.tail
  BY <1>0, CursorFacts
<1>2. IndexOf(log, log.saved) \in Nat
  BY <1>0, <1>1, IndexType DEF InLog
<1>3. IndexOf(log, log.saved) <= IndexOf(log, log.cursor)
  BY <1>0, <1>1, BeforeIndex DEF CursorsOrdered
<1> QED BY <1>1, <1>2, <1>3

LEMMA AppendImplements ==
  ASSUME IInv, NEW size \in Sizes, Append(size)
  PROVE  Queue!Append
<1>0. LogInv(log) /\ size \in Nat
  BY SizesAssumption DEF IInv
<1>1. log' = AppendRecord(log, size, SegmentBytes)
  BY DEF Append
<1>2. log.cursor \in Position /\ InLog(log, log.cursor)
      /\ log.saved \in Position /\ InLog(log, log.saved)
  BY <1>0, CursorFacts
<1>3. /\ IndexOf(log', log.cursor) = IndexOf(log, log.cursor)
      /\ IndexOf(log', log.saved) = IndexOf(log, log.saved)
      /\ log'.cursor = log.cursor /\ log'.saved = log.saved
      /\ log'.tail = log.tail + 1
      /\ log'.synced \in {log.synced, log.tail}
  BY <1>0, <1>1, <1>2, AppendInv
<1> QED BY <1>3 DEF Queue!Append

LEMMA FlushImplements ==
  ASSUME IInv, log' = Flush(log)
  PROVE  Queue!Sync
<1>1. LogType(log)
  BY DEF IInv, LogInv
<1>2. /\ log'.cursor = log.cursor /\ log'.saved = log.saved
      /\ log'.first = log.first /\ log'.tail = log.tail
      /\ log'.synced = log.tail
  BY <1>1, FlushFields
<1> QED BY <1>2 DEF Queue!Sync, IndexOf

LEMMA CommitImplements ==
  ASSUME IInv, Commit \/ CommitFails
  PROVE  Queue!Release \/ Queue!Persist \/ UNCHANGED Queue!qvars
<1> DEFINE m == MoveCursor(log, batch)
<1>0. LogInv(log) /\ LogType(log)
  BY DEF IInv, LogInv
<1>1. LogInv(m) /\ LogType(m)
  BY <1>0, CommitFacts, MoveCursorInv DEF Commit, CommitFails, LogInv
<1>2. /\ m.first = log.first /\ m.tail = log.tail /\ m.cursor = batch
      /\ m.saved = log.saved /\ m.synced = log.synced
  BY <1>0, MoveCursorFields
<1>3. /\ Commit => log' = SaveCursor(m)
      /\ CommitFails => log' = m
  BY DEF Commit, CommitFails
<1> HIDE DEF m
<1>4. /\ log'.first = log.first /\ log'.tail = log.tail
      /\ log'.synced = log.synced /\ log'.cursor = batch
      /\ log'.saved = batch \/ log'.saved = log.saved
      /\ Commit => log'.saved = batch
      /\ CommitFails => log'.saved = log.saved
  BY <1>1, <1>2, <1>3, SaveCursorFields
<1>5. /\ IndexOf(log, batch) \in Nat /\ IndexOf(log, batch) <= log.synced
      /\ IndexOf(log, log.cursor) <= IndexOf(log, batch)
  BY CommitFacts DEF Commit, CommitFails
<1>6. IndexOf(log, log.cursor) \in Nat
  BY QueueFacts
<1>7. \A p : IndexOf(log', p) = IndexOf(log, p)
  BY <1>4 DEF IndexOf
<1>8. CASE IndexOf(log, batch) # IndexOf(log, log.cursor)
  <2>1. IndexOf(log, batch) > IndexOf(log, log.cursor)
    BY <1>5, <1>6, <1>8
  <2> QED BY <1>4, <1>5, <1>7, <2>1 DEF Queue!Release
<1>9. CASE IndexOf(log, batch) = IndexOf(log, log.cursor)
  <2>1. CASE Commit
    BY <1>4, <1>7, <1>9, <2>1 DEF Queue!Persist
  <2>2. CASE CommitFails
    BY <1>4, <1>7, <1>9, <2>2 DEF Queue!qvars
  <2> QED BY <2>1, <2>2
<1> QED BY <1>8, <1>9

LEMMA CollectImplements ==
  ASSUME IInv, Collect
  PROVE  UNCHANGED Queue!qvars
<1>0. LogType(log)
  BY DEF IInv, LogInv
<1>1. /\ log'.cursor = log.cursor /\ log'.saved = log.saved
      /\ log'.first = log.first /\ log'.tail = log.tail
      /\ log'.synced = log.synced
  <2>1. CASE ~HasObsolete(log)
    BY <2>1 DEF Collect
  <2>2. CASE HasObsolete(log)
    BY <1>0, <2>2 DEF Collect, LogType, RemoveObsolete
  <2> QED BY <2>1, <2>2
<1> QED BY <1>1 DEF Queue!qvars, IndexOf

LEMMA DropImplements ==
  ASSUME IInv, Drop
  PROVE  Queue!Release \/ UNCHANGED Queue!qvars
<1> DEFINE c == ClampCursor(log.cursor, log.lo + 1)
<1>0. LogInv(log) /\ LogType(log) /\ Droppable(log)
      /\ log' = DropOldest(log)
  BY DEF IInv, LogInv, Drop
<1>1. /\ log'.cursor = c /\ log'.first = log.first /\ log'.tail = log.tail
      /\ log'.saved = log.saved /\ log'.synced = log.synced
  BY <1>0, DropOldestFields
<1>2. /\ IndexOf(log, c) \in Nat /\ IndexOf(log, c) <= log.synced
      /\ UnreadIn(log, log.lo) \in Nat
      /\ UnreadIn(log, log.lo) = IndexOf(log, c) - IndexOf(log, log.cursor)
  BY <1>0, DropOldestCursor
<1> HIDE DEF c
<1>3. IndexOf(log, log.cursor) \in Nat
  BY QueueFacts
<1>4. IndexOf(log, log.cursor) <= IndexOf(log, c)
  BY <1>2, <1>3
<1>5. \A p : IndexOf(log', p) = IndexOf(log, p)
  BY <1>1 DEF IndexOf
<1>6. CASE IndexOf(log, c) # IndexOf(log, log.cursor)
  <2>1. IndexOf(log, c) > IndexOf(log, log.cursor)
    BY <1>2, <1>3, <1>4, <1>6
  <2> QED BY <1>1, <1>2, <1>5, <2>1 DEF Queue!Release
<1>7. CASE IndexOf(log, c) = IndexOf(log, log.cursor)
  BY <1>1, <1>5, <1>7 DEF Queue!qvars
<1> QED BY <1>6, <1>7

LEMMA SaveImplements ==
  ASSUME IInv, DropSavesCursor
  PROVE  Queue!Persist
<1>1. LogType(log) /\ log' = SaveCursor(log)
  BY DEF IInv, LogInv, DropSavesCursor
<1>2. /\ log'.cursor = log.cursor /\ log'.saved = log.cursor
      /\ log'.first = log.first /\ log'.tail = log.tail
      /\ log'.synced = log.synced
  BY <1>1, SaveCursorFields
<1> QED BY <1>2 DEF Queue!Persist, IndexOf

(* Reading resumes between the position in the cursor file and the one in  *)
(* memory when the process stopped.                                        *)
LEMMA ResumeBetween ==
  ASSUME IInv, NEW lo, NEW hi, NEW t, Recoverable(log, lo, hi, t),
         lo <= log.lo
  PROVE  LET m == OpenLog(log, lo, hi, t) IN
         /\ IndexOf(m, m.cursor) \in
              IndexOf(log, log.saved)..IndexOf(log, log.cursor)
         /\ IndexOf(m, m.saved) = IndexOf(log, log.saved)
<1> DEFINE m == OpenLog(log, lo, hi, t)
           c == ClampCursor(log.saved, lo)
<1>0. LogInv(log) /\ LogType(log) /\ Segmented(log) /\ CursorsOrdered(log)
  BY DEF IInv, LogInv
<1>1. /\ c \in Position /\ InLog(log, c) /\ c.segment <= hi
      /\ IndexOf(log, c) \in Nat
      /\ IndexOf(log, log.saved) <= IndexOf(log, c)
  BY <1>0, OpenCursor
<1>a. lo \in Nat /\ log.lo \in Nat /\ log.saved.segment <= hi
  BY <1>0 DEF Recoverable, LogType
<1>2. /\ log.saved \in Position /\ InLog(log, log.saved)
      /\ log.saved.segment <= hi /\ log.saved.segment \in Nat
      /\ log.saved.offset \in Nat
      /\ log.cursor \in Position /\ InLog(log, log.cursor)
      /\ log.cursor.segment \in Nat /\ log.cursor.offset \in Nat
      /\ lo \in Nat /\ log.lo \in Nat
  BY <1>0, <1>a, CursorFacts DEF Position
<1>3. \A p \in Position : InLog(log, p) /\ p.segment <= hi =>
        IndexOf(m, p) = IndexOf(log, p)
  BY <1>0, OpenInv
<1>4. m.cursor = c /\ m.saved = log.saved
  BY DEF OpenLog
<1>5. ~Before(log.cursor, c)
  <2>1. CASE log.saved.segment < lo
    <3>1. c = [segment |-> lo, offset |-> 0]
      BY <2>1 DEF ClampCursor
    <3>2. log.lo <= log.cursor.segment
      BY <1>0 DEF CursorsOrdered
    <3> HIDE DEF c
    <3> QED BY <1>2, <3>1, <3>2 DEF Before
  <2>2. CASE ~(log.saved.segment < lo)
    <3>1. c = log.saved
      BY <2>2 DEF ClampCursor
    <3> HIDE DEF c
    <3> QED BY <1>0, <3>1 DEF CursorsOrdered
  <2> QED BY <2>1, <2>2
<1> HIDE DEF m, c
<1>6. IndexOf(log, c) <= IndexOf(log, log.cursor)
  BY <1>0, <1>1, <1>2, <1>5, BeforeIndex
<1>7. IndexOf(m, c) = IndexOf(log, c)
      /\ IndexOf(m, log.saved) = IndexOf(log, log.saved)
  BY <1>1, <1>2, <1>3
<1>8. IndexOf(log, log.saved) \in Nat /\ IndexOf(log, log.cursor) \in Nat
  BY QueueFacts
<1> QED BY <1>1, <1>4, <1>6, <1>7, <1>8 DEF m

LEMMA KillImplements ==
  ASSUME IInv, Kill
  PROVE  Queue!Crash
<1>1. PICK t \in log.synced..log.tail :
        log' = OpenLog(log, log.lo, log.active, t)
  BY DEF Kill
<1>2. log.lo \in Nat /\ log.lo <= log.lo
  BY DEF IInv, LogInv, LogType
<1>3. /\ IndexOf(log', log'.cursor) \in
           IndexOf(log, log.saved)..IndexOf(log, log.cursor)
      /\ IndexOf(log', log'.saved) = IndexOf(log, log.saved)
  BY <1>1, <1>2, KillRecoverable, ResumeBetween
<1>4. log'.tail = t /\ log'.synced = log.synced
  BY <1>1 DEF OpenLog
<1>5. log.synced \in log.synced..t
  BY QueueFacts
<1> QED BY <1>3, <1>4, <1>5 DEF Queue!Crash

LEMMA PowerLossImplements ==
  ASSUME IInv, PowerLoss
  PROVE  Queue!Crash
<1>1. PICK lo \in dirLo..log.lo, hi \in dirHi..log.active :
        /\ lo <= hi
        /\ \E t \in log.synced..(IF hi = log.active THEN log.tail
                                                    ELSE log.synced) :
             log' = [OpenLog(log, lo, hi, t) EXCEPT !.synced = t]
  BY DEF PowerLoss
<1>2. PICK t \in log.synced..(IF hi = log.active THEN log.tail
                                                 ELSE log.synced) :
        log' = [OpenLog(log, lo, hi, t) EXCEPT !.synced = t]
  BY <1>1
<1> DEFINE m == OpenLog(log, lo, hi, t)
<1>3. Recoverable(log, lo, hi, t) /\ t \in log.synced..log.tail
  BY <1>1, PowerLossRecoverable
<1>4. lo <= log.lo
  BY DEF IInv, TypeOK, LogType
<1>5. /\ IndexOf(m, m.cursor) \in
           IndexOf(log, log.saved)..IndexOf(log, log.cursor)
      /\ IndexOf(m, m.saved) = IndexOf(log, log.saved)
  BY <1>3, <1>4, ResumeBetween
<1>6. LogType(m)
  BY <1>3, OpenInv DEF IInv, LogInv
<1>7. m.tail = t
  BY DEF OpenLog
<1>8. log' = Flush(m)
  BY <1>2, <1>6, SurvivorsSynced
<1> HIDE DEF m
<1>9. /\ log'.cursor = m.cursor /\ log'.saved = m.saved
      /\ log'.first = m.first /\ log'.tail = t /\ log'.synced = t
  BY <1>6, <1>7, <1>8, FlushFields
<1>10. \A p : IndexOf(log', p) = IndexOf(m, p)
  BY <1>9 DEF IndexOf
<1>11. t \in log.synced..t
  BY <1>3, QueueFacts
<1> QED BY <1>3, <1>5, <1>9, <1>10, <1>11 DEF Queue!Crash

LEMMA StepImplements == IInv /\ [Next]_vars => [Queue!Next]_(Queue!qvars)
<1> SUFFICES ASSUME IInv, [Next]_vars
             PROVE  Queue!Next \/ UNCHANGED Queue!qvars
  OBVIOUS
<1>1. ASSUME NEW size \in Sizes, Append(size) PROVE Queue!Next
  BY <1>1, AppendImplements DEF Queue!Next
<1>2. CASE AppendFails \/ Sync
  BY <1>2, FlushImplements DEF AppendFails, Sync, Queue!Next
<1>3. ASSUME NEW max \in 1..MaxBatch, Read(max) PROVE Queue!Next
  BY <1>3, FlushImplements DEF Read, Queue!Next
<1>4. CASE Commit \/ CommitFails
  BY <1>4, CommitImplements DEF Queue!Next
<1>5. CASE Collect
  BY <1>5, CollectImplements
<1>6. CASE Drop
  BY <1>6, DropImplements DEF Queue!Next
<1>7. CASE CollectFails \/ DropFails \/ UNCHANGED vars
  BY <1>7 DEF CollectFails, DropFails, vars, Queue!qvars
<1>8. CASE DropSavesCursor
  BY <1>8, SaveImplements DEF Queue!Next
<1>9. CASE Kill
  BY <1>9, KillImplements DEF Queue!Next
<1>10. CASE PowerLoss
  BY <1>10, PowerLossImplements DEF Queue!Next
<1> QED BY <1>1, <1>2, <1>3, <1>4, <1>5, <1>6, <1>7, <1>8, <1>9, <1>10
        DEF Next

LEMMA InitImplements == Init => Queue!Init
BY DEF Init, EmptyLog, Queue!Init, IndexOf

(* The log delivers in order and at least once, loses nothing synced but   *)
(* by retention, and never brings back what is confirmed on disk, whatever *)
(* crashes, I/O errors and retention come in between (log.rs:1-21).        *)
THEOREM Refinement == Spec => ImplementsDurableQueue
BY InitImplements, StepImplements, Invariance, PTL
   DEF Spec, ImplementsDurableQueue, Queue!Spec

=============================================================================
