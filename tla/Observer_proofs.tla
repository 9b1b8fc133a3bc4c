-------------------------- MODULE Observer_proofs ---------------------------
(***************************************************************************)
(* Lemmas about the observer (module Observer): for any policy, any frame  *)
(* that is what it seems and any limits, everything an observer does keeps *)
(* its cache of claims and its history of them in step (Claims), lets a    *)
(* claim be told again only when that is due (Paced), puts nothing of an   *)
(* excluded address into its windows or its outbox (Windows, AllProper),   *)
(* and counts a packet of a flow in exactly one place (Gone).  And about   *)
(* the registry (module Registry): whatever is observed, a device that is  *)
(* not marked for evaluation has been told as strongly as its signals      *)
(* allow (Entry).  Capture_proofs builds its theorems on FrameGoes,        *)
(* ExpireGoes, DrainGoes, SentGoes, ObserveKeeps and EvaluateKeeps.        *)
(*                                                                         *)
(* The first lemmas stand in for induction over the naturals: a set of     *)
(* intervals has a smallest member, because a finite set is well founded   *)
(* under inclusion.  The sums of weights and of packets are reasoned about *)
(* in the same way.                                                        *)
(***************************************************************************)
EXTENDS Observer, FiniteSetTheorems, SequenceTheorems, TLAPS

-----------------------------------------------------------------------------
(* Least members. *)
(* Among subsets of a finite set there is one that no other is inside of.  *)
LEMMA Descent ==
  \A S, B : IsFiniteSet(S) /\ (\A s \in B : s \subseteq S) /\ B # {} =>
    \E s \in B : \A u \in B : u \subseteq s => u = s
  <1> SUFFICES ASSUME NEW S, NEW B, IsFiniteSet(S), B # {},
                      \A s \in B : s \subseteq S
               PROVE  \E s \in B : \A u \in B : u \subseteq s => u = s
    OBVIOUS
  <1>1. SUBSET S = FiniteSubsetsOf(S)
    BY FS_FiniteSubsetsOfFinite
  <1>2. IsWellFoundedOn(StrictSubsetOrdering(S), SUBSET S)
    BY <1>1, FS_StrictSubsetOrderingWellFounded
  <1>3. B \in SUBSET SUBSET S
    OBVIOUS
  <1>4. PICK s \in B :
          \A u \in B : ~(<<u, s>> \in StrictSubsetOrdering(S))
    BY <1>2, <1>3, WFMin
  <1>5. ASSUME NEW u \in B, u \subseteq s
        PROVE  u = s
    <2>1. <<u, s>> \in (SUBSET S) \X (SUBSET S)
      OBVIOUS
    <2>2. u # s => <<u, s>> \in StrictSubsetOrdering(S)
      BY <1>5, <2>1 DEF StrictSubsetOrdering
    <2>3. QED BY <1>4, <2>2
  <1>6. QED BY <1>5

(* A set of naturals that has a bound has a least element.                 *)
LEMMA Below ==
  ASSUME NEW n \in Nat, NEW B, B \subseteq 0..n, B # {}
  PROVE  \E m \in B : \A k \in B : m <= k
  <1> DEFINE C == {1..k : k \in B}
  <1>1. \A s \in C : s \subseteq 1..n
    <2>1. \A k \in B : 1..k \subseteq 1..n
      OBVIOUS
    <2>2. QED BY <2>1
  <1>2. C # {} /\ IsFiniteSet(1..n)
    <2>1. IsFiniteSet(1..n)
      BY FS_Interval
    <2>2. C # {}
      OBVIOUS
    <2>3. QED BY <2>1, <2>2
  <1> HIDE DEF C
  <1>3. \E s \in C : \A u \in C : u \subseteq s => u = s
    BY <1>1, <1>2, Descent
  <1>4. PICK s \in C : \A u \in C : u \subseteq s => u = s
    BY <1>3
  <1> USE DEF C
  <1>5. PICK m \in B : s = 1..m
    OBVIOUS
  <1>6. ASSUME NEW k \in B
        PROVE  m <= k
    <2>1. k \in Int /\ m \in Int /\ 0 <= k /\ 0 <= m
      OBVIOUS
    <2>2. SUFFICES ASSUME k < m
                   PROVE  FALSE
      BY <2>1
    <2>3. 1..k \subseteq 1..m /\ 1..k \in C
      BY <2>1, <2>2
    <2>4. 1..k = 1..m
      BY <1>4, <1>5, <2>3
    <2>5. m \in 1..m /\ m \notin 1..k
      BY <2>1, <2>2
    <2>6. QED BY <2>4, <2>5
  <1>7. QED BY <1>6

(* What holds of 0 and passes from k to k + 1 holds of n: the induction    *)
(* the folds of the model need, with a set for the predicate.              *)
LEMMA Climb ==
  \A n \in Nat : \A S :
    0 \in S /\ (\A k \in 0..(n - 1) : k \in S => k + 1 \in S) => n \in S
  <1> SUFFICES ASSUME NEW n \in Nat, NEW S, 0 \in S,
                      \A k \in 0..(n - 1) : k \in S => k + 1 \in S,
                      n \notin S
               PROVE  FALSE
    OBVIOUS
  <1>1. PICK B : B = {k \in 0..n : k \notin S}
    OBVIOUS
  <1>2. B \subseteq 0..n /\ B # {}
    BY <1>1
  <1>3. PICK m \in B : \A k \in B : m <= k
    BY <1>2, Below
  <1>4. m \in 1..n /\ m \notin S
    BY <1>1, <1>3
  <1>5. m - 1 \notin B /\ m - 1 \in 0..(n - 1) /\ (m - 1) + 1 = m
    BY <1>2, <1>3, <1>4
  <1>6. m - 1 \in S
    BY <1>1, <1>5
  <1>7. QED BY <1>4, <1>5, <1>6

(* A finite set of integers has a largest and a smallest element.          *)
LEMMA Extremes ==
  ASSUME NEW S, S \subseteq Int, IsFiniteSet(S), S # {}
  PROVE  /\ Max(S) \in S /\ \A x \in S : x <= Max(S)
         /\ Min(S) \in S /\ \A x \in S : Min(S) <= x
  <1>1. \E m \in S : \A x \in S : m >= x
    <2> DEFINE Up(x) == {y \in S : y >= x}
               B == {Up(x) : x \in S}
    <2>1. B # {} /\ \A s \in B : s \subseteq S
      OBVIOUS
    <2> HIDE DEF B
    <2>2. \E s \in B : \A u \in B : u \subseteq s => u = s
      BY <2>1, Descent
    <2>3. PICK s \in B : \A u \in B : u \subseteq s => u = s
      BY <2>2
    <2> USE DEF B
    <2>4. PICK m \in S : s = Up(m)
      OBVIOUS
    <2>5. ASSUME NEW x \in S, ~(m >= x) PROVE FALSE
      <3>1. m \in Int /\ x \in Int /\ m < x
        BY <2>5
      <3>2. Up(x) \subseteq Up(m)
        <4>1. \A y \in S : y \in Int
          OBVIOUS
        <4>2. \A y \in S : y >= x => y >= m
          BY <3>1, <4>1
        <4>3. QED BY <4>2
      <3>3. m \notin Up(x) /\ m \in Up(m)
        BY <3>1
      <3>4. Up(x) \in B
        OBVIOUS
      <3> HIDE DEF B, Up
      <3>5. Up(x) = Up(m)
        BY <2>3, <2>4, <3>2, <3>4
      <3>6. QED BY <3>3, <3>5
    <2>6. QED BY <2>5
  <1>2. \E m \in S : \A x \in S : m <= x
    <2> DEFINE Down(x) == {y \in S : y <= x}
               B == {Down(x) : x \in S}
    <2>1. B # {} /\ \A s \in B : s \subseteq S
      OBVIOUS
    <2> HIDE DEF B
    <2>2. \E s \in B : \A u \in B : u \subseteq s => u = s
      BY <2>1, Descent
    <2>3. PICK s \in B : \A u \in B : u \subseteq s => u = s
      BY <2>2
    <2> USE DEF B
    <2>4. PICK m \in S : s = Down(m)
      OBVIOUS
    <2>5. ASSUME NEW x \in S, ~(m <= x) PROVE FALSE
      <3>1. m \in Int /\ x \in Int /\ x < m
        BY <2>5
      <3>2. Down(x) \subseteq Down(m)
        <4>1. \A y \in S : y \in Int
          OBVIOUS
        <4>2. \A y \in S : y <= x => y <= m
          BY <3>1, <4>1
        <4>3. QED BY <4>2
      <3>3. m \notin Down(x) /\ m \in Down(m)
        BY <3>1
      <3>4. Down(x) \in B
        OBVIOUS
      <3> HIDE DEF B, Down
      <3>5. Down(x) = Down(m)
        BY <2>3, <2>4, <3>2, <3>4
      <3>6. QED BY <3>3, <3>5
    <2>6. QED BY <2>5
  <1>3. Max(S) \in S /\ \A x \in S : Max(S) >= x
    BY <1>1 DEF Max
  <1>4. Min(S) \in S /\ \A x \in S : Min(S) <= x
    BY <1>2 DEF Min
  <1>5. QED BY <1>3, <1>4

Upto(D, n) == {s \in SUBSET D : Cardinality(s) <= n}

(* A set that keeps to a limit.                                            *)
AtMost(S, n) == IsFiniteSet(S) /\ Cardinality(S) <= n

LEMMA AtMostNone ==
  ASSUME NEW n \in Nat
  PROVE  AtMost({}, n)
  BY FS_EmptySet DEF AtMost

LEMMA AtMostLess ==
  ASSUME NEW n \in Nat, NEW S, AtMost(S, n), NEW T, T \subseteq S
  PROVE  AtMost(T, n)
  <1>1. IsFiniteSet(S) /\ Cardinality(S) <= n
    BY DEF AtMost
  <1>2. IsFiniteSet(T) /\ Cardinality(T) <= Cardinality(S)
    BY <1>1, FS_Subset
  <1>3. Cardinality(S) \in Nat /\ Cardinality(T) \in Nat
    BY <1>1, <1>2, FS_CardinalityType
  <1>4. QED BY <1>1, <1>2, <1>3 DEF AtMost

LEMMA AtMostMore ==
  ASSUME NEW n \in Nat, NEW S, IsFiniteSet(S), ~(Cardinality(S) >= n),
         NEW x
  PROVE  AtMost(S \cup {x}, n)
  <1>1. /\ IsFiniteSet(S \cup {x})
        /\ Cardinality(S \cup {x}) \in {Cardinality(S), Cardinality(S) + 1}
    BY FS_AddElement
  <1>2. Cardinality(S) \in Nat
    BY FS_CardinalityType
  <1>3. QED BY <1>1, <1>2 DEF AtMost

-----------------------------------------------------------------------------
(* Claims: the cache `seen` is what the history `told` says, as far as it  *)
(* goes, and what it does not hold any more is due again or was thrown out *)
(* by a full cache.                                                        *)

Names ==
  {"flows", "skipped", "seen", "out", "passed", "told", "cleared"}
Fields(ob) == DOMAIN ob = Names

Times(f, t) ==
  /\ f = [k \in DOMAIN f |-> f[k]]
  /\ \A k \in DOMAIN f : f[k] \in Int /\ f[k] <= t

Claims(ob, t) ==
  /\ Times(ob.told, t)
  /\ ob.cleared \in Int /\ ob.cleared <= t
  /\ AtMost(DOMAIN ob.seen, MaxSuppressed)
  /\ \A k \in DOMAIN ob.seen :
       k \in DOMAIN ob.told /\ ob.seen[k] = ob.told[k]
  /\ \A k \in DOMAIN ob.told :
       \/ k \in DOMAIN ob.seen
       \/ t - ob.told[k] >= SuppressFor
       \/ ob.cleared >= ob.told[k]

Paced(ob, new, t) ==
  /\ new.cleared >= ob.cleared
  /\ \A k \in DOMAIN ob.told :
       /\ k \in DOMAIN new.told
       /\ new.told[k] \in {ob.told[k], t}
       /\ \/ new.told[k] = ob.told[k]
          \/ t - ob.told[k] >= SuppressFor
          \/ new.cleared >= ob.told[k]

Paces(ob, new, t) == Fields(new) /\ Claims(new, t) /\ Paced(ob, new, t)

(* Pace is kept by steps that follow each other at one time ...            *)
LEMMA PacedOnward ==
  ASSUME NEW t \in Int, NEW a, NEW b, NEW c,
         Claims(a, t), Paces(a, b, t), Paces(b, c, t)
  PROVE  Paces(a, c, t)
  BY DEF Paces, Paced, Claims, Times

(* ... by what leaves the claims alone ...                                 *)
LEMMA PacedSame ==
  ASSUME NEW t \in Int, NEW ob, NEW new, Claims(ob, t), Fields(new),
         new.told = ob.told, new.seen = ob.seen, new.cleared = ob.cleared
  PROVE  Paces(ob, new, t)
  BY DEF Paces, Paced, Claims, Times

(* ... and by a claim that is told because it is not suppressed.           *)
LEMMA AllowClaims ==
  ASSUME NEW t \in Int, NEW ob, NEW key, Fields(ob), Claims(ob, t),
         ~Suppressed(ob, key, t)
  PROVE  /\ Fields(Allow(ob, key, t))
         /\ Paces(ob, Allow(ob, key, t), t)
         /\ Allow(ob, key, t).out = ob.out
         /\ Allow(ob, key, t).flows = ob.flows
         /\ Allow(ob, key, t).passed = ob.passed
         /\ Allow(ob, key, t).skipped = ob.skipped
  <1> DEFINE new == Allow(ob, key, t)
             full == Cardinality(DOMAIN ob.seen) >= MaxSuppressed
  <1>1. new = [ob EXCEPT !.seen = Insert(IF full THEN Empty ELSE ob.seen,
                                         key, t),
                         !.told = Insert(ob.told, key, t),
                         !.cleared = IF full THEN t ELSE ob.cleared]
    BY DEF Allow
  <1> HIDE DEF new, full
  <1>2. /\ new.seen = Insert(IF full THEN Empty ELSE ob.seen, key, t)
        /\ new.told = Insert(ob.told, key, t)
        /\ new.cleared = IF full THEN t ELSE ob.cleared
        /\ new.out = ob.out /\ new.flows = ob.flows
        /\ new.passed = ob.passed /\ new.skipped = ob.skipped
        /\ Fields(new)
    BY <1>1 DEF Fields, Names
  <1>3. /\ key \in DOMAIN new.seen /\ new.seen[key] = t
        /\ \A k \in DOMAIN new.seen :
             k # key => ~full /\ k \in DOMAIN ob.seen
                          /\ new.seen[k] = ob.seen[k]
        /\ DOMAIN new.seen
             = (IF full THEN {} ELSE DOMAIN ob.seen) \cup {key}
    BY <1>2 DEF Empty, Insert
  <1>4. /\ DOMAIN new.told = {key} \cup DOMAIN ob.told
        /\ new.told[key] = t
        /\ \A k \in DOMAIN ob.told : k # key => new.told[k] = ob.told[k]
        /\ new.told = [k \in DOMAIN new.told |-> new.told[k]]
    BY <1>2 DEF Insert
  <1>5. SuppressFor \in Nat
    BY ObserverAssumption
  <1>6. key \in DOMAIN ob.seen => t - ob.seen[key] >= SuppressFor
    BY <1>5 DEF Suppressed, Claims, Times
  <1>7. AtMost(DOMAIN new.seen, MaxSuppressed)
    <2>1. MaxSuppressed \in Nat /\ MaxSuppressed > 0
      BY ObserverAssumption
    <2>2. CASE full
      <3>1. IsFiniteSet({}) /\ ~(Cardinality({}) >= MaxSuppressed)
        BY <2>1, FS_EmptySet
      <3>2. QED BY <1>3, <2>1, <2>2, <3>1, AtMostMore
    <2>3. CASE ~full
      <3>1. IsFiniteSet(DOMAIN ob.seen)
        BY DEF Claims, AtMost
      <3>2. ~(Cardinality(DOMAIN ob.seen) >= MaxSuppressed)
        BY <2>3 DEF full
      <3>3. QED BY <1>3, <2>1, <2>3, <3>1, <3>2, AtMostMore
    <2>4. QED BY <2>2, <2>3
  <1>8. Claims(new, t)
    BY <1>2, <1>3, <1>5, <1>4, <1>7 DEF Claims, Times
  <1>9. Paced(ob, new, t)
    BY <1>2, <1>5, <1>6, <1>4 DEF Claims, Times, Paced
  <1>10. QED BY <1>2, <1>8, <1>9 DEF Paces, new

-----------------------------------------------------------------------------
(* Sequences, of whatever they hold. *)

IsSequence(s) == s \in Seq(Range(s))

LEMMA SequenceOf ==
  ASSUME NEW U, NEW s \in Seq(U)
  PROVE  IsSequence(s) /\ Range(s) \subseteq U
  <1>1. /\ Len(s) \in Nat /\ DOMAIN s = 1..Len(s)
        /\ \A n \in 1..Len(s) : s[n] \in U
    OBVIOUS
  <1>2. \A n \in 1..Len(s) : s[n] \in Range(s)
    BY <1>1 DEF Range
  <1>3. s = [n \in 1..Len(s) |-> s[n]]
    OBVIOUS
  <1>4. s \in [1..Len(s) -> Range(s)]
    BY <1>2, <1>3
  <1>5. s \in Seq(Range(s))
    BY <1>1, <1>4, SeqDef
  <1>6. QED BY <1>1, <1>5 DEF IsSequence, Range

LEMMA Joined ==
  ASSUME NEW s, NEW u, IsSequence(s), IsSequence(u)
  PROVE  /\ IsSequence(s \o u)
         /\ Range(s \o u) = Range(s) \cup Range(u)
  <1>1. PICK U : U = Range(s) \cup Range(u)
    OBVIOUS
  <1>2. s \in Seq(U) /\ u \in Seq(U)
    BY <1>1 DEF IsSequence
  <1>3. s \o u \in Seq(U)
    BY <1>2
  <1>4. IsSequence(s \o u) /\ Range(s \o u) \subseteq U
    BY <1>3, SequenceOf
  <1>5. ASSUME NEW x \in U
        PROVE  x \in Range(s \o u)
    <2>1. /\ Len(s) \in Nat /\ Len(u) \in Nat
          /\ DOMAIN s = 1..Len(s) /\ DOMAIN u = 1..Len(u)
          /\ DOMAIN (s \o u) = 1..(Len(s) + Len(u))
          /\ \A n \in 1..Len(s) : (s \o u)[n] = s[n]
          /\ \A n \in 1..Len(u) : (s \o u)[Len(s) + n] = u[n]
      BY <1>2
    <2>2. CASE x \in Range(s)
      BY <2>1, <2>2 DEF Range
    <2>3. CASE x \in Range(u)
      <3>1. PICK n \in 1..Len(u) : x = u[n]
        BY <2>1, <2>3 DEF Range
      <3>2. Len(s) + n \in DOMAIN (s \o u)
        BY <2>1
      <3>3. QED BY <2>1, <3>1, <3>2 DEF Range
    <2>4. QED BY <1>1, <1>5, <2>2, <2>3
  <1>6. QED BY <1>1, <1>4, <1>5

LEMMA Single ==
  ASSUME NEW x
  PROVE  IsSequence(<<x>>) /\ Range(<<x>>) = {x}
  <1>1. <<x>> \in Seq({x})
    OBVIOUS
  <1>2. x \in Range(<<x>>)
    BY DEF Range
  <1>3. QED BY <1>1, <1>2, SequenceOf

LEMMA None ==
  IsSequence(<<>>) /\ Range(<<>>) = {}
  <1>1. Range(<<>>) = {}
    BY DEF Range
  <1>2. QED BY <1>1 DEF IsSequence

-----------------------------------------------------------------------------
(* Sums: the folds that add up.                                            *)

Some(s) == CHOOSE x \in s : TRUE

(* h is the function by which g is added up over the subsets of S.         *)
SumFold(h, g, S) ==
  h = [s \in SUBSET S |->
         IF s = {} THEN 0 ELSE h[s \ {Some(s)}] + g[Some(s)]]

Sum(g, S) == (CHOOSE h : SumFold(h, g, S))[S]

SumPart(h, n, g, S) ==
  h = [s \in Upto(S, n) |->
         IF s = {} THEN 0 ELSE h[s \ {Some(s)}] + g[Some(s)]]

LEMMA SomeOf ==
  \A S : IsFiniteSet(S) =>
    \A s \in SUBSET S : s # {} =>
      /\ Some(s) \in s /\ IsFiniteSet(s)
      /\ Cardinality(s \ {Some(s)}) = Cardinality(s) - 1
      /\ Cardinality(s) \in Nat /\ Cardinality(s) <= Cardinality(S)
  <1> SUFFICES ASSUME NEW S, IsFiniteSet(S), NEW s \in SUBSET S, s # {}
               PROVE  /\ Some(s) \in s /\ IsFiniteSet(s)
                      /\ Cardinality(s \ {Some(s)}) = Cardinality(s) - 1
                      /\ Cardinality(s) \in Nat
                      /\ Cardinality(s) <= Cardinality(S)
    OBVIOUS
  <1>1. Some(s) \in s
    BY DEF Some
  <1>2. IsFiniteSet(s) /\ Cardinality(s) <= Cardinality(S)
    BY FS_Subset
  <1>3. QED BY <1>1, <1>2, FS_RemoveElement, FS_CardinalityType

LEMMA SumExists ==
  ASSUME NEW S, IsFiniteSet(S), NEW g
  PROVE  \E h : SumFold(h, g, S)
  <1> DEFINE IsPart(h, n) == SumPart(h, n, g, S)
             Good == {n \in Nat : \E h : IsPart(h, n)}
  <1>1. /\ Cardinality(S) \in Nat
        /\ \A s \in SUBSET S :
             Cardinality(s) \in Nat /\ Cardinality(s) <= Cardinality(S)
    BY FS_Subset, FS_CardinalityType
  <1>2. \A s \in SUBSET S : s # {} =>
          /\ Some(s) \in s
          /\ Cardinality(s \ {Some(s)}) = Cardinality(s) - 1
    BY SomeOf
  <1>3. 0 \in Good
    <2> DEFINE h == [s \in Upto(S, 0) |-> 0]
    <2>1. \A s \in Upto(S, 0) : s = {}
      <3>1. \A s \in SUBSET S : IsFiniteSet(s)
        BY FS_Subset
      <3>2. QED BY <1>1, <3>1, FS_EmptySet DEF Upto
    <2>2. IsPart(h, 0)
      BY <2>1 DEF SumPart
    <2>3. QED BY <2>2
  <1>4. ASSUME NEW n \in Nat, n \in Good
        PROVE  n + 1 \in Good
    <2>1. PICK f : IsPart(f, n)
      BY <1>4
    <2> DEFINE h == [s \in Upto(S, n + 1) |->
                       IF s = {} THEN 0
                       ELSE f[s \ {Some(s)}] + g[Some(s)]]
    <2>2. \A s \in Upto(S, n + 1) : s # {} => s \ {Some(s)} \in Upto(S, n)
      <3> HIDE DEF h, IsPart, Good
      <3> SUFFICES ASSUME NEW s \in Upto(S, n + 1), s # {}
                   PROVE  s \ {Some(s)} \in Upto(S, n)
        OBVIOUS
      <3>1. s \in SUBSET S /\ Cardinality(s) <= n + 1
        BY DEF Upto
      <3>2. /\ Cardinality(s) \in Nat
            /\ Cardinality(s \ {Some(s)}) = Cardinality(s) - 1
        BY <1>1, <1>2, <3>1
      <3>3. Cardinality(s \ {Some(s)}) <= n
        BY <3>1, <3>2
      <3>4. QED BY <3>1, <3>3 DEF Upto
    <2>3. Upto(S, n) \subseteq Upto(S, n + 1)
      BY <1>1 DEF Upto
    <2>4. \A s \in Upto(S, n) : h[s] = f[s]
      BY <2>1, <2>3 DEF SumPart
    <2>5. \A s \in Upto(S, n + 1) : s # {} =>
            h[s \ {Some(s)}] = f[s \ {Some(s)}]
      BY <2>2, <2>4
    <2>6. IsPart(h, n + 1)
      BY <2>5 DEF SumPart
    <2>7. QED BY <2>6
  <1>5. Cardinality(S) \in Good
    <2> HIDE DEF Good
    <2>1. \A k \in 0..(Cardinality(S) - 1) : k \in Good => k + 1 \in Good
      BY <1>1, <1>4
    <2>2. QED BY <1>1, <1>3, <2>1, Climb
  <1>6. PICK h : IsPart(h, Cardinality(S))
    BY <1>5
  <1>7. Upto(S, Cardinality(S)) = SUBSET S
    BY <1>1 DEF Upto
  <1>8. SumFold(h, g, S)
    BY <1>6, <1>7 DEF SumFold, SumPart
  <1>9. QED BY <1>8

(* Two such functions agree where their sets and what they add agree.      *)
LEMMA SumAgree ==
  ASSUME NEW S, IsFiniteSet(S), NEW T, NEW g, NEW k, NEW h, NEW f,
         SumFold(h, g, S), SumFold(f, k, T),
         NEW U, U \subseteq S, U \subseteq T, \A x \in U : g[x] = k[x]
  PROVE  h[U] = f[U]
  <1>1. PICK B : B = {s \in SUBSET U : h[s] # f[s]}
    OBVIOUS
  <1>2. SUFFICES ASSUME B # {} PROVE FALSE
    BY <1>1
  <1>3. IsFiniteSet(U) /\ \A s \in B : s \subseteq U
    BY <1>1, FS_Subset
  <1>4. \E s \in B : \A u \in B : u \subseteq s => u = s
    BY <1>2, <1>3, Descent
  <1>5. PICK s \in B : \A u \in B : u \subseteq s => u = s
    BY <1>4
  <1>6. s \in SUBSET U /\ s \in SUBSET S /\ s \in SUBSET T /\ h[s] # f[s]
    BY <1>1, <1>5
  <1>7. s # {}
    BY <1>6 DEF SumFold
  <1>8. Some(s) \in s /\ Some(s) \in U
    BY <1>6, <1>7 DEF Some
  <1>9. PICK r : r = s \ {Some(s)}
    OBVIOUS
  <1>10. r \in SUBSET U /\ r \notin B
    BY <1>5, <1>6, <1>8, <1>9
  <1>11. h[r] = f[r]
    BY <1>1, <1>10
  <1>12. h[s] = h[r] + g[Some(s)] /\ f[s] = f[r] + k[Some(s)]
    BY <1>6, <1>7, <1>9 DEF SumFold
  <1>13. QED BY <1>6, <1>8, <1>11, <1>12

LEMMA SumIs ==
  ASSUME NEW S, IsFiniteSet(S), NEW g, NEW h, SumFold(h, g, S)
  PROVE  \A U \in SUBSET S : h[U] = Sum(g, U)
  <1> SUFFICES ASSUME NEW U \in SUBSET S PROVE h[U] = Sum(g, U)
    OBVIOUS
  <1>1. PICK f : f = CHOOSE d : SumFold(d, g, U)
    OBVIOUS
  <1>2. IsFiniteSet(U)
    BY FS_Subset
  <1>3. SumFold(f, g, U) /\ Sum(g, U) = f[U]
    BY <1>1, <1>2, SumExists DEF Sum
  <1>4. QED BY <1>3, SumAgree

LEMMA SumSome ==
  ASSUME NEW S, IsFiniteSet(S), NEW g
  PROVE  /\ S = {} => Sum(g, S) = 0
         /\ S # {} => Sum(g, S) = Sum(g, S \ {Some(S)}) + g[Some(S)]
  <1>1. PICK h : SumFold(h, g, S)
    BY SumExists
  <1>2. \A U \in SUBSET S : h[U] = Sum(g, U)
    BY <1>1, SumIs
  <1>3. h[S] = IF S = {} THEN 0 ELSE h[S \ {Some(S)}] + g[Some(S)]
    BY <1>1 DEF SumFold
  <1>4. QED BY <1>2, <1>3

(* A sum of integers is one.                                               *)
LEMMA SumType ==
  ASSUME NEW S, IsFiniteSet(S), NEW g, \A x \in S : g[x] \in Int
  PROVE  \A s \in SUBSET S : Sum(g, s) \in Int
  <1>1. PICK B : B = {s \in SUBSET S : Sum(g, s) \notin Int}
    OBVIOUS
  <1>2. SUFFICES ASSUME B # {} PROVE FALSE
    BY <1>1
  <1>3. \A s \in B : s \subseteq S
    BY <1>1
  <1>4. \E s \in B : \A u \in B : u \subseteq s => u = s
    BY <1>2, <1>3, Descent
  <1>5. PICK s \in B : \A u \in B : u \subseteq s => u = s
    BY <1>4
  <1>6. s \in SUBSET S /\ Sum(g, s) \notin Int /\ IsFiniteSet(s)
    BY <1>1, <1>5, FS_Subset
  <1>7. s # {}
    BY <1>6, SumSome
  <1>8. Some(s) \in s
    BY <1>7 DEF Some
  <1>9. PICK r : r = s \ {Some(s)}
    OBVIOUS
  <1>10. r \in SUBSET S /\ r \notin B
    BY <1>5, <1>6, <1>8, <1>9
  <1>11. Sum(g, r) \in Int /\ g[Some(s)] \in Int
    BY <1>1, <1>6, <1>8, <1>10
  <1>12. Sum(g, s) = Sum(g, s \ {Some(s)}) + g[Some(s)]
    BY <1>6, <1>7, SumSome
  <1>13. PICK a, b : a = Sum(g, r) /\ b = g[Some(s)]
    OBVIOUS
  <1>14. a \in Int /\ b \in Int /\ Sum(g, s) = a + b
    BY <1>9, <1>11, <1>12, <1>13
  <1>15. QED BY <1>6, <1>14

(* It does not matter which element is added last.                         *)
LEMMA SumRemove ==
  ASSUME NEW S, IsFiniteSet(S), NEW g, \A x \in S : g[x] \in Int
  PROVE  \A x \in S : Sum(g, S) = Sum(g, S \ {x}) + g[x]
  <1>1. PICK B : B = {s \in SUBSET S :
                        \E x \in s : Sum(g, s) # Sum(g, s \ {x}) + g[x]}
    OBVIOUS
  <1>2. SUFFICES ASSUME B # {} PROVE FALSE
    BY <1>1
  <1>3. \A s \in B : s \subseteq S
    BY <1>1
  <1>4. \E s \in B : \A u \in B : u \subseteq s => u = s
    BY <1>2, <1>3, Descent
  <1>5. PICK s \in B : \A u \in B : u \subseteq s => u = s
    BY <1>4
  <1>6. PICK x \in s : Sum(g, s) # Sum(g, s \ {x}) + g[x]
    BY <1>1, <1>5
  <1>7. s \in SUBSET S /\ IsFiniteSet(s)
    BY <1>1, <1>5, FS_Subset
  <1>8. PICK y : y = Some(s)
    OBVIOUS
  <1>9. y \in s /\ Sum(g, s) = Sum(g, s \ {y}) + g[y]
    BY <1>6, <1>7, <1>8, SumSome DEF Some
  <1>10. x # y
    BY <1>6, <1>9
  <1>11. s \ {x} \in SUBSET S /\ s \ {x} # s /\ s \ {x} \subseteq s
    BY <1>6, <1>7
  <1>12. s \ {y} \in SUBSET S /\ s \ {y} # s /\ s \ {y} \subseteq s
    BY <1>7, <1>9
  <1>13. s \ {x} \notin B /\ s \ {y} \notin B
    BY <1>5, <1>11, <1>12
  <1>14. /\ Sum(g, s \ {x}) = Sum(g, (s \ {x}) \ {y}) + g[y]
         /\ Sum(g, s \ {y}) = Sum(g, (s \ {y}) \ {x}) + g[x]
    BY <1>1, <1>6, <1>9, <1>10, <1>11, <1>12, <1>13
  <1>15. PICK r : r = (s \ {x}) \ {y}
    OBVIOUS
  <1>16. (s \ {y}) \ {x} = r
    BY <1>15
  <1>17. Sum(g, r) \in Int /\ g[x] \in Int /\ g[y] \in Int
    <2>1. r \in SUBSET S
      BY <1>7, <1>15
    <2>2. x \in S /\ y \in S
      BY <1>6, <1>7, <1>9
    <2>3. Sum(g, r) \in Int
      BY <2>1, SumType
    <2>4. QED BY <2>2, <2>3
  <1>18. PICK a, b, d : a = Sum(g, r) /\ b = g[x] /\ d = g[y]
    OBVIOUS
  <1>19. /\ Sum(g, s \ {x}) = a + d /\ Sum(g, s \ {y}) = a + b
         /\ a \in Int /\ b \in Int /\ d \in Int
    BY <1>14, <1>15, <1>16, <1>17, <1>18
  <1>20. Sum(g, s) = (a + b) + d
    BY <1>9, <1>18, <1>19
  <1>21. Sum(g, s) = Sum(g, s \ {x}) + g[x]
    BY <1>18, <1>19, <1>20
  <1>22. QED BY <1>6, <1>21

(* A sum depends on what is added up only.                                 *)
LEMMA SumSame ==
  ASSUME NEW S, IsFiniteSet(S), NEW g, NEW k, \A x \in S : g[x] = k[x]
  PROVE  Sum(g, S) = Sum(k, S)
  <1>1. PICK h : SumFold(h, g, S)
    BY SumExists
  <1>2. PICK f : SumFold(f, k, S)
    BY SumExists
  <1>3. h[S] = f[S]
    BY <1>1, <1>2, SumAgree
  <1>4. h[S] = Sum(g, S) /\ f[S] = Sum(k, S)
    BY <1>1, <1>2, SumIs
  <1>5. QED BY <1>3, <1>4

(* Nothing adds up to nothing.                                             *)
LEMMA SumZero ==
  ASSUME NEW S, IsFiniteSet(S), NEW g, \A x \in S : g[x] = 0
  PROVE  Sum(g, S) = 0
  <1>1. PICK B : B = {s \in SUBSET S : Sum(g, s) # 0}
    OBVIOUS
  <1>2. SUFFICES ASSUME B # {} PROVE FALSE
    BY <1>1
  <1>3. \A s \in B : s \subseteq S
    BY <1>1
  <1>4. \E s \in B : \A u \in B : u \subseteq s => u = s
    BY <1>2, <1>3, Descent
  <1>5. PICK s \in B : \A u \in B : u \subseteq s => u = s
    BY <1>4
  <1>6. s \in SUBSET S /\ Sum(g, s) # 0 /\ IsFiniteSet(s)
    BY <1>1, <1>5, FS_Subset
  <1>7. s # {} /\ Sum(g, s) = Sum(g, s \ {Some(s)}) + g[Some(s)]
    BY <1>6, SumSome
  <1>8. PICK x, r : x = Some(s) /\ r = s \ {x}
    OBVIOUS
  <1>9. x \in s /\ r \in SUBSET S /\ r \notin B
    BY <1>5, <1>6, <1>7, <1>8 DEF Some
  <1>10. Sum(g, r) = 0 /\ g[x] = 0
    BY <1>1, <1>6, <1>9
  <1>11. Sum(g, s) = 0 + 0
    BY <1>7, <1>8, <1>10
  <1>12. QED BY <1>6, <1>11

LEMMA SumUnion ==
  ASSUME NEW S, NEW T, IsFiniteSet(S), IsFiniteSet(T), S \cap T = {},
         NEW g, \A x \in S \cup T : g[x] \in Int
  PROVE  Sum(g, S \cup T) = Sum(g, S) + Sum(g, T)
  <1>1. PICK B : B = {s \in SUBSET T :
                        Sum(g, S \cup s) # Sum(g, S) + Sum(g, s)}
    OBVIOUS
  <1>2. SUFFICES ASSUME B # {} PROVE FALSE
    BY <1>1
  <1>3. \A s \in B : s \subseteq T
    BY <1>1
  <1>4. \E s \in B : \A u \in B : u \subseteq s => u = s
    BY <1>2, <1>3, Descent
  <1>5. PICK s \in B : \A u \in B : u \subseteq s => u = s
    BY <1>4
  <1>6. /\ s \in SUBSET T /\ Sum(g, S \cup s) # Sum(g, S) + Sum(g, s)
        /\ IsFiniteSet(s) /\ IsFiniteSet(S \cup s)
    BY <1>1, <1>5, FS_Subset, FS_Union
  <1>7. Sum(g, S) \in Int
    BY SumType
  <1>8. s # {}
    <2>1. SUFFICES ASSUME s = {} PROVE FALSE
      OBVIOUS
    <2>2. S \cup s = S /\ Sum(g, s) = 0
      BY <1>6, <2>1, SumSome
    <2>3. PICK a : a = Sum(g, S)
      OBVIOUS
    <2>4. a \in Int /\ Sum(g, S \cup s) = a /\ Sum(g, s) = 0
      BY <1>7, <2>2, <2>3
    <2>5. QED BY <1>6, <2>3, <2>4
  <1>9. PICK x, r : x \in s /\ r = s \ {x}
    BY <1>8
  <1>10. r \in SUBSET T /\ r \notin B /\ r # s
    BY <1>5, <1>6, <1>9
  <1>11. Sum(g, S \cup r) = Sum(g, S) + Sum(g, r)
    BY <1>1, <1>10
  <1>12. Sum(g, s) = Sum(g, s \ {x}) + g[x]
    BY <1>6, <1>9, SumRemove
  <1>13. Sum(g, S \cup s) = Sum(g, (S \cup s) \ {x}) + g[x]
    BY <1>6, <1>9, SumRemove
  <1>14. (S \cup s) \ {x} = S \cup r
    BY <1>6, <1>9
  <1>15. Sum(g, r) \in Int /\ g[x] \in Int
    <2>1. r \in SUBSET T /\ x \in T
      BY <1>6, <1>9, <1>10
    <2>2. QED BY <2>1, SumType
  <1>16. PICK a, b, d : a = Sum(g, S) /\ b = Sum(g, r) /\ d = g[x]
    OBVIOUS
  <1>17. /\ a \in Int /\ b \in Int /\ d \in Int
         /\ Sum(g, s) = b + d /\ Sum(g, S \cup s) = (a + b) + d
    BY <1>7, <1>9, <1>11, <1>12, <1>13, <1>14, <1>15, <1>16
  <1>18. Sum(g, S \cup s) = Sum(g, S) + Sum(g, s)
    BY <1>16, <1>17
  <1>19. QED BY <1>6, <1>18

(* A sum over the values of b is one over its arguments.                   *)
LEMMA SumMap ==
  ASSUME NEW A, IsFiniteSet(A), NEW b,
         \A x, y \in A : b[x] = b[y] => x = y,
         NEW g, NEW k, \A x \in A : k[x] = g[b[x]] /\ k[x] \in Int
  PROVE  Sum(g, {b[x] : x \in A}) = Sum(k, A)
  <1>1. PICK B : B = {s \in SUBSET A :
                        Sum(g, {b[x] : x \in s}) # Sum(k, s)}
    OBVIOUS
  <1>2. SUFFICES ASSUME B # {} PROVE FALSE
    BY <1>1
  <1>3. \A s \in B : s \subseteq A
    BY <1>1
  <1>4. \E s \in B : \A u \in B : u \subseteq s => u = s
    BY <1>2, <1>3, Descent
  <1>5. PICK s \in B : \A u \in B : u \subseteq s => u = s
    BY <1>4
  <1>6. /\ s \in SUBSET A /\ Sum(g, {b[x] : x \in s}) # Sum(k, s)
        /\ IsFiniteSet(s)
    BY <1>1, <1>5, FS_Subset
  <1>7. PICK V : V = {b[x] : x \in s}
    OBVIOUS
  <1>8. IsFiniteSet(V) /\ \A v \in V : g[v] \in Int
    <2>1. PICK f : f = [x \in s |-> b[x]]
      OBVIOUS
    <2>2. f \in Surjection(s, V)
      BY <1>7, <2>1 DEF Surjection
    <2>3. IsFiniteSet(V)
      BY <1>6, <2>2, FS_Surjection
    <2>4. QED BY <1>6, <1>7, <2>3
  <1>9. s # {}
    <2>1. SUFFICES ASSUME s = {} PROVE FALSE
      OBVIOUS
    <2>2. V = {}
      BY <1>7, <2>1
    <2>3. QED BY <1>6, <1>7, <1>8, <2>1, <2>2, SumSome
  <1>10. PICK x, r : x \in s /\ r = s \ {x}
    BY <1>9
  <1>11. r \in SUBSET A /\ r \notin B
    BY <1>5, <1>6, <1>10
  <1>12. Sum(g, {b[y] : y \in r}) = Sum(k, r)
    BY <1>1, <1>11
  <1>13. V \ {b[x]} = {b[y] : y \in r} /\ b[x] \in V
    BY <1>6, <1>7, <1>10
  <1>14. Sum(g, V) = Sum(g, V \ {b[x]}) + g[b[x]]
    BY <1>8, <1>13, SumRemove
  <1>15. \A y \in s : k[y] \in Int
    BY <1>6
  <1>16. Sum(k, s) = Sum(k, s \ {x}) + k[x]
    BY <1>6, <1>10, <1>15, SumRemove
  <1>17. k[x] = g[b[x]]
    BY <1>6, <1>10
  <1>18. Sum(g, V) = Sum(k, s)
    BY <1>10, <1>12, <1>13, <1>14, <1>16, <1>17
  <1>19. QED BY <1>6, <1>7, <1>18

(* One term changes.                                                       *)
LEMMA SumChange ==
  ASSUME NEW S, IsFiniteSet(S), NEW g, NEW k, NEW a \in S,
         \A x \in S : g[x] \in Int /\ k[x] \in Int,
         \A x \in S \ {a} : k[x] = g[x]
  PROVE  Sum(k, S) = Sum(g, S) + (k[a] - g[a])
  <1>1. PICK R : R = S \ {a}
    OBVIOUS
  <1>2. IsFiniteSet(R) /\ R \in SUBSET S
    BY <1>1, FS_Subset
  <1>3. Sum(g, S) = Sum(g, R) + g[a] /\ Sum(k, S) = Sum(k, R) + k[a]
    BY <1>1, SumRemove
  <1>4. Sum(k, R) = Sum(g, R) /\ Sum(g, R) \in Int
    BY <1>1, <1>2, SumSame, SumType
  <1>5. PICK x, y, z : x = Sum(g, R) /\ y = g[a] /\ z = k[a]
    OBVIOUS
  <1>6. x \in Int /\ y \in Int /\ z \in Int
    BY <1>4, <1>5
  <1>7. Sum(g, S) = x + y /\ Sum(k, S) = x + z
    BY <1>3, <1>4, <1>5
  <1>8. QED BY <1>5, <1>6, <1>7

(* The library adds a function up with the terms in the other order.       *)
SumBack(h, g, S) ==
  h = [s \in SUBSET S |->
         IF s = {} THEN 0 ELSE g[Some(s)] + h[s \ {Some(s)}]]

LEMMA SumFunctionIs ==
  ASSUME NEW g, IsFiniteSet(DOMAIN g), \A x \in DOMAIN g : g[x] \in Int
  PROVE  SumFunction(g) = Sum(g, DOMAIN g)
  <1>1. PICK S : S = DOMAIN g
    OBVIOUS
  <1>2. IsFiniteSet(S) /\ \A x \in S : g[x] \in Int
    BY <1>1
  <1>3. \A s \in SUBSET S : Sum(g, s) \in Int
    BY <1>2, SumType
  <1>4. \A s \in SUBSET S : s # {} =>
          /\ Some(s) \in S /\ s \ {Some(s)} \in SUBSET S
          /\ s \ {Some(s)} # s
          /\ Sum(g, s) = g[Some(s)] + Sum(g, s \ {Some(s)})
    <2> SUFFICES ASSUME NEW s \in SUBSET S, s # {}
                 PROVE  /\ Some(s) \in S /\ s \ {Some(s)} \in SUBSET S
                        /\ s \ {Some(s)} # s
                        /\ Sum(g, s)
                             = g[Some(s)] + Sum(g, s \ {Some(s)})
      OBVIOUS
    <2>1. PICK x, r : x = Some(s) /\ r = s \ {x}
      OBVIOUS
    <2>2. x \in s /\ r \in SUBSET S /\ r # s
      BY <2>1 DEF Some
    <2>3. Sum(g, s) = Sum(g, r) + g[x]
      <3>1. IsFiniteSet(s)
        BY <1>2, FS_Subset
      <3>2. QED BY <2>1, <3>1, SumSome
    <2>4. PICK a, b : a = Sum(g, r) /\ b = g[x]
      OBVIOUS
    <2>5. a \in Int /\ b \in Int
      BY <1>2, <1>3, <2>2, <2>4
    <2>6. Sum(g, s) = b + a
      BY <2>3, <2>4, <2>5
    <2>7. QED BY <2>1, <2>2, <2>4, <2>6
  <1>5. \E h : SumBack(h, g, S)
    <2>1. PICK h : h = [s \in SUBSET S |-> Sum(g, s)]
      OBVIOUS
    <2>2. Sum(g, {}) = 0
      BY FS_EmptySet, SumSome
    <2>3. \A s \in SUBSET S :
            Sum(g, s) = IF s = {} THEN 0
                        ELSE g[Some(s)] + h[s \ {Some(s)}]
      BY <1>4, <2>1, <2>2
    <2>4. QED BY <2>1, <2>3 DEF SumBack
  <1>6. \A h : SumBack(h, g, S) => h[S] = Sum(g, S)
    <2> SUFFICES ASSUME NEW h, SumBack(h, g, S) PROVE h[S] = Sum(g, S)
      OBVIOUS
    <2>1. PICK B : B = {s \in SUBSET S : h[s] # Sum(g, s)}
      OBVIOUS
    <2>2. SUFFICES ASSUME B # {} PROVE FALSE
      BY <2>1
    <2>3. \A s \in B : s \subseteq S
      BY <2>1
    <2>4. \E s \in B : \A u \in B : u \subseteq s => u = s
      BY <1>2, <2>2, <2>3, Descent
    <2>5. PICK s \in B : \A u \in B : u \subseteq s => u = s
      BY <2>4
    <2>6. s \in SUBSET S /\ h[s] # Sum(g, s)
      BY <2>1
    <2>7. \A u \in SUBSET S :
            h[u] = IF u = {} THEN 0 ELSE g[Some(u)] + h[u \ {Some(u)}]
      BY DEF SumBack
    <2>8. s # {}
      <3>1. Sum(g, {}) = 0
        BY FS_EmptySet, SumSome
      <3>2. QED BY <2>6, <2>7, <3>1
    <2>9. s \ {Some(s)} \notin B
      BY <1>4, <2>5, <2>6, <2>8
    <2>10. h[s \ {Some(s)}] = Sum(g, s \ {Some(s)})
      BY <1>4, <2>1, <2>6, <2>8, <2>9
    <2>11. QED BY <1>4, <2>6, <2>7, <2>8, <2>10
  <1>7. SumFunction(g) = (CHOOSE h : SumBack(h, g, S))[S]
    BY <1>1 DEF SumFunction, SumFunctionOnSet, FoldFunctionOnSet,
                MapThenFoldSet, SumBack, Some
  <1>8. QED BY <1>1, <1>5, <1>6, <1>7

(* Two sums over one set.                                                  *)
LEMMA SumPlus ==
  ASSUME NEW S, IsFiniteSet(S), NEW g, NEW k, NEW m,
         \A x \in S : g[x] \in Int /\ k[x] \in Int /\ m[x] = g[x] + k[x]
  PROVE  Sum(m, S) = Sum(g, S) + Sum(k, S)
  <1>1. PICK B : B = {s \in SUBSET S : Sum(m, s) # Sum(g, s) + Sum(k, s)}
    OBVIOUS
  <1>2. SUFFICES ASSUME B # {} PROVE FALSE
    BY <1>1
  <1>3. \A s \in B : s \subseteq S
    BY <1>1
  <1>4. \E s \in B : \A u \in B : u \subseteq s => u = s
    BY <1>2, <1>3, Descent
  <1>5. PICK s \in B : \A u \in B : u \subseteq s => u = s
    BY <1>4
  <1>6. /\ s \in SUBSET S /\ Sum(m, s) # Sum(g, s) + Sum(k, s)
        /\ IsFiniteSet(s)
    BY <1>1, <1>5, FS_Subset
  <1>7. s # {}
    <2>1. SUFFICES ASSUME s = {} PROVE FALSE
      OBVIOUS
    <2>2. Sum(m, s) = 0 /\ Sum(g, s) = 0 /\ Sum(k, s) = 0
      BY <1>6, <2>1, SumSome
    <2>3. QED BY <1>6, <2>2
  <1>8. PICK x, r : x = Some(s) /\ r = s \ {x}
    OBVIOUS
  <1>9. x \in s /\ r \in SUBSET S /\ r \notin B
    BY <1>5, <1>6, <1>7, <1>8 DEF Some
  <1>10. /\ Sum(m, s) = Sum(m, r) + m[x] /\ Sum(g, s) = Sum(g, r) + g[x]
         /\ Sum(k, s) = Sum(k, r) + k[x]
    BY <1>6, <1>7, <1>8, SumSome
  <1>11. Sum(m, r) = Sum(g, r) + Sum(k, r)
    BY <1>1, <1>9
  <1>12. \A y \in S : g[y] \in Int
    OBVIOUS
  <1>13. \A y \in S : k[y] \in Int
    OBVIOUS
  <1>14. Sum(g, r) \in Int /\ Sum(k, r) \in Int
    BY <1>9, <1>12, <1>13, SumType
  <1>15. g[x] \in Int /\ k[x] \in Int /\ m[x] = g[x] + k[x]
    BY <1>6, <1>9
  <1>16. PICK a, b, c, d : /\ a = Sum(g, r) /\ b = Sum(k, r)
                           /\ c = g[x] /\ d = k[x]
    OBVIOUS
  <1>17. /\ a \in Int /\ b \in Int /\ c \in Int /\ d \in Int
         /\ Sum(m, s) = (a + b) + (c + d)
         /\ Sum(g, s) = a + c /\ Sum(k, s) = b + d
    BY <1>10, <1>11, <1>14, <1>15, <1>16
  <1>18. Sum(m, s) = Sum(g, s) + Sum(k, s)
    BY <1>17
  <1>19. QED BY <1>6, <1>18

-----------------------------------------------------------------------------
(* Packets: how many the observations of a sequence, or the windows of a   *)
(* table, stand for.                                                       *)

LEMMA Intervals == \A a, b \in Int : IsFiniteSet(a..b)
  BY FS_Interval

PacketsIn(f) == [x \in DOMAIN f |-> f[x].packets]
Load(f) == Sum(PacketsIn(f), DOMAIN f)
Counted(f) ==
  IsFiniteSet(DOMAIN f) /\ \A x \in DOMAIN f : f[x].packets \in Int

LEMMA LoadType ==
  ASSUME NEW f, Counted(f)
  PROVE  Load(f) \in Int
  <1>1. PICK g : g = PacketsIn(f)
    OBVIOUS
  <1>2. IsFiniteSet(DOMAIN f) /\ \A x \in DOMAIN f : g[x] \in Int
    BY <1>1 DEF Counted, PacketsIn
  <1>3. PICK S : S = DOMAIN f
    OBVIOUS
  <1>4. S \in SUBSET S
    OBVIOUS
  <1>5. Sum(g, S) \in Int
    BY <1>2, <1>3, <1>4, SumType
  <1>6. QED BY <1>1, <1>3, <1>5 DEF Load

LEMMA LoadZero ==
  ASSUME NEW f, IsFiniteSet(DOMAIN f), \A x \in DOMAIN f : f[x].packets = 0
  PROVE  Load(f) = 0
  <1>1. \A x \in DOMAIN f : PacketsIn(f)[x] = 0
    BY DEF PacketsIn
  <1>2. QED BY <1>1, SumZero DEF Load

LEMMA LoadNone ==
  ASSUME NEW f, DOMAIN f = {}
  PROVE  Counted(f) /\ Load(f) = 0
  <1>1. IsFiniteSet(DOMAIN f)
    BY FS_EmptySet
  <1>2. QED BY <1>1, LoadZero DEF Counted

(* Two tables that agree in their packets.                                 *)
LEMMA LoadSame ==
  ASSUME NEW f, NEW h, Counted(f), DOMAIN h = DOMAIN f,
         \A x \in DOMAIN f : h[x].packets = f[x].packets
  PROVE  Load(h) = Load(f) /\ Counted(h)
  <1>1. PICK S : S = DOMAIN f
    OBVIOUS
  <1>2. \A x \in S : PacketsIn(h)[x] = PacketsIn(f)[x]
    BY <1>1 DEF PacketsIn
  <1>3. IsFiniteSet(S)
    BY <1>1 DEF Counted
  <1>4. Sum(PacketsIn(h), S) = Sum(PacketsIn(f), S)
    BY <1>2, <1>3, SumSame
  <1>5. QED BY <1>1, <1>4 DEF Load, Counted

(* A window is opened, or counts one packet more.                          *)
LEMMA LoadOneMore ==
  ASSUME NEW f, NEW h, Counted(f), NEW key, DOMAIN h = DOMAIN f \cup {key},
         \A x \in DOMAIN f : x # key => h[x] = f[x],
         h[key].packets =
           IF key \in DOMAIN f THEN f[key].packets + 1 ELSE 1
  PROVE  Counted(h) /\ Load(h) = Load(f) + 1
  <1>1. PICK g, k : g = PacketsIn(f) /\ k = PacketsIn(h)
    OBVIOUS
  <1>2. PICK S : S = DOMAIN f
    OBVIOUS
  <1>3. IsFiniteSet(S) /\ \A x \in S : g[x] \in Int
    BY <1>1, <1>2 DEF Counted, PacketsIn
  <1>4. /\ \A x \in S \ {key} : k[x] = g[x]
        /\ k[key] = IF key \in S THEN g[key] + 1 ELSE 1
    BY <1>1, <1>2 DEF PacketsIn
  <1>5. IsFiniteSet(S \cup {key}) /\ \A x \in S \cup {key} : k[x] \in Int
    BY <1>3, <1>4, FS_AddElement
  <1>6. PICK a : a = Sum(g, S)
    OBVIOUS
  <1>7. a \in Int
    <2>1. S \in SUBSET S
      OBVIOUS
    <2>2. QED BY <1>3, <1>6, <2>1, SumType
  <1>8. Sum(k, S \cup {key}) = a + 1
    <2>1. CASE key \in S
      <3>1. S \cup {key} = S /\ \A x \in S : g[x] \in Int /\ k[x] \in Int
        BY <1>3, <1>5, <2>1
      <3>2. Sum(k, S) = Sum(g, S) + (k[key] - g[key])
        BY <1>3, <1>4, <2>1, <3>1, SumChange
      <3>3. PICK b : b = g[key]
        OBVIOUS
      <3>4. b \in Int /\ k[key] = b + 1
        BY <1>3, <1>4, <2>1, <3>3
      <3>5. Sum(k, S) = a + ((b + 1) - b)
        BY <1>6, <3>2, <3>3, <3>4
      <3>6. QED BY <1>7, <3>1, <3>4, <3>5
    <2>2. CASE key \notin S
      <3>1. PICK T : T = S \cup {key}
        OBVIOUS
      <3>2. T \ {key} = S /\ key \in T
        BY <2>2, <3>1
      <3>3. Sum(k, T) = Sum(k, T \ {key}) + k[key]
        BY <1>5, <3>1, <3>2, SumRemove
      <3>4. \A x \in S : k[x] = g[x]
        BY <1>4, <2>2
      <3>5. Sum(k, S) = Sum(g, S)
        BY <1>3, <3>4, SumSame
      <3>6. Sum(k, T) = a + 1
        BY <1>4, <1>6, <2>2, <3>2, <3>3, <3>5
      <3>7. QED BY <3>1, <3>6
    <2>3. QED BY <2>1, <2>2
  <1>9. Counted(h)
    BY <1>1, <1>2, <1>5 DEF Counted, PacketsIn
  <1>10. QED BY <1>1, <1>2, <1>6, <1>8, <1>9 DEF Load

(* What two sequences stand for, one after the other.                      *)
LEMMA LoadJoined ==
  ASSUME NEW s, NEW u, IsSequence(s), IsSequence(u), Counted(s), Counted(u)
  PROVE  Counted(s \o u) /\ Load(s \o u) = Load(s) + Load(u)
  <1>1. PICK U : U = Range(s) \cup Range(u)
    OBVIOUS
  <1>2. s \in Seq(U) /\ u \in Seq(U)
    BY <1>1 DEF IsSequence
  <1>3. PICK w, m, n : w = s \o u /\ m = Len(s) /\ n = Len(u)
    OBVIOUS
  <1>4. /\ m \in Nat /\ n \in Nat /\ DOMAIN s = 1..m /\ DOMAIN u = 1..n
        /\ DOMAIN w = 1..(m + n)
        /\ \A i \in 1..m : w[i] = s[i]
        /\ \A i \in 1..n : w[m + i] = u[i]
    BY <1>2, <1>3
  <1>5. PICK g, k, h : g = PacketsIn(s) /\ k = PacketsIn(u)
                         /\ h = PacketsIn(w)
    OBVIOUS
  <1>6. /\ \A i \in 1..m : h[i] = g[i] /\ g[i] \in Int
        /\ \A i \in 1..n : k[i] = h[m + i] /\ k[i] \in Int
    <2>1. \A i \in 1..m : i \in 1..(m + n)
      BY <1>4
    <2>2. \A i \in 1..n : m + i \in 1..(m + n)
      BY <1>4
    <2>3. QED BY <1>4, <1>5, <2>1, <2>2 DEF PacketsIn, Counted
  <1>7. PICK b : b = [i \in 1..n |-> m + i]
    OBVIOUS
  <1>8. PICK T : T = {b[i] : i \in 1..n}
    OBVIOUS
  <1>9. T = (m + 1)..(m + n)
    <2>1. T \subseteq (m + 1)..(m + n)
      BY <1>4, <1>7, <1>8
    <2>2. ASSUME NEW j \in (m + 1)..(m + n)
          PROVE  j \in T
      <3>1. j - m \in 1..n /\ b[j - m] = j
        BY <1>4, <1>7
      <3>2. QED BY <1>8, <3>1
    <2>3. QED BY <2>1, <2>2
  <1>10. Sum(h, T) = Sum(k, 1..n)
    <2>1. PICK A : A = 1..n
      OBVIOUS
    <2>2. \A i, j \in A : b[i] = b[j] => i = j
      BY <1>4, <1>7, <2>1
    <2>3. \A i \in A : k[i] = h[b[i]] /\ k[i] \in Int
      BY <1>6, <1>7, <2>1
    <2>4. IsFiniteSet(A)
      <3>1. 1 \in Int /\ n \in Int
        BY <1>4
      <3>2. QED BY <2>1, <3>1, Intervals
    <2>5. Sum(h, {b[i] : i \in A}) = Sum(k, A)
      BY <2>2, <2>3, <2>4, SumMap
    <2>6. QED BY <1>8, <2>1, <2>5
  <1>11. PICK S : S = 1..m
    OBVIOUS
  <1>12. IsFiniteSet(S) /\ IsFiniteSet(T) /\ S \cap T = {}
    <2>1. 1 \in Int /\ m \in Int /\ m + 1 \in Int /\ m + n \in Int
      BY <1>4
    <2>2. IsFiniteSet(S) /\ IsFiniteSet(T)
      BY <1>9, <1>11, <2>1, Intervals
    <2>3. QED BY <1>4, <1>9, <1>11, <2>2
  <1>13. Sum(h, S) = Sum(g, S)
    BY <1>6, <1>11, <1>12, SumSame
  <1>14. \A x \in S \cup T : h[x] \in Int
    BY <1>6, <1>7, <1>8, <1>11
  <1>15. Sum(h, S \cup T) = Sum(h, S) + Sum(h, T)
    BY <1>12, <1>14, SumUnion
  <1>16. S \cup T = 1..(m + n)
    BY <1>4, <1>9, <1>11
  <1>17. Load(w) = Load(s) + Load(u)
    BY <1>4, <1>5, <1>10, <1>11, <1>13, <1>15, <1>16 DEF Load
  <1>18. IsFiniteSet(1..(m + n))
    BY <1>12, <1>16, FS_Union
  <1>19. Counted(w)
    BY <1>4, <1>5, <1>14, <1>16, <1>18 DEF Counted, PacketsIn
  <1>20. QED BY <1>3, <1>17, <1>19

LEMMA LoadSingle ==
  ASSUME NEW x, x.packets \in Int
  PROVE  Counted(<<x>>) /\ Load(<<x>>) = x.packets
  <1>1. PICK s : s = <<x>>
    OBVIOUS
  <1>2. DOMAIN s = {1} /\ s[1] = x
    BY <1>1
  <1>3. IsFiniteSet({1})
    BY FS_Singleton
  <1>4. PICK g : g = PacketsIn(s)
    OBVIOUS
  <1>5. g[1] = x.packets
    BY <1>2, <1>4 DEF PacketsIn
  <1>6. \A y \in {1} : g[y] \in Int
    BY <1>5
  <1>7. Sum(g, {1}) = Sum(g, {1} \ {1}) + g[1]
    BY <1>3, <1>6, SumRemove
  <1>8. {1} \ {1} = {}
    OBVIOUS
  <1>9. Sum(g, {}) = 0
    BY FS_EmptySet, SumSome
  <1>10. PICK p : p = x.packets
    OBVIOUS
  <1>11. Sum(g, {1}) = 0 + p /\ p \in Int
    BY <1>5, <1>7, <1>8, <1>9, <1>10
  <1>12. QED BY <1>1, <1>2, <1>3, <1>4, <1>10, <1>11 DEF Load, Counted

(* The first of a sequence goes, another comes in at the end.              *)
LEMMA LoadTail ==
  ASSUME NEW s, IsSequence(s), Counted(s), s # <<>>
  PROVE  /\ Counted(Tail(s)) /\ IsSequence(Tail(s))
         /\ Head(s).packets \in Int
         /\ Load(s) = Head(s).packets + Load(Tail(s))
  <1>1. PICK U : U = Range(s)
    OBVIOUS
  <1>2. s \in Seq(U)
    BY <1>1 DEF IsSequence
  <1>3. PICK x, r : x = Head(s) /\ r = Tail(s)
    OBVIOUS
  <1>4. r \in Seq(U) /\ x \in U /\ s = <<x>> \o r
    BY <1>2, <1>3
  <1>5. /\ x = s[1] /\ Len(r) \in Nat /\ DOMAIN r = 1..Len(r)
        /\ \A i \in 1..Len(r) : i + 1 \in DOMAIN s /\ r[i] = s[i + 1]
        /\ 1 \in DOMAIN s
    BY <1>2, <1>3
  <1>6. x.packets \in Int /\ Counted(r)
    <2>1. 1 \in Int /\ Len(r) \in Int
      BY <1>5
    <2>2. IsFiniteSet(DOMAIN r)
      BY <1>5, <2>1, Intervals
    <2>3. QED BY <1>5, <2>2 DEF Counted
  <1>7. IsSequence(<<x>>) /\ IsSequence(r)
    BY <1>4, Single, SequenceOf
  <1>8. Load(s) = Load(<<x>>) + Load(r)
    BY <1>4, <1>6, <1>7, LoadSingle, LoadJoined
  <1>9. QED BY <1>3, <1>6, <1>7, <1>8, LoadSingle

LEMMA LoadAppend ==
  ASSUME NEW s, IsSequence(s), Counted(s), NEW x, x.packets \in Int
  PROVE  /\ Counted(Append(s, x)) /\ IsSequence(Append(s, x))
         /\ Load(Append(s, x)) = Load(s) + x.packets
  <1>1. PICK U : U = Range(s) \cup {x}
    OBVIOUS
  <1>2. s \in Seq(U) /\ x \in U
    BY <1>1 DEF IsSequence
  <1>3. Append(s, x) = s \o <<x>>
    BY <1>2
  <1>4. IsSequence(<<x>>) /\ Counted(<<x>>) /\ Load(<<x>>) = x.packets
    BY Single, LoadSingle
  <1>5. IsSequence(s \o <<x>>)
    BY <1>4, Joined
  <1>6. QED BY <1>3, <1>4, <1>5, LoadJoined

-----------------------------------------------------------------------------
(* What an observer says.  A policy excludes addresses; DHCP is told       *)
(* whatever it names, but always of a device with a link address.          *)

Proper(o, c) ==
  /\ o.by # "dhcp" =>
       /\ o.ip \notin c.excluded
       /\ o.other = "none" \/ o.other \notin c.excluded
  /\ o.by = "dhcp" =>
       o.kind = "relationship" \/ (o.kind \in {"asset", "dhcp"}
                                   /\ o.mac # "none")

AllProper(s, c) == IsSequence(s) /\ \A o \in Range(s) : Proper(o, c)

(* What is told of a frame is proper and stands for no packets of a flow.  *)
Plain(o, c) == Proper(o, c) /\ o.packets = 0
AllPlain(s, c) == IsSequence(s) /\ \A o \in Range(s) : Plain(o, c)

(* A window has a key that both directions of its conversation have: the   *)
(* lower port is the server's, of equal ones the lower address.            *)
Key(k, c) ==
  \E proto : \E a, b \in Hosts(c) : \E x, y \in Int :
    /\ k = [client |-> <<a, x>>, server |-> <<b, y>>, proto |-> proto]
    /\ x > y \/ (x = y /\ Rank[a] >= Rank[b])

Windows(ob, c) ==
  /\ AtMost(DOMAIN ob.flows, MaxFlows)
  /\ \A k \in DOMAIN ob.flows :
       /\ Key(k, c)
       /\ k.client[1] \notin c.excluded /\ k.server[1] \notin c.excluded
       /\ "packets" \in DOMAIN ob.flows[k] /\ ob.flows[k].packets \in Int

Loaded(ob) == ob.passed \in Int /\ ob.skipped \in Int /\ Counted(ob.out)

Sound(ob, c, t) ==
  /\ Fields(ob) /\ Claims(ob, t) /\ AllProper(ob.out, c)
  /\ Windows(ob, c) /\ Loaded(ob)

(* The packets that counted towards a flow, less those an observer still   *)
(* has in its windows or has to hand out.                                  *)
Gone(ob) == (ob.passed - ob.skipped) - (Load(ob.out) + Load(ob.flows))

(* One thing an observer does: it stays sound, keeps its pace, and no      *)
(* packet goes.                                                            *)
Onward(ob, new, c, t) == Sound(new, c, t) /\ Paced(ob, new, t)
Goes(ob, new, c, t) == Onward(ob, new, c, t) /\ Gone(new) = Gone(ob)

LEMMA GoesOnward ==
  ASSUME NEW t \in Int, NEW x, NEW y, NEW z, NEW c,
         Sound(x, c, t), Goes(x, y, c, t), Goes(y, z, c, t)
  PROVE  Goes(x, z, c, t)
  BY PacedOnward DEF Goes, Onward, Sound, Paces

LEMMA GoesNowhere ==
  ASSUME NEW t \in Int, NEW ob, NEW c, Sound(ob, c, t)
  PROVE  Goes(ob, ob, c, t)
  BY PacedSame DEF Goes, Onward, Sound, Paces

LEMMA WindowsCounted ==
  ASSUME NEW ob, NEW c, Windows(ob, c)
  PROVE  Counted(ob.flows) /\ Load(ob.flows) \in Int
  <1>1. Counted(ob.flows)
    BY DEF Windows, AtMost, Counted
  <1>2. QED BY <1>1, LoadType

LEMMA PlainLoad ==
  ASSUME NEW s, NEW c, AllPlain(s, c)
  PROVE  AllProper(s, c) /\ Counted(s) /\ Load(s) = 0
  <1>1. s \in Seq(Range(s)) /\ \A o \in Range(s) : Plain(o, c)
    BY DEF AllPlain, IsSequence
  <1>2. DOMAIN s = 1..Len(s) /\ 1 \in Int /\ Len(s) \in Int
    BY <1>1
  <1>3. IsFiniteSet(DOMAIN s)
    BY <1>2, Intervals
  <1>4. \A x \in DOMAIN s : s[x].packets = 0
    BY <1>1 DEF Plain, Range
  <1>5. Counted(s)
    BY <1>3, <1>4 DEF Counted
  <1>6. Load(s) = 0
    BY <1>3, <1>4, LoadZero
  <1>7. QED BY <1>1, <1>5, <1>6 DEF AllProper, AllPlain, Plain

(* Telling goes, whatever the claim, if what is told is plain.             *)
LEMMA TellGoes ==
  ASSUME NEW t \in Int, NEW ob, NEW c, Sound(ob, c, t),
         NEW key, NEW what, AllPlain(what, c)
  PROVE  Goes(ob, Tell(ob, key, t, what), c, t)
  <1>1. CASE Suppressed(ob, key, t)
    BY <1>1, GoesNowhere DEF Tell
  <1>2. CASE ~Suppressed(ob, key, t)
    <2> DEFINE mid == Allow(ob, key, t)
               new == Tell(ob, key, t, what)
    <2>1. /\ Fields(mid) /\ Paces(ob, mid, t) /\ mid.out = ob.out
          /\ mid.flows = ob.flows
          /\ mid.passed = ob.passed /\ mid.skipped = ob.skipped
      BY <1>2, AllowClaims DEF Sound
    <2>2. new = [mid EXCEPT !.out = mid.out \o what]
      BY <1>2 DEF Tell
    <2> HIDE DEF mid, new
    <2>3. /\ Fields(new) /\ new.out = ob.out \o what
          /\ new.told = mid.told /\ new.seen = mid.seen
          /\ new.cleared = mid.cleared /\ new.flows = ob.flows
          /\ new.passed = ob.passed /\ new.skipped = ob.skipped
      BY <2>1, <2>2 DEF Fields, Names
    <2>4. Paces(mid, new, t)
      BY <2>1, <2>3, PacedSame DEF Paces
    <2>5. Paces(ob, new, t)
      BY <2>1, <2>4, PacedOnward DEF Sound
    <2>6. AllProper(new.out, c)
      BY <2>3, PlainLoad, Joined DEF AllProper, Sound
    <2>7. Windows(new, c)
      BY <2>3 DEF Windows, Sound
    <2>8. Counted(new.out) /\ Load(new.out) = Load(ob.out) + Load(what)
      <3>1. /\ IsSequence(ob.out) /\ Counted(ob.out)
            /\ IsSequence(what) /\ Counted(what)
        BY PlainLoad DEF Sound, AllProper, Loaded
      <3>2. QED BY <2>3, <3>1, LoadJoined
    <2>9. Gone(new) = Gone(ob)
      <3>1. Load(ob.out) \in Int /\ Load(what) = 0
        BY PlainLoad, LoadType DEF Sound, Loaded
      <3>2. Load(new.out) = Load(ob.out)
        BY <2>8, <3>1
      <3>3. QED BY <2>3, <3>2 DEF Gone
    <2>10. Sound(new, c, t)
      BY <2>3, <2>5, <2>6, <2>7, <2>8 DEF Sound, Loaded, Paces
    <2>11. Goes(ob, new, c, t)
      BY <2>5, <2>9, <2>10 DEF Goes, Onward, Paces
    <2>12. QED BY <2>11 DEF new
  <1>3. QED BY <1>1, <1>2

-----------------------------------------------------------------------------
(* The protocols: each tells something plain, if the addresses it reads   *)
(* it from are not excluded.                                               *)

LEMMA AllPlainSingle ==
  ASSUME NEW x, NEW c, Plain(x, c)
  PROVE  AllPlain(<<x>>, c)
  BY Single DEF AllPlain

LEMMA AllPlainNone ==
  ASSUME NEW c
  PROVE  AllPlain(<<>>, c)
  BY None DEF AllPlain

LEMMA AllPlainJoined ==
  ASSUME NEW s, NEW u, NEW c, AllPlain(s, c), AllPlain(u, c)
  PROVE  AllPlain(s \o u, c)
  BY Joined DEF AllPlain

LEMMA Parts ==
  ASSUME NEW by, NEW ip, NEW mac, NEW host, NEW other
  PROVE  /\ Observation("asset", by, ip).by = by
         /\ Asset(by, ip, mac, host).by = by
         /\ Asset(by, ip, mac, host).ip = ip
         /\ Asset(by, ip, mac, host).mac = mac
         /\ Asset(by, ip, mac, host).kind = "asset"
         /\ Asset(by, ip, mac, host).other = "none"
         /\ Asset(by, ip, mac, host).packets = 0
         /\ Relationship(by, ip, other).by = by
         /\ Relationship(by, ip, other).ip = ip
         /\ Relationship(by, ip, other).kind = "relationship"
         /\ Relationship(by, ip, other).other = other
         /\ Relationship(by, ip, other).packets = 0
  BY DEF Asset, Relationship, Observation

LEMMA PlainAsset ==
  ASSUME NEW c, NEW by, NEW ip, NEW mac, NEW host,
         by # "dhcp" => ip \notin c.excluded,
         by = "dhcp" => mac # "none"
  PROVE  AllPlain(<<Asset(by, ip, mac, host)>>, c)
  BY AllPlainSingle, Parts DEF Plain, Proper

LEMMA ArpGoes ==
  ASSUME NEW t \in Int, NEW ob, NEW c, Sound(ob, c, t), NEW arp
  PROVE  Goes(ob, HandleArp(ob, c, arp, t), c, t)
  <1>1. CASE HandleArp(ob, c, arp, t) = ob
    BY <1>1, GoesNowhere
  <1>2. CASE /\ arp.ip \notin c.excluded
             /\ HandleArp(ob, c, arp, t) =
                  Tell(ob, <<"arp", arp.ip, arp.mac>>, t,
                       <<Asset("arp", arp.ip, arp.mac, "none")>>)
    BY <1>2, PlainAsset, TellGoes
  <1>3. QED BY <1>1, <1>2 DEF HandleArp

LEMMA Icmpv6Goes ==
  ASSUME NEW t \in Int, NEW ob, NEW c, Sound(ob, c, t),
         NEW ip, NEW m, NEW mac
  PROVE  Goes(ob, HandleIcmpv6(ob, c, ip, m, mac, t), c, t)
  <1>1. CASE HandleIcmpv6(ob, c, ip, m, mac, t) = ob
    BY <1>1, GoesNowhere
  <1>2. CASE \E address, link :
               /\ address \notin c.excluded
               /\ HandleIcmpv6(ob, c, ip, m, mac, t) =
                    Tell(ob, <<"ndp", address, link>>, t,
                         <<Asset("ndp", address, link, "none")>>)
    BY <1>2, PlainAsset, TellGoes
  <1>3. QED BY <1>1, <1>2 DEF HandleIcmpv6

LEMMA DhcpGoes ==
  ASSUME NEW t \in Int, NEW ob, NEW c, Sound(ob, c, t), NEW m,
         m.mac # "none"
  PROVE  Goes(ob, HandleDhcp(ob, m, t), c, t)
  <1> DEFINE d == ParseDhcp(m)
             lease == d.type = "ack" /\ d.address # "none"
             said == [Observation("dhcp", "dhcp", d.address) EXCEPT
                        !.other = d.server, !.mac = d.mac, !.host = d.host,
                        !.prl = d.prl, !.class = d.class]
             asset == IF lease
                      THEN <<Asset("dhcp", d.address, d.mac, d.host)>>
                      ELSE <<>>
             server == IF lease /\ d.server # "none"
                       THEN <<Relationship("dhcp", d.address, d.server)>>
                       ELSE <<>>
  <1>1. CASE HandleDhcp(ob, m, t) = ob
    BY <1>1, GoesNowhere
  <1>2. CASE /\ d.parsed
             /\ HandleDhcp(ob, m, t) =
                  Tell(ob, <<"dhcp", d.mac, d.type>>, t,
                       <<said>> \o asset \o server)
    <2>1. d.mac # "none"
      BY <1>2 DEF ParseDhcp, NoParse
    <2> HIDE DEF d
    <2>2. Plain(said, c)
      BY <2>1 DEF Plain, Proper, Observation
    <2>3. AllPlain(asset, c)
      BY <2>1, PlainAsset, AllPlainNone
    <2>4. AllPlain(server, c)
      BY Parts, AllPlainSingle, AllPlainNone DEF Plain, Proper
    <2> HIDE DEF said, asset, server
    <2>5. AllPlain(<<said>> \o asset \o server, c)
      BY <2>2, <2>3, <2>4, AllPlainSingle, AllPlainJoined
    <2>6. QED BY <1>2, <2>5, TellGoes
  <1>3. QED BY <1>1, <1>2 DEF HandleDhcp

-----------------------------------------------------------------------------
(* mDNS tells its services one after the other: a fold.  That the function *)
(* it is defined by exists is shown by induction over the size of its      *)
(* arguments, what it keeps by descent to a smaller one.                   *)

Say(o, src, s, t) ==
  Tell(o, <<"mdns", src, s>>, t,
       <<[Observation("advertises", "mdns", src) EXCEPT !.to = s]>>)

MdnsFold(g, ob, src, services, t) ==
  g = [s \in SUBSET DOMAIN services |->
         IF s = {} THEN ob
         ELSE Say(g[s \ {Max(s)}], src, services[Max(s)], t)]

LEMMA MdnsUnfolds ==
  ASSUME NEW ob, NEW src, NEW m, NEW t,
         NEW f, MdnsFold(f, ob, src, m.services, t)
  PROVE  \E g :
           /\ MdnsFold(g, ob, src, m.services, t)
           /\ HandleMdns(ob, src, m, t) =
                IF ~ParseDns(m).parsed \/ ~m.response THEN ob
                ELSE LET told == g[DOMAIN m.services] IN
                     IF m.host = "none" THEN told
                     ELSE Tell(told, <<"mdns-host", src, m.host>>, t,
                               <<Asset("mdns", src, "none", m.host)>>)
  <1> DEFINE g == CHOOSE h : MdnsFold(h, ob, src, m.services, t)
  <1>1. MdnsFold(g, ob, src, m.services, t)
    OBVIOUS
  <1>2. FoldLeft(LAMBDA o, s :
                   Tell(o, <<"mdns", src, s>>, t,
                        <<[Observation("advertises", "mdns", src)
                             EXCEPT !.to = s]>>),
                 ob, m.services) = g[DOMAIN m.services]
    BY DEF FoldLeft, MapThenFoldSet, MdnsFold, Say
  <1>3. QED
    BY <1>1, <1>2 DEF HandleMdns

MdnsPart(f, n, ob, src, services, t) ==
  f = [s \in Upto(DOMAIN services, n) |->
         IF s = {} THEN ob
         ELSE Say(f[s \ {Max(s)}], src, services[Max(s)], t)]

LEMMA MdnsFoldExists ==
  ASSUME NEW ob, NEW src, NEW services, IsSequence(services), NEW t
  PROVE  \E f : MdnsFold(f, ob, src, services, t)
  <1> DEFINE D == DOMAIN services
             IsPart(f, n) == MdnsPart(f, n, ob, src, services, t)
             Good == {n \in Nat : \E f : IsPart(f, n)}
  <1>1. /\ D \subseteq Int /\ IsFiniteSet(D) /\ Cardinality(D) \in Nat
        /\ \A s \in SUBSET D :
             /\ IsFiniteSet(s)
             /\ Cardinality(s) \in Nat /\ Cardinality(s) <= Cardinality(D)
    <2>1. D = 1..Len(services) /\ Len(services) \in Nat
      BY DEF IsSequence
    <2>2. IsFiniteSet(D)
      BY <2>1, FS_Interval
    <2>3. \A s \in SUBSET D :
            IsFiniteSet(s) /\ Cardinality(s) <= Cardinality(D)
      BY <2>2, FS_Subset
    <2>4. QED BY <2>1, <2>2, <2>3, FS_CardinalityType
  <1>2. \A s \in SUBSET D : s # {} =>
          /\ Max(s) \in s
          /\ Cardinality(s \ {Max(s)}) = Cardinality(s) - 1
    BY <1>1, Extremes, FS_RemoveElement
  <1>3. 0 \in Good
    <2> DEFINE f == [s \in Upto(D, 0) |-> ob]
    <2>1. \A s \in Upto(D, 0) : s = {}
      BY <1>1, FS_EmptySet DEF Upto
    <2>2. IsPart(f, 0)
      BY <2>1 DEF MdnsPart
    <2>3. QED BY <2>2
  <1>4. ASSUME NEW n \in Nat, n \in Good
        PROVE  n + 1 \in Good
    <2>1. PICK f : IsPart(f, n)
      BY <1>4
    <2> DEFINE g == [s \in Upto(D, n + 1) |->
                       IF s = {} THEN ob
                       ELSE Say(f[s \ {Max(s)}], src, services[Max(s)], t)]
    <2>2. \A s \in Upto(D, n + 1) : s # {} => s \ {Max(s)} \in Upto(D, n)
      <3> HIDE DEF D, g, IsPart, Good
      <3> SUFFICES ASSUME NEW s \in Upto(D, n + 1), s # {}
                   PROVE  s \ {Max(s)} \in Upto(D, n)
        OBVIOUS
      <3>1. s \in SUBSET D /\ Cardinality(s) <= n + 1
        BY DEF Upto
      <3>2. /\ Cardinality(s) \in Nat
            /\ Cardinality(s \ {Max(s)}) = Cardinality(s) - 1
        BY <1>1, <1>2, <3>1
      <3>3. Cardinality(s \ {Max(s)}) <= n
        BY <3>1, <3>2
      <3>4. QED BY <3>1, <3>3 DEF Upto
    <2>3. Upto(D, n) \subseteq Upto(D, n + 1)
      <3> HIDE DEF D
      <3>1. QED BY <1>1 DEF Upto
    <2>4. \A s \in Upto(D, n) : g[s] = f[s]
      BY <2>1, <2>3 DEF MdnsPart
    <2>5. \A s \in Upto(D, n + 1) : s # {} =>
            g[s \ {Max(s)}] = f[s \ {Max(s)}]
      BY <2>2, <2>4
    <2>6. IsPart(g, n + 1)
      BY <2>5 DEF MdnsPart
    <2>7. QED BY <2>6
  <1>5. Cardinality(D) \in Good
    <2> HIDE DEF Good, D
    <2>1. \A k \in 0..(Cardinality(D) - 1) : k \in Good => k + 1 \in Good
      BY <1>1, <1>4
    <2>2. QED BY <1>1, <1>3, <2>1, Climb
  <1>6. PICK f : IsPart(f, Cardinality(D))
    BY <1>5
  <1>7. Upto(D, Cardinality(D)) = SUBSET D
    BY <1>1 DEF Upto
  <1>8. MdnsFold(f, ob, src, services, t)
    BY <1>6, <1>7 DEF MdnsFold, MdnsPart
  <1>9. QED BY <1>8

LEMMA SayGoes ==
  ASSUME NEW t \in Int, NEW ob, NEW c, Sound(ob, c, t),
         NEW src, src \notin c.excluded, NEW service
  PROVE  Goes(ob, Say(ob, src, service, t), c, t)
  <1> DEFINE o == [Observation("advertises", "mdns", src)
                     EXCEPT !.to = service]
  <1>1. Plain(o, c)
    BY DEF Plain, Proper, Observation
  <1>2. AllPlain(<<o>>, c)
    <2> HIDE DEF o
    <2>1. QED BY <1>1, AllPlainSingle
  <1>3. Say(ob, src, service, t) =
          Tell(ob, <<"mdns", src, service>>, t, <<o>>)
    BY DEF Say
  <1> HIDE DEF o
  <1>4. QED BY <1>2, <1>3, TellGoes

LEMMA MdnsFoldGoes ==
  ASSUME NEW t \in Int, NEW ob, NEW c, Sound(ob, c, t),
         NEW src, src \notin c.excluded,
         NEW services, IsSequence(services),
         NEW g, MdnsFold(g, ob, src, services, t)
  PROVE  Goes(ob, g[DOMAIN services], c, t)
  <1> DEFINE D == DOMAIN services
  <1>1. D \subseteq Int /\ IsFiniteSet(D)
    <2>1. D = 1..Len(services) /\ Len(services) \in Nat
      BY DEF IsSequence
    <2>2. QED BY <2>1, FS_Interval
  <1>2. PICK B : B = {s \in SUBSET D : ~Goes(ob, g[s], c, t)}
    OBVIOUS
  <1>3. SUFFICES ASSUME B # {} PROVE FALSE
    BY <1>2
  <1>4. \A s \in B : s \subseteq D
    BY <1>2
  <1>5. PICK s \in B : \A u \in B : u \subseteq s => u = s
    <2> HIDE DEF D
    <2>1. QED BY <1>1, <1>3, <1>4, Descent
  <1>6. s \in SUBSET D /\ ~Goes(ob, g[s], c, t)
    BY <1>2
  <1>7. s # {}
    <2>1. g[{}] = ob
      BY DEF MdnsFold
    <2>2. QED BY <1>6, <2>1, GoesNowhere
  <1>8. Max(s) \in s
    <2>1. IsFiniteSet(s) /\ s \subseteq Int
      BY <1>1, <1>6, FS_Subset
    <2>2. QED BY <1>7, <2>1, Extremes
  <1>9. PICK r : r = s \ {Max(s)}
    OBVIOUS
  <1>10. r \in SUBSET D /\ r \notin B
    BY <1>5, <1>6, <1>8, <1>9
  <1>11. Goes(ob, g[r], c, t)
    BY <1>2, <1>10
  <1>12. g[s] = Say(g[r], src, services[Max(s)], t)
    BY <1>6, <1>7, <1>9 DEF MdnsFold
  <1>13. Goes(g[r], g[s], c, t)
    BY <1>11, <1>12, SayGoes DEF Goes, Onward
  <1>14. Goes(ob, g[s], c, t)
    BY <1>11, <1>13, GoesOnward DEF Goes, Onward
  <1>15. QED BY <1>6, <1>14

LEMMA MdnsGoes ==
  ASSUME NEW t \in Int, NEW ob, NEW c, Sound(ob, c, t),
         NEW src, src \notin c.excluded, NEW m, IsSequence(m.services)
  PROVE  Goes(ob, HandleMdns(ob, src, m, t), c, t)
  <1>1. PICK f : MdnsFold(f, ob, src, m.services, t)
    BY MdnsFoldExists
  <1>2. PICK g :
           /\ MdnsFold(g, ob, src, m.services, t)
           /\ HandleMdns(ob, src, m, t) =
                IF ~ParseDns(m).parsed \/ ~m.response THEN ob
                ELSE LET told == g[DOMAIN m.services] IN
                     IF m.host = "none" THEN told
                     ELSE Tell(told, <<"mdns-host", src, m.host>>, t,
                               <<Asset("mdns", src, "none", m.host)>>)
    BY <1>1, MdnsUnfolds
  <1>3. PICK told : told = g[DOMAIN m.services]
    OBVIOUS
  <1>4. Goes(ob, told, c, t)
    BY <1>2, <1>3, MdnsFoldGoes
  <1>5. PICK new : new = Tell(told, <<"mdns-host", src, m.host>>, t,
                              <<Asset("mdns", src, "none", m.host)>>)
    OBVIOUS
  <1>6. Goes(told, new, c, t)
    BY <1>4, <1>5, PlainAsset, TellGoes DEF Goes, Onward
  <1>7. Goes(ob, new, c, t)
    BY <1>4, <1>6, GoesOnward DEF Goes, Onward
  <1>8. HandleMdns(ob, src, m, t) \in {ob, told, new}
    BY <1>2, <1>3, <1>5
  <1>9. QED BY <1>4, <1>7, <1>8, GoesNowhere

LEMMA SsdpGoes ==
  ASSUME NEW t \in Int, NEW ob, NEW c, Sound(ob, c, t),
         NEW src, src \notin c.excluded, NEW m
  PROVE  Goes(ob, HandleSsdp(ob, src, m, t), c, t)
  <1> DEFINE o == [Observation("advertises", "ssdp", src)
                     EXCEPT !.device = m.device, !.server = m.server]
             a == Asset("ssdp", src, "none", "none")
  <1>1. Plain(o, c)
    BY DEF Plain, Proper, Observation
  <1>2. Plain(a, c)
    BY Parts DEF Plain, Proper
  <1>3. AllPlain(<<a, o>>, c)
    <2> HIDE DEF a, o
    <2>1. <<a, o>> = <<a>> \o <<o>>
      OBVIOUS
    <2>2. QED BY <1>1, <1>2, <2>1, AllPlainSingle, AllPlainJoined
  <1>4. \/ HandleSsdp(ob, src, m, t) = ob
        \/ HandleSsdp(ob, src, m, t) =
             Tell(ob, <<"ssdp", src, m.device>>, t, <<a, o>>)
    BY DEF HandleSsdp
  <1> HIDE DEF a, o
  <1>5. QED BY <1>3, <1>4, TellGoes, GoesNowhere

LEMMA DnsGoes ==
  ASSUME NEW t \in Int, NEW ob, NEW c, Sound(ob, c, t), NEW ip,
         ip.src \notin c.excluded, ip.dst \notin c.excluded, NEW m
  PROVE  Goes(ob, HandleDns(ob, c, ip, m, t), c, t)
  <1> DEFINE d == ParseDns(m)
             client == IF d.response THEN ip.dst ELSE ip.src
             server == IF d.response THEN ip.src ELSE ip.dst
             key == <<"dns", client, <<d.name, d.response>>>>
             o == [Observation("dns", "dns", client) EXCEPT !.other = server]
             r == Relationship("dns", client, server)
             told == Tell(ob, key, t, <<o>>)
             new == Tell(told, <<"resolver", client, server>>, t, <<r>>)
  <1>1. HandleDns(ob, c, ip, m, t) \in {ob, told, new}
    BY DEF HandleDns
  <1>2. client \notin c.excluded /\ server \notin c.excluded
    OBVIOUS
  <1> HIDE DEF client, server, d
  <1>3. AllPlain(<<o>>, c)
    <2>1. Plain(o, c)
      BY <1>2 DEF Plain, Proper, Observation
    <2> HIDE DEF o
    <2>2. QED BY <2>1, AllPlainSingle
  <1>4. AllPlain(<<r>>, c)
    <2>1. Plain(r, c)
      BY <1>2, Parts DEF Plain, Proper
    <2> HIDE DEF r
    <2>2. QED BY <2>1, AllPlainSingle
  <1> HIDE DEF o, r, key
  <1>5. Goes(ob, told, c, t)
    BY <1>3, TellGoes
  <1>6. Goes(told, new, c, t)
    <2> HIDE DEF told
    <2>1. QED BY <1>4, <1>5, TellGoes DEF Goes, Onward
  <1> HIDE DEF told, new
  <1>7. Goes(ob, new, c, t)
    BY <1>5, <1>6, GoesOnward DEF Goes, Onward
  <1>8. QED BY <1>1, <1>5, <1>7, GoesNowhere

LEMMA TcpGoes ==
  ASSUME NEW t \in Int, NEW ob, NEW c, Sound(ob, c, t), NEW ip,
         ip.src \notin c.excluded, NEW tcp
  PROVE  Goes(ob, HandleTcp(ob, ip, tcp, t), c, t)
  <1>1. Plain(Observation("service", "tcp", ip.src), c)
    BY DEF Plain, Proper, Observation
  <1>2. AllPlain(<<Observation("service", "tcp", ip.src)>>, c)
    BY <1>1, AllPlainSingle
  <1>3. QED BY <1>2, TellGoes, GoesNowhere DEF HandleTcp

-----------------------------------------------------------------------------
(* Flow windows: a window is of two addresses that are not excluded, and   *)
(* what is put into it or handed out of it is counted once.                *)

LEMMA AllProperNone ==
  ASSUME NEW c
  PROVE  AllProper(<<>>, c)
  BY None DEF AllProper

LEMMA AllProperJoined ==
  ASSUME NEW s, NEW u, NEW c, AllProper(s, c), AllProper(u, c)
  PROVE  AllProper(s \o u, c)
  BY Joined DEF AllProper

LEMMA FlowKeys ==
  ASSUME NEW c, Ordered(Hosts(c)), NEW a \in Hosts(c), NEW b \in Hosts(c),
         NEW x \in Int, NEW y \in Int, NEW proto
  PROVE  LET k == Normalized(a, x, b, y, proto) IN
         /\ Key(k, c)
         /\ \/ k.client = <<a, x>> /\ k.server = <<b, y>>
            \/ k.client = <<b, y>> /\ k.server = <<a, x>>
  <1> DEFINE k == Normalized(a, x, b, y, proto)
  <1>1. Rank[a] \in Int /\ Rank[b] \in Int
    BY DEF Ordered
  <1>2. CASE x > y \/ (x = y /\ Rank[a] > Rank[b])
    <2>1. k = [client |-> <<a, x>>, server |-> <<b, y>>, proto |-> proto]
      BY <1>2 DEF Normalized
    <2>2. x > y \/ (x = y /\ Rank[a] >= Rank[b])
      BY <1>1, <1>2
    <2> HIDE DEF k
    <2>3. Key(k, c)
      BY <2>1, <2>2 DEF Key
    <2>4. QED BY <2>1, <2>3 DEF k
  <1>3. CASE ~(x > y \/ (x = y /\ Rank[a] > Rank[b]))
    <2>1. k = [client |-> <<b, y>>, server |-> <<a, x>>, proto |-> proto]
      BY <1>3 DEF Normalized
    <2>2. y > x \/ (y = x /\ Rank[b] >= Rank[a])
      BY <1>1, <1>3
    <2> HIDE DEF k
    <2>3. Key(k, c)
      BY <2>1, <2>2 DEF Key
    <2>4. QED BY <2>1, <2>3 DEF k
  <1>4. QED BY <1>2, <1>3

(* The two directions of a conversation have one key.                      *)
LEMMA OneConversation ==
  ASSUME NEW c, Ordered(Hosts(c)), NEW k, NEW m, Key(k, c), Key(m, c),
         Conversation(k) = Conversation(m)
  PROVE  k = m
  <1>1. PICK proto, a, b, x, y :
          /\ a \in Hosts(c) /\ b \in Hosts(c) /\ x \in Int /\ y \in Int
          /\ k = [client |-> <<a, x>>, server |-> <<b, y>>,
                  proto |-> proto]
          /\ x > y \/ (x = y /\ Rank[a] >= Rank[b])
    BY DEF Key
  <1>2. PICK other, d, e, u, v :
          /\ d \in Hosts(c) /\ e \in Hosts(c) /\ u \in Int /\ v \in Int
          /\ m = [client |-> <<d, u>>, server |-> <<e, v>>,
                  proto |-> other]
          /\ u > v \/ (u = v /\ Rank[d] >= Rank[e])
    BY DEF Key
  <1>3. proto = other /\ {<<a, x>>, <<b, y>>} = {<<d, u>>, <<e, v>>}
    BY <1>1, <1>2 DEF Conversation
  <1>4. CASE <<a, x>> = <<d, u>> /\ <<b, y>> = <<e, v>>
    BY <1>1, <1>2, <1>3, <1>4
  <1>5. CASE <<a, x>> = <<e, v>> /\ <<b, y>> = <<d, u>>
    <2>1. a = e /\ x = v /\ b = d /\ y = u
      BY <1>5
    <2>2. /\ x \in Int /\ y \in Int
          /\ x > y \/ (x = y /\ Rank[a] >= Rank[b])
          /\ y > x \/ (y = x /\ Rank[b] >= Rank[a])
      BY <1>1, <1>2, <2>1
    <2>3. Rank[a] \in Int /\ Rank[b] \in Int
      BY <1>1 DEF Ordered
    <2>4. x = y /\ Rank[a] = Rank[b]
      BY <2>2, <2>3
    <2>5. a = b
      BY <1>1, <2>4 DEF Ordered
    <2>6. QED BY <1>1, <1>2, <1>3, <2>1, <2>4, <2>5
  <1>6. \/ <<a, x>> = <<d, u>> /\ <<b, y>> = <<e, v>>
        \/ <<a, x>> = <<e, v>> /\ <<b, y>> = <<d, u>>
    <2>1. \A p, q, r, s : {p, q} = {r, s} =>
            (p = r /\ q = s) \/ (p = s /\ q = r)
      OBVIOUS
    <2>2. QED BY <1>3, <2>1
  <1>7. QED BY <1>4, <1>5, <1>6

(* A new flow is counted or skipped, a known one is counted.               *)
LEMMA ObserveFlowFacts ==
  ASSUME NEW ob, NEW c, Fields(ob), Windows(ob, c), ob.skipped \in Int,
         NEW key, NEW t, Key(key, c),
         key.client[1] \notin c.excluded, key.server[1] \notin c.excluded
  PROVE  LET new == ObserveFlow(ob, key, t) IN
         /\ Fields(new) /\ Windows(new, c)
         /\ new.told = ob.told /\ new.seen = ob.seen
         /\ new.cleared = ob.cleared /\ new.out = ob.out
         /\ new.passed = ob.passed /\ new.skipped \in Int
         /\ new.skipped + Load(new.flows)
              = (ob.skipped + Load(ob.flows)) + 1
  <1> DEFINE new == ObserveFlow(ob, key, t)
             f == ob.flows
  <1>1. Counted(f) /\ Load(f) \in Int
    BY WindowsCounted
  <1>2. CASE key \in DOMAIN f
    <2>1. PICK w, h : /\ w = [f[key] EXCEPT !.packets = f[key].packets + 1,
                                          !.last = t]
                      /\ h = [f EXCEPT ![key] = w]
      OBVIOUS
    <2>2. new = [ob EXCEPT !.flows = h]
      BY <1>2, <2>1 DEF ObserveFlow
    <2>3. /\ "packets" \in DOMAIN w /\ w.packets = f[key].packets + 1
          /\ w.packets \in Int
      BY <1>2, <2>1 DEF Windows
    <2> HIDE DEF new
    <2>4. /\ Fields(new) /\ new.flows = h
          /\ new.told = ob.told /\ new.seen = ob.seen
          /\ new.cleared = ob.cleared /\ new.out = ob.out
          /\ new.passed = ob.passed /\ new.skipped = ob.skipped
      BY <2>2 DEF Fields, Names
    <2>5. /\ DOMAIN h = DOMAIN f /\ h[key] = w
          /\ \A x \in DOMAIN f : x # key => h[x] = f[x]
      BY <1>2, <2>1
    <2>6. Windows(new, c)
      BY <2>3, <2>4, <2>5 DEF Windows
    <2>7. Load(h) = Load(f) + 1
      <3>1. DOMAIN h = DOMAIN f \cup {key}
        BY <1>2, <2>5
      <3>2. h[key].packets = IF key \in DOMAIN f THEN f[key].packets + 1
                             ELSE 1
        BY <1>2, <2>3, <2>5
      <3> HIDE DEF f
      <3>3. QED BY <1>1, <2>5, <3>1, <3>2, LoadOneMore
    <2>8. new.skipped + Load(new.flows) = (ob.skipped + Load(f)) + 1
      BY <1>1, <2>4, <2>7
    <2>9. QED BY <2>4, <2>6, <2>8 DEF new
  <1>3. CASE key \notin DOMAIN f /\ Cardinality(DOMAIN f) >= MaxFlows
    <2>1. new = [ob EXCEPT !.skipped = ob.skipped + 1]
      BY <1>3 DEF ObserveFlow
    <2> HIDE DEF new
    <2>2. /\ Fields(new) /\ new.flows = f
          /\ new.told = ob.told /\ new.seen = ob.seen
          /\ new.cleared = ob.cleared /\ new.out = ob.out
          /\ new.passed = ob.passed /\ new.skipped = ob.skipped + 1
      BY <2>1 DEF Fields, Names
    <2>3. Windows(new, c)
      BY <2>2 DEF Windows
    <2>4. new.skipped + Load(new.flows) = (ob.skipped + Load(f)) + 1
      BY <1>1, <2>2
    <2>5. QED BY <2>2, <2>3, <2>4 DEF new
  <1>4. CASE key \notin DOMAIN f /\ ~(Cardinality(DOMAIN f) >= MaxFlows)
    <2>1. PICK w, h : w = [packets |-> 1, last |-> t] /\ h = Insert(f, key, w)
      OBVIOUS
    <2>2. new = [ob EXCEPT !.flows = h]
      BY <1>4, <2>1 DEF ObserveFlow
    <2> HIDE DEF new
    <2>3. /\ Fields(new) /\ new.flows = h
          /\ new.told = ob.told /\ new.seen = ob.seen
          /\ new.cleared = ob.cleared /\ new.out = ob.out
          /\ new.passed = ob.passed /\ new.skipped = ob.skipped
      BY <2>2 DEF Fields, Names
    <2>4. /\ "packets" \in DOMAIN w /\ w.packets = 1
      BY <2>1
    <2>5. /\ DOMAIN h = DOMAIN f \cup {key} /\ h[key] = w
          /\ \A x \in DOMAIN f : x # key => h[x] = f[x]
      BY <2>1 DEF Insert
    <2>6. Windows(new, c)
      <3>1. AtMost(DOMAIN h, MaxFlows)
        <4>1. PICK D : D = DOMAIN f
          OBVIOUS
        <4>2. /\ IsFiniteSet(D) /\ MaxFlows \in Nat
              /\ ~(Cardinality(D) >= MaxFlows)
          BY <1>4, <4>1, ObserverAssumption DEF Windows, AtMost
        <4>3. AtMost(D \cup {key}, MaxFlows)
          BY <4>2, AtMostMore
        <4>4. QED BY <2>5, <4>1, <4>3
      <3>2. \A x \in DOMAIN f : x # key
        BY <1>4
      <3>3. QED BY <2>3, <2>4, <2>5, <3>1, <3>2 DEF Windows
    <2>7. Load(h) = Load(f) + 1
      <3>1. h[key].packets = IF key \in DOMAIN f THEN f[key].packets + 1
                             ELSE 1
        BY <1>4, <2>4, <2>5
      <3> HIDE DEF f
      <3>2. QED BY <1>1, <2>5, <3>1, LoadOneMore
    <2>8. new.skipped + Load(new.flows) = (ob.skipped + Load(f)) + 1
      BY <1>1, <2>3, <2>7
    <2>9. QED BY <2>3, <2>6, <2>8 DEF new
  <1>5. QED BY <1>2, <1>3, <1>4

LEMMA RecordFlowGoes ==
  ASSUME NEW t \in Int, NEW ob, NEW c, Sound(ob, c, t), Ordered(Hosts(c)),
         NEW src \in Hosts(c), NEW sport \in Int,
         NEW dst \in Hosts(c), NEW dport \in Int, NEW proto,
         src \notin c.excluded, dst \notin c.excluded
  PROVE  Goes(ob, RecordFlow(ob, c, src, sport, dst, dport, proto, t), c, t)
  <1> DEFINE key == Normalized(src, sport, dst, dport, proto)
             mid == ObserveFlow(ob, key, t)
             new == [mid EXCEPT !.passed = mid.passed + 1]
  <1>1. /\ Key(key, c)
        /\ key.client[1] \notin c.excluded
        /\ key.server[1] \notin c.excluded
    <2>1. /\ Key(key, c)
          /\ \/ key.client = <<src, sport>> /\ key.server = <<dst, dport>>
             \/ key.client = <<dst, dport>> /\ key.server = <<src, sport>>
      BY FlowKeys
    <2> HIDE DEF key
    <2>2. QED BY <2>1
  <1> HIDE DEF key
  <1>2. /\ Fields(mid) /\ Windows(mid, c)
        /\ mid.told = ob.told /\ mid.seen = ob.seen
        /\ mid.cleared = ob.cleared /\ mid.out = ob.out
        /\ mid.passed = ob.passed /\ mid.skipped \in Int
        /\ mid.skipped + Load(mid.flows)
             = (ob.skipped + Load(ob.flows)) + 1
    BY <1>1, ObserveFlowFacts DEF Sound, Loaded
  <1>3. RecordFlow(ob, c, src, sport, dst, dport, proto, t) \in {ob, new}
    BY DEF RecordFlow, key
  <1> HIDE DEF mid
  <1>4. /\ Fields(new) /\ new.flows = mid.flows
        /\ new.told = ob.told /\ new.seen = ob.seen
        /\ new.cleared = ob.cleared /\ new.out = ob.out
        /\ new.passed = ob.passed + 1 /\ new.skipped = mid.skipped
    BY <1>2 DEF Fields, Names
  <1> HIDE DEF new
  <1>5. Windows(new, c)
    BY <1>2, <1>4 DEF Windows
  <1>6. Paces(ob, new, t)
    BY <1>4, PacedSame DEF Sound
  <1>7. Sound(new, c, t)
    BY <1>2, <1>4, <1>5, <1>6 DEF Sound, Loaded, Paces
  <1>8. Gone(new) = Gone(ob)
    <2>1. /\ Load(ob.flows) \in Int /\ Load(mid.flows) \in Int
          /\ Load(ob.out) \in Int
          /\ ob.passed \in Int /\ ob.skipped \in Int
      BY <1>2, WindowsCounted, LoadType DEF Sound, Loaded
    <2>2. QED BY <1>2, <1>4, <2>1 DEF Gone
  <1>9. Goes(ob, new, c, t)
    BY <1>6, <1>7, <1>8 DEF Goes, Onward, Paces
  <1>10. QED BY <1>3, <1>9, GoesNowhere

(* A finite set in some order, each element once.                          *)
LEMMA SetToSeqIs ==
  ASSUME NEW S, IsFiniteSet(S)
  PROVE  \E n \in Nat :
           /\ n = Cardinality(S) /\ SetToSeq(S) \in [1..n -> S]
           /\ \A i, j \in 1..n : SetToSeq(S)[i] = SetToSeq(S)[j] => i = j
           /\ \A x \in S : \E i \in 1..n : SetToSeq(S)[i] = x
  <1>1. Cardinality(S) \in Nat /\ ExistsBijection(1..Cardinality(S), S)
    BY FS_CardinalityType
  <1>2. PICK n, A : n = Cardinality(S) /\ A = 1..n
    OBVIOUS
  <1>3. \E f \in [A -> S] : IsInjective(f)
    BY <1>1, <1>2 DEF ExistsBijection, Bijection, Injection, Surjection,
                      IsInjective
  <1>4. PICK f : f \in [A -> S] /\ IsInjective(f) /\ f = SetToSeq(S)
    BY <1>2, <1>3 DEF SetToSeq
  <1>5. \A i, j \in A : f[i] = f[j] => i = j
    BY <1>4 DEF IsInjective
  <1>6. IsFiniteSet(A) /\ Cardinality(A) = n
    <2>1. 1 \in Int /\ n \in Int /\ n \in Nat
      BY <1>1, <1>2
    <2>2. QED BY <1>2, <2>1, FS_Interval
  <1>7. f \in Injection(A, S)
    BY <1>4, <1>5 DEF Injection, IsInjective
  <1>8. f \in Surjection(A, S)
    <2>1. Cardinality(A) = Cardinality(S)
      BY <1>2, <1>6
    <2>2. f \in Surjection(A, S) <=> Cardinality(A) = Cardinality(S)
      BY <1>6, <1>7, FS_Injection
    <2>3. QED BY <2>1, <2>2
  <1>9. \A x \in S : \E i \in A : f[i] = x
    BY <1>8 DEF Surjection
  <1>10. QED BY <1>1, <1>2, <1>4, <1>5, <1>9

(* The windows of a table under some keys are told of, the rest is left.    *)
Parted(f, keys, said, rest) ==
  /\ Counted(f) /\ keys \subseteq DOMAIN f
  /\ DOMAIN said = DOMAIN SetToSeq(keys)
  /\ \A i \in DOMAIN said : said[i].packets = f[SetToSeq(keys)[i]].packets
  /\ DOMAIN rest = DOMAIN f \ keys
  /\ \A x \in DOMAIN rest : rest[x] = f[x]

(* Windows that are handed out are counted as before.                      *)
LEMMA LoadHandedOut ==
  ASSUME NEW f, NEW keys, NEW said, NEW rest, Parted(f, keys, said, rest)
  PROVE  /\ Counted(said) /\ Counted(rest)
         /\ Load(f) = Load(said) + Load(rest)
  <1>1. PICK F, R, order :
          /\ F = DOMAIN f /\ R = F \ keys /\ order = SetToSeq(keys)
          /\ Counted(f) /\ keys \subseteq F
          /\ DOMAIN said = DOMAIN order
          /\ \A i \in DOMAIN said : said[i].packets = f[order[i]].packets
          /\ DOMAIN rest = R /\ \A x \in R : rest[x] = f[x]
    BY DEF Parted
  <1>2. IsFiniteSet(F) /\ IsFiniteSet(keys) /\ IsFiniteSet(R)
    BY <1>1, FS_Subset DEF Counted
  <1>3. PICK n \in Nat :
          /\ order \in [1..n -> keys]
          /\ \A i, j \in 1..n : order[i] = order[j] => i = j
          /\ \A x \in keys : \E i \in 1..n : order[i] = x
    <2>1. \E n \in Nat :
            /\ n = Cardinality(keys) /\ SetToSeq(keys) \in [1..n -> keys]
            /\ \A i, j \in 1..n :
                 SetToSeq(keys)[i] = SetToSeq(keys)[j] => i = j
            /\ \A x \in keys : \E i \in 1..n : SetToSeq(keys)[i] = x
      BY <1>2, SetToSeqIs
    <2>2. QED BY <1>1, <2>1
  <1>4. PICK A : /\ A = 1..n /\ order \in [A -> keys]
                 /\ \A i, j \in A : order[i] = order[j] => i = j
                 /\ keys = {order[i] : i \in A}
    BY <1>3
  <1>5. IsFiniteSet(A)
    <2>1. 1 \in Int /\ n \in Int
      OBVIOUS
    <2>2. QED BY <1>4, <2>1, Intervals
  <1>6. PICK g, h, k : /\ g = PacketsIn(f) /\ h = PacketsIn(said)
                       /\ k = PacketsIn(rest)
    OBVIOUS
  <1>7. \A x \in F : g[x] = f[x].packets /\ g[x] \in Int
    BY <1>1, <1>6 DEF Counted, PacketsIn
  <1>8. /\ DOMAIN said = A
        /\ \A i \in A : h[i] = g[order[i]] /\ h[i] \in Int
                        /\ h[i] = said[i].packets
    <2>1. DOMAIN order = A /\ \A i \in A : order[i] \in F
      BY <1>1, <1>4
    <2>2. \A i \in A : h[i] = said[i].packets
      BY <1>1, <1>6, <2>1 DEF PacketsIn
    <2>3. QED BY <1>1, <1>7, <2>1, <2>2
  <1>9. Sum(g, keys) = Sum(h, A)
    <2>1. \A i, j \in A : order[i] = order[j] => i = j
      BY <1>4
    <2>2. \A i \in A : h[i] = g[order[i]] /\ h[i] \in Int
      BY <1>8
    <2>3. Sum(g, {order[i] : i \in A}) = Sum(h, A)
      BY <1>5, <2>1, <2>2, SumMap
    <2>4. QED BY <1>4, <2>3
  <1>10. \A x \in R : k[x] = g[x] /\ k[x] = rest[x].packets
    BY <1>1, <1>6, <1>7 DEF PacketsIn
  <1>11. Sum(k, R) = Sum(g, R)
    BY <1>2, <1>10, SumSame
  <1>12. Sum(g, keys \cup R) = Sum(g, keys) + Sum(g, R)
    <2>1. keys \cap R = {} /\ \A x \in keys \cup R : g[x] \in Int
      BY <1>1, <1>7
    <2>2. QED BY <1>2, <2>1, SumUnion
  <1>13. keys \cup R = F
    BY <1>1
  <1>14. Load(f) = Load(said) + Load(rest)
    BY <1>1, <1>6, <1>8, <1>9, <1>11, <1>12, <1>13 DEF Load
  <1>15. Counted(said) /\ Counted(rest)
    BY <1>1, <1>2, <1>5, <1>7, <1>8, <1>10 DEF Counted
  <1>16. QED BY <1>14, <1>15

LEMMA HandOutGoes ==
  ASSUME NEW t \in Int, NEW ob, NEW c, Sound(ob, c, t),
         NEW keys \in SUBSET DOMAIN ob.flows
  PROVE  /\ Goes(ob, HandOut(ob, keys), c, t)
         /\ DOMAIN HandOut(ob, keys).flows = DOMAIN ob.flows \ keys
         /\ keys = {} => HandOut(ob, keys).out = ob.out
  <1> DEFINE order == SetToSeq(keys)
             said == [n \in DOMAIN order |-> FlowObservation(ob, order[n])]
             new == HandOut(ob, keys)
  <1>1. IsFiniteSet(keys)
    BY FS_Subset DEF Sound, Windows, AtMost
  <1>2. PICK m \in Nat : m = Cardinality(keys) /\ order \in [1..m -> keys]
    BY <1>1, SetToSeqIs
  <1> HIDE DEF order
  <1>3. \A k \in keys :
          /\ Proper(FlowObservation(ob, k), c)
          /\ FlowObservation(ob, k).packets = ob.flows[k].packets
    <2> SUFFICES ASSUME NEW k \in keys
                 PROVE  /\ Proper(FlowObservation(ob, k), c)
                        /\ FlowObservation(ob, k).packets
                             = ob.flows[k].packets
      OBVIOUS
    <2>1. /\ k.client[1] \notin c.excluded /\ k.server[1] \notin c.excluded
      BY DEF Sound, Windows
    <2>2. /\ FlowObservation(ob, k).by = "flow"
          /\ FlowObservation(ob, k).ip = k.client[1]
          /\ FlowObservation(ob, k).other = k.server[1]
          /\ FlowObservation(ob, k).packets = ob.flows[k].packets
      BY DEF FlowObservation, Observation
    <2>3. QED BY <2>1, <2>2 DEF Proper
  <1>4. PICK P : P = {FlowObservation(ob, k) : k \in keys}
    OBVIOUS
  <1>5. said \in Seq(P) /\ (keys = {} => said = <<>>)
    <2>1. DOMAIN order = 1..m
      BY <1>2
    <2>2. said \in [1..m -> P]
      BY <1>2, <1>4, <2>1
    <2>3. said \in Seq(P)
      BY <1>2, <2>2, SeqDef
    <2>4. ASSUME keys = {} PROVE said = <<>>
      <3>1. m = 0
        BY <1>2, <2>4, FS_EmptySet
      <3>2. Len(said) = 0
        BY <2>2, <2>3, <3>1
      <3>3. QED BY <2>3, <3>2
    <2>5. QED BY <2>3, <2>4
  <1>6. AllProper(said, c)
    <2>1. IsSequence(said) /\ Range(said) \subseteq P
      BY <1>5, SequenceOf
    <2>2. \A o \in P : Proper(o, c)
      BY <1>3, <1>4
    <2>3. QED BY <2>1, <2>2 DEF AllProper
  <1>7. /\ DOMAIN said = DOMAIN order
        /\ \A i \in DOMAIN order :
             said[i].packets = ob.flows[order[i]].packets
    BY <1>2, <1>3
  <1>8. new = [ob EXCEPT
                 !.out = ob.out \o said,
                 !.flows = Restrict(ob.flows, DOMAIN ob.flows \ keys)]
    BY DEF HandOut, order
  <1> HIDE DEF said, new
  <1>9. /\ Fields(new) /\ new.out = ob.out \o said
        /\ new.told = ob.told /\ new.seen = ob.seen
        /\ new.cleared = ob.cleared
        /\ new.passed = ob.passed /\ new.skipped = ob.skipped
        /\ DOMAIN new.flows = DOMAIN ob.flows \ keys
        /\ \A x \in DOMAIN new.flows : new.flows[x] = ob.flows[x]
    BY <1>8 DEF Fields, Names, Sound, Restrict
  <1>10. AllProper(new.out, c)
    BY <1>6, <1>9, AllProperJoined DEF Sound
  <1>11. Windows(new, c)
    <2>1. AtMost(DOMAIN new.flows, MaxFlows)
      <3>1. MaxFlows \in Nat /\ DOMAIN new.flows \subseteq DOMAIN ob.flows
        BY <1>9, ObserverAssumption
      <3>2. QED BY <3>1, AtMostLess DEF Sound, Windows
    <2>2. QED BY <1>9, <2>1 DEF Sound, Windows
  <1>12. Paces(ob, new, t)
    BY <1>9, PacedSame DEF Sound
  <1>13. /\ Counted(said)
         /\ Load(ob.flows) = Load(said) + Load(new.flows)
    <2>1. PICK f, rest : f = ob.flows /\ rest = new.flows
      OBVIOUS
    <2>2. Counted(f) /\ keys \subseteq DOMAIN f
      BY <2>1, WindowsCounted DEF Sound
    <2>3. \A i \in DOMAIN order : said[i].packets = f[order[i]].packets
      BY <1>7, <2>1
    <2>4. /\ DOMAIN rest = DOMAIN f \ keys
          /\ \A x \in DOMAIN rest : rest[x] = f[x]
      BY <1>9, <2>1
    <2>5. Parted(f, keys, said, rest)
      BY <1>7, <2>2, <2>3, <2>4 DEF Parted, order
    <2>6. Counted(said) /\ Load(f) = Load(said) + Load(rest)
      BY <2>5, LoadHandedOut
    <2>7. QED BY <2>1, <2>6
  <1>14. Counted(new.out) /\ Load(new.out) = Load(ob.out) + Load(said)
    <2>1. IsSequence(ob.out) /\ IsSequence(said) /\ Counted(ob.out)
      BY <1>6 DEF AllProper, Sound, Loaded
    <2>2. QED BY <1>9, <1>13, <2>1, LoadJoined
  <1>15. Gone(new) = Gone(ob)
    <2>1. /\ Load(ob.out) \in Int /\ Load(said) \in Int
          /\ Load(new.flows) \in Int
          /\ ob.passed \in Int /\ ob.skipped \in Int
      BY <1>11, <1>13, WindowsCounted, LoadType DEF Sound, Loaded
    <2>2. Load(new.out) + Load(new.flows) = Load(ob.out) + Load(ob.flows)
      BY <1>13, <1>14, <2>1
    <2>3. QED BY <1>9, <2>2 DEF Gone
  <1>16. Sound(new, c, t)
    BY <1>9, <1>10, <1>11, <1>12, <1>14 DEF Sound, Loaded, Paces
  <1>17. Goes(ob, new, c, t)
    BY <1>12, <1>15, <1>16 DEF Goes, Onward, Paces
  <1>18. keys = {} => new.out = ob.out
    <2> SUFFICES ASSUME keys = {} PROVE new.out = ob.out
      OBVIOUS
    <2>1. PICK s, U : s = ob.out /\ U = Range(ob.out)
      OBVIOUS
    <2>2. s \in Seq(U)
      BY <2>1 DEF Sound, AllProper, IsSequence
    <2>3. s \o <<>> = s
      BY <2>2
    <2>4. QED BY <1>5, <1>9, <2>1, <2>3
  <1>19. QED BY <1>9, <1>17, <1>18 DEF new

LEMMA ForgetGoes ==
  ASSUME NEW t \in Int, NEW ob, NEW c, Sound(ob, c, t)
  PROVE  /\ Goes(ob, Forget(ob, t), c, t)
         /\ Forget(ob, t).flows = ob.flows /\ Forget(ob, t).out = ob.out
  <1> DEFINE new == Forget(ob, t)
             kept == {k \in DOMAIN ob.seen : t - ob.seen[k] < SuppressFor}
  <1>1. new = [ob EXCEPT !.seen = Restrict(ob.seen, kept)]
    BY DEF Forget
  <1> HIDE DEF new, kept
  <1>2. /\ Fields(new) /\ new.out = ob.out /\ new.flows = ob.flows
        /\ new.told = ob.told /\ new.cleared = ob.cleared
        /\ new.passed = ob.passed /\ new.skipped = ob.skipped
        /\ new.seen = Restrict(ob.seen, kept)
    BY <1>1 DEF Fields, Names, Sound
  <1>3. /\ DOMAIN new.seen = kept
        /\ \A k \in kept : new.seen[k] = ob.seen[k]
    BY <1>2 DEF Restrict
  <1>4. SuppressFor \in Nat
    BY ObserverAssumption
  <1>5. \A k \in DOMAIN ob.seen : k \notin kept =>
          t - ob.told[k] >= SuppressFor
    <2>1. \A k \in DOMAIN ob.seen :
            ob.seen[k] = ob.told[k] /\ ob.told[k] \in Int
      BY DEF Sound, Claims, Times
    <2>2. QED BY <1>4, <2>1 DEF kept
  <1>6. kept \subseteq DOMAIN ob.seen
    BY DEF kept
  <1>7. AtMost(DOMAIN new.seen, MaxSuppressed)
    <2>1. MaxSuppressed \in Nat
      BY ObserverAssumption
    <2>2. QED BY <1>3, <1>6, <2>1, AtMostLess DEF Sound, Claims
  <1>8. Claims(new, t)
    BY <1>2, <1>3, <1>5, <1>6, <1>7 DEF Sound, Claims
  <1>9. Paced(ob, new, t)
    BY <1>2 DEF Sound, Claims, Paced, Times
  <1>10. Goes(ob, new, c, t)
    BY <1>2, <1>8, <1>9 DEF Goes, Onward, Sound, Windows, Loaded, Gone
  <1>11. QED BY <1>2, <1>10 DEF new

LEMMA ExpireGoes ==
  ASSUME NEW t \in Int, NEW ob, NEW c, Sound(ob, c, t)
  PROVE  /\ Goes(ob, Expire(ob, t), c, t)
         /\ DOMAIN Expire(ob, t).flows \subseteq DOMAIN ob.flows
         /\ DOMAIN ob.flows = {} => Expire(ob, t).out = ob.out
  <1>1. PICK mid : mid = Forget(ob, t)
    OBVIOUS
  <1>2. PICK keys : keys = {k \in DOMAIN ob.flows :
                              t - ob.flows[k].last >= Window}
    OBVIOUS
  <1>3. Goes(ob, mid, c, t) /\ mid.flows = ob.flows /\ mid.out = ob.out
    BY <1>1, ForgetGoes
  <1>4. keys \in SUBSET DOMAIN mid.flows
    BY <1>2, <1>3
  <1>5. /\ Goes(mid, HandOut(mid, keys), c, t)
        /\ DOMAIN HandOut(mid, keys).flows = DOMAIN mid.flows \ keys
        /\ keys = {} => HandOut(mid, keys).out = mid.out
    BY <1>3, <1>4, HandOutGoes DEF Goes, Onward
  <1>6. Expire(ob, t) = HandOut(mid, keys)
    BY <1>1, <1>2 DEF Expire
  <1>7. Goes(ob, Expire(ob, t), c, t)
    BY <1>3, <1>5, <1>6, GoesOnward DEF Goes, Onward
  <1>8. DOMAIN ob.flows = {} => keys = {}
    BY <1>2
  <1>9. QED BY <1>3, <1>5, <1>6, <1>7, <1>8

LEMMA DrainGoes ==
  ASSUME NEW t \in Int, NEW ob, NEW c, Sound(ob, c, t)
  PROVE  Goes(ob, Drain(ob), c, t) /\ DOMAIN Drain(ob).flows = {}
  <1>1. DOMAIN ob.flows \in SUBSET DOMAIN ob.flows
    OBVIOUS
  <1>2. QED BY <1>1, HandOutGoes DEF Drain

(* What is sent, or dropped, leaves the outbox.                            *)
LEMMA SentGoes ==
  ASSUME NEW t \in Int, NEW ob, NEW c, Sound(ob, c, t),
         NEW rest, rest = <<>> \/ (ob.out # <<>> /\ rest = Tail(ob.out))
  PROVE  Onward(ob, [ob EXCEPT !.out = rest], c, t)
  <1>1. AllProper(rest, c) /\ Counted(rest)
    <2>1. CASE rest = <<>>
      <3>1. DOMAIN rest = {}
        BY <2>1
      <3>2. QED BY <2>1, <3>1, AllProperNone, LoadNone
    <2>2. CASE ob.out # <<>> /\ rest = Tail(ob.out)
      <3>1. ob.out \in Seq(Range(ob.out))
        BY DEF Sound, AllProper, IsSequence
      <3>2. PICK s, U : s = ob.out /\ U = Range(ob.out)
        OBVIOUS
      <3>3. s \in Seq(U) /\ s # <<>> /\ rest = Tail(s)
        BY <2>2, <3>1, <3>2
      <3>4. rest \in Seq(U)
        BY <3>3
      <3>5. IsSequence(rest) /\ Range(rest) \subseteq Range(ob.out)
        BY <3>2, <3>4, SequenceOf
      <3>6. IsSequence(s) /\ Counted(s)
        BY <3>2 DEF Sound, AllProper, Loaded
      <3>7. Counted(rest)
        BY <3>3, <3>6, LoadTail
      <3>8. QED BY <3>5, <3>7 DEF Sound, AllProper
    <2>3. QED BY <2>1, <2>2
  <1>2. PICK new : new = [ob EXCEPT !.out = rest]
    OBVIOUS
  <1>3. /\ Fields(new) /\ new.out = rest /\ new.flows = ob.flows
        /\ new.told = ob.told /\ new.seen = ob.seen
        /\ new.cleared = ob.cleared
        /\ new.passed = ob.passed /\ new.skipped = ob.skipped
    BY <1>2 DEF Fields, Names, Sound
  <1>4. Paces(ob, new, t)
    BY <1>3, PacedSame DEF Sound
  <1>5. Onward(ob, new, c, t)
    BY <1>1, <1>3, <1>4 DEF Onward, Sound, Windows, Loaded, Paces
  <1>6. QED BY <1>2, <1>5

-----------------------------------------------------------------------------
(* A frame: whatever it carries, the observer goes on from it. *)

LEMMA UdpGoes ==
  ASSUME NEW t \in Int, NEW ob, NEW c, Sound(ob, c, t), NEW ip,
         ip.src \notin c.excluded, ip.dst \notin c.excluded, NEW u, NEW m,
         5353 \in {u.sport, u.dport} => IsSequence(m.services),
         {67, 68} \cap {u.sport, u.dport} # {} => m.mac # "none"
  PROVE  Goes(ob, HandleUdp(ob, c, ip, u, m, t), c, t)
  <1>1. CASE HandleUdp(ob, c, ip, u, m, t) = ob
    BY <1>1, GoesNowhere
  <1>2. CASE /\ {67, 68} \cap {u.sport, u.dport} # {}
             /\ HandleUdp(ob, c, ip, u, m, t) = HandleDhcp(ob, m, t)
    BY <1>2, DhcpGoes
  <1>3. CASE /\ 5353 \in {u.sport, u.dport}
             /\ HandleUdp(ob, c, ip, u, m, t) = HandleMdns(ob, ip.src, m, t)
    BY <1>3, MdnsGoes
  <1>4. CASE HandleUdp(ob, c, ip, u, m, t) = HandleSsdp(ob, ip.src, m, t)
    BY <1>4, SsdpGoes
  <1>5. CASE HandleUdp(ob, c, ip, u, m, t) = HandleDns(ob, c, ip, m, t)
    BY <1>5, DnsGoes
  <1>6. QED BY <1>1, <1>2, <1>3, <1>4, <1>5 DEF HandleUdp

LEMMA IpGoes ==
  ASSUME NEW t \in Int, NEW ob, NEW c, Sound(ob, c, t), Ordered(Hosts(c)),
         NEW ip, NEW p, NEW mac,
         ip.src \in Hosts(c), ip.dst \in Hosts(c),
         ip.proto \in {"udp", "tcp"} =>
           p.body.sport \in Int /\ p.body.dport \in Int,
         ip.proto = "udp" /\ 5353 \in {p.body.sport, p.body.dport}
           => IsSequence(p.body.services),
         ip.proto = "udp" /\ {67, 68} \cap {p.body.sport, p.body.dport} # {}
           => p.body.mac # "none"
  PROVE  Goes(ob, HandleIp(ob, c, ip, p, mac, t), c, t)
  <1> DEFINE u == ParseUdp(ip, p.body)
             s == ParseTcp(ip, p.body)
             flow(o, x, y, proto) ==
               RecordFlow(o, c, ip.src, x, ip.dst, y, proto, t)
             new == HandleIp(ob, c, ip, p, mac, t)
  <1>1. CASE new = ob
    BY <1>1, GoesNowhere
  <1>2. ASSUME ~ExcludedEnd(c, ip)
        PROVE  ip.src \notin c.excluded /\ ip.dst \notin c.excluded
    BY <1>2 DEF ExcludedEnd
  <1>3. ASSUME ~ExcludedEnd(c, ip), NEW o, Goes(ob, o, c, t),
               NEW x \in Int, NEW y \in Int, NEW proto
        PROVE  Goes(ob, flow(o, x, y, proto), c, t)
    <2>1. Sound(o, c, t)
      BY <1>3 DEF Goes, Onward
    <2>2. PICK a, b : a = ip.src /\ b = ip.dst
      OBVIOUS
    <2>3. /\ a \in Hosts(c) /\ b \in Hosts(c)
          /\ a \notin c.excluded /\ b \notin c.excluded
      BY <1>2, <1>3, <2>2
    <2>4. Goes(o, RecordFlow(o, c, a, x, b, y, proto, t), c, t)
      BY <2>1, <2>3, RecordFlowGoes
    <2>5. QED BY <1>3, <2>2, <2>4, GoesOnward
  <1>4. CASE /\ ~ExcludedEnd(c, ip) /\ ip.proto = "udp" /\ u.parsed
             /\ new = flow(HandleUdp(ob, c, ip, u, p.body, t),
                           u.sport, u.dport, "udp")
    <2>1. u.sport = p.body.sport /\ u.dport = p.body.dport
      BY <1>4 DEF ParseUdp, NoParse
    <2>2. Goes(ob, HandleUdp(ob, c, ip, u, p.body, t), c, t)
      BY <1>2, <1>4, <2>1, UdpGoes
    <2>3. u.sport \in Int /\ u.dport \in Int
      BY <1>4, <2>1
    <2>4. QED BY <1>3, <1>4, <2>2, <2>3
  <1>5. CASE /\ ~ExcludedEnd(c, ip) /\ ip.proto = "tcp" /\ s.parsed
             /\ new = flow(HandleTcp(ob, ip, s, t), s.sport, s.dport, "tcp")
    <2>1. Goes(ob, HandleTcp(ob, ip, s, t), c, t)
      BY <1>2, <1>5, TcpGoes
    <2>2. s.sport = p.body.sport /\ s.dport = p.body.dport
      BY <1>5 DEF ParseTcp, NoParse
    <2>3. s.sport \in Int /\ s.dport \in Int
      BY <1>5, <2>2
    <2>4. QED BY <1>3, <1>5, <2>1, <2>3
  <1>6. CASE /\ ~ExcludedEnd(c, ip)
             /\ new = flow(HandleIcmpv6(ob, c, ip, p.body, mac, t),
                           0, 0, "icmp")
    <2>1. Goes(ob, HandleIcmpv6(ob, c, ip, p.body, mac, t), c, t)
      BY Icmpv6Goes
    <2>2. QED BY <1>3, <1>6, <2>1
  <1>7. CASE ~ExcludedEnd(c, ip) /\ new = flow(ob, 0, 0, "icmp")
    BY <1>3, <1>7, GoesNowhere
  <1>8. \/ new = ob
        \/ /\ ~ExcludedEnd(c, ip) /\ ip.proto = "udp" /\ u.parsed
           /\ new = flow(HandleUdp(ob, c, ip, u, p.body, t),
                         u.sport, u.dport, "udp")
        \/ /\ ~ExcludedEnd(c, ip) /\ ip.proto = "tcp" /\ s.parsed
           /\ new = flow(HandleTcp(ob, ip, s, t), s.sport, s.dport, "tcp")
        \/ /\ ~ExcludedEnd(c, ip)
           /\ new = flow(HandleIcmpv6(ob, c, ip, p.body, mac, t),
                         0, 0, "icmp")
        \/ ~ExcludedEnd(c, ip) /\ new = flow(ob, 0, 0, "icmp")
    BY DEF HandleIp
  <1>9. QED BY <1>1, <1>4, <1>5, <1>6, <1>7, <1>8

LEMMA FrameGoes ==
  ASSUME NEW t \in Int, NEW ob, NEW c, Sound(ob, c, t), Ordered(Hosts(c)),
         NEW f \in c.frames, WellFormed(f)
  PROVE  Goes(ob, HandleFrame(ob, c, f, t), c, t)
  <1> DEFINE e == ParseEthernet(f)
             new == HandleFrame(ob, c, f, t)
  <1>1. CASE new = ob
    BY <1>1, GoesNowhere
  <1>2. CASE new = HandleArp(ob, c, f.arp, t)
    BY <1>2, ArpGoes
  <1>3. CASE \E ip : /\ e.parsed /\ e.type \in {"ipv4", "ipv6"}
                     /\ ip \in {ParseIpv4(f.ip), ParseIpv6(f.ip)}
                     /\ ip.parsed
                     /\ new = HandleIp(ob, c, ip, f.ip, e.mac, t)
    <2>1. PICK ip : /\ e.parsed /\ e.type \in {"ipv4", "ipv6"}
                    /\ ip \in {ParseIpv4(f.ip), ParseIpv6(f.ip)}
                    /\ ip.parsed
                    /\ new = HandleIp(ob, c, ip, f.ip, e.mac, t)
      BY <1>3
    <2>2. f.type = e.type
      BY <2>1 DEF ParseEthernet, NoParse
    <2>3. /\ ip.proto = f.ip.proto
          /\ ip.src = f.ip.src /\ ip.dst = f.ip.dst
      <3>1. CASE ip = ParseIpv4(f.ip)
        BY <2>1, <3>1 DEF ParseIpv4, NoParse
      <3>2. CASE ip = ParseIpv6(f.ip)
        BY <2>1, <3>2 DEF ParseIpv6, NoParse
      <3>3. QED BY <2>1, <3>1, <3>2
    <2> HIDE DEF e
    <2>4. ip.src \in Hosts(c) /\ ip.dst \in Hosts(c)
      BY <2>1, <2>2, <2>3 DEF Hosts, Ends
    <2>5. /\ ip.proto \in {"udp", "tcp"} =>
               f.ip.body.sport \in Int /\ f.ip.body.dport \in Int
          /\ ip.proto = "udp" /\ 5353 \in {f.ip.body.sport, f.ip.body.dport}
               => IsSequence(f.ip.body.services)
          /\ ip.proto = "udp"
             /\ {67, 68} \cap {f.ip.body.sport, f.ip.body.dport} # {}
               => f.ip.body.mac # "none"
      BY <2>1, <2>2, <2>3 DEF WellFormed, IsSequence
    <2>6. Goes(ob, HandleIp(ob, c, ip, f.ip, e.mac, t), c, t)
      BY <2>4, <2>5, IpGoes
    <2>7. QED BY <2>1, <2>6
  <1>4. QED BY <1>1, <1>2, <1>3 DEF HandleFrame

-----------------------------------------------------------------------------
(* Fingerprints: what an evaluation comes to is a number.                  *)

LEMMA ImageFinite ==
  \A S, f : IsFiniteSet(S) => IsFiniteSet({f[x] : x \in S})
  <1> SUFFICES ASSUME NEW S, NEW f, IsFiniteSet(S)
               PROVE  IsFiniteSet({f[x] : x \in S})
    OBVIOUS
  <1>1. PICK T : T = {f[x] : x \in S}
    OBVIOUS
  <1>2. PICK g : g = [x \in S |-> f[x]]
    OBVIOUS
  <1>3. g \in Surjection(S, T)
    BY <1>1, <1>2 DEF Surjection
  <1>4. QED BY <1>1, <1>3, FS_Surjection

Weights(votes) == [x \in votes |-> x.weight]

WeightFold(h, S) ==
  h = [s \in SUBSET S |->
         IF s = {} THEN 0 ELSE h[s \ {Some(s)}] + Some(s).weight]

LEMMA TotalIs ==
  ASSUME NEW votes, IsFiniteSet(votes), NEW v
  PROVE  Total(votes, v) =
           Sum(Weights(votes), {x \in votes : x.value = v})
  <1> DEFINE S == {x \in votes : x.value = v}
             g == Weights(votes)
  <1>1. IsFiniteSet(S)
    BY FS_Subset
  <1>2. \A h : WeightFold(h, S) <=> SumFold(h, g, S)
    <2> SUFFICES ASSUME NEW h
                 PROVE  WeightFold(h, S) <=> SumFold(h, g, S)
      OBVIOUS
    <2>1. \A s \in SUBSET S : s # {} => g[Some(s)] = Some(s).weight
      BY DEF Some, Weights
    <2> HIDE DEF S, g
    <2>2. [s \in SUBSET S |->
             IF s = {} THEN 0 ELSE h[s \ {Some(s)}] + g[Some(s)]]
          = [s \in SUBSET S |->
               IF s = {} THEN 0 ELSE h[s \ {Some(s)}] + Some(s).weight]
      BY <2>1
    <2>3. QED BY <2>2 DEF WeightFold, SumFold
  <1>3. \E h : WeightFold(h, S)
    BY <1>1, <1>2, SumExists
  <1> DEFINE h == CHOOSE f : WeightFold(f, S)
  <1>4. Total(votes, v) = h[S]
    BY DEF Total, FoldSet, MapThenFoldSet, WeightFold, Some
  <1>5. WeightFold(h, S)
    BY <1>3
  <1> HIDE DEF h, g, S
  <1>6. h[S] = Sum(g, S)
    BY <1>1, <1>2, <1>5, SumIs
  <1>7. QED BY <1>4, <1>6 DEF S, g

Weighed(votes) ==
  IsFiniteSet(votes) /\ \A x \in votes : x.weight \in Int

LEMMA TotalType ==
  ASSUME NEW votes, Weighed(votes)
  PROVE  \A v : Total(votes, v) \in Int
  <1> SUFFICES ASSUME NEW v PROVE Total(votes, v) \in Int
    OBVIOUS
  <1>1. PICK g, S : g = Weights(votes) /\ S = {x \in votes : x.value = v}
    OBVIOUS
  <1>2. IsFiniteSet(votes) /\ S \in SUBSET votes
    BY <1>1 DEF Weighed
  <1>3. \A x \in votes : g[x] \in Int
    BY <1>1 DEF Weighed, Weights
  <1>4. Sum(g, S) \in Int
    BY <1>2, <1>3, SumType
  <1>5. QED BY <1>1, <1>2, <1>4, TotalIs

LEMMA MaxType ==
  \A S : S \subseteq Int /\ IsFiniteSet(S) /\ S # {} =>
           Max(S) \in Int /\ Min(S) \in Int
  BY Extremes

LEMMA PairType ==
  \A a, b \in Int : Max({a, b}) \in Int /\ Min({a, b}) \in Int
  <1> SUFFICES ASSUME NEW a \in Int, NEW b \in Int
               PROVE  Max({a, b}) \in Int /\ Min({a, b}) \in Int
    OBVIOUS
  <1>1. IsFiniteSet({a} \cup {b})
    BY FS_Singleton, FS_AddElement
  <1>2. {a} \cup {b} = {a, b}
    OBVIOUS
  <1>3. QED BY <1>1, <1>2, MaxType

LEMMA ResolveType ==
  ASSUME NEW votes, Weighed(votes)
  PROVE  Resolve(votes).confidence \in Int
  <1> DEFINE values == {x.value : x \in votes}
             top == {v \in values :
                       \A w \in values : Total(votes, w) <= Total(votes, v)}
             winner == CHOOSE v \in top : \A w \in top : Rank[w] <= Rank[v]
             base == Best(votes, winner)
             support == Min({Total(votes, winner) - base, 60})
             runnerUp ==
               Max({0} \cup {Total(votes, v) : v \in values \ {winner}})
  <1>1. \A v : Total(votes, v) \in Int
    BY TotalType
  <1>2. IsFiniteSet(values)
    <2>1. PICK f : f = [x \in votes |-> x.value]
      OBVIOUS
    <2>2. IsFiniteSet({f[x] : x \in votes})
      BY ImageFinite DEF Weighed
    <2>3. {f[x] : x \in votes} = values
      BY <2>1
    <2>4. QED BY <2>2, <2>3
  <1> HIDE DEF winner, values
  <1>3. base \in Int
    <2>1. PICK S : S = {y \in votes : y.value = winner}
      OBVIOUS
    <2>2. PICK f : f = [x \in votes |-> x.weight]
      OBVIOUS
    <2>3. S \subseteq votes /\ IsFiniteSet(S)
      BY <2>1, FS_Subset DEF Weighed
    <2>4. PICK W : W = {0} \cup {f[x] : x \in S}
      OBVIOUS
    <2>5. IsFiniteSet({f[x] : x \in S})
      BY <2>3, ImageFinite
    <2>6. IsFiniteSet(W) /\ W # {}
      BY <2>4, <2>5, FS_AddElement
    <2>7. W \subseteq Int
      BY <2>2, <2>3, <2>4 DEF Weighed
    <2>8. Max(W) \in Int
      BY <2>6, <2>7, MaxType
    <2>9. W = {0} \cup {x.weight : x \in {y \in votes : y.value = winner}}
      BY <2>1, <2>2, <2>3, <2>4
    <2>10. QED BY <2>8, <2>9 DEF Best
  <1>4. runnerUp \in Int
    <2>1. PICK S : S = values \ {winner}
      OBVIOUS
    <2>2. PICK f : f = [v \in values |-> Total(votes, v)]
      OBVIOUS
    <2>3. S \subseteq values /\ IsFiniteSet(S)
      BY <1>2, <2>1, FS_Subset
    <2>4. PICK W : W = {0} \cup {f[x] : x \in S}
      OBVIOUS
    <2>5. IsFiniteSet({f[x] : x \in S})
      BY <2>3, ImageFinite
    <2>6. IsFiniteSet(W) /\ W # {}
      BY <2>4, <2>5, FS_AddElement
    <2>7. W \subseteq Int
      BY <1>1, <2>2, <2>3, <2>4
    <2>8. Max(W) \in Int
      BY <2>6, <2>7, MaxType
    <2>9. W = {0} \cup {Total(votes, v) : v \in values \ {winner}}
      BY <2>1, <2>2, <2>3, <2>4
    <2>10. QED BY <2>8, <2>9
  <1> HIDE DEF base, runnerUp
  <1>5. support \in Int
    <2>1. Total(votes, winner) - base \in Int
      BY <1>1, <1>3
    <2>2. QED BY <2>1, PairType
  <1> HIDE DEF support
  <1>6. Max({0, Min({200, base + support - runnerUp \div 2})}) \in Int
    <2>1. PICK n : n = base + support - runnerUp \div 2
      OBVIOUS
    <2>2. n \in Int /\ 200 \in Int /\ 0 \in Int
      BY <1>3, <1>4, <1>5, <2>1
    <2>3. PICK m : m = Min({200, n})
      OBVIOUS
    <2>4. m \in Int
      BY <2>2, <2>3, PairType
    <2>5. QED BY <2>1, <2>2, <2>3, <2>4, PairType
  <1>7. votes # {} =>
          Resolve(votes).confidence =
            Max({0, Min({200, base + support - runnerUp \div 2})})
    BY DEF Resolve, values, top, winner, base, support, runnerUp
  <1>8. votes = {} => Resolve(votes).confidence = 0
    BY DEF Resolve
  <1>9. QED BY <1>6, <1>7, <1>8

Heard(s) == IsFiniteSet(s.mdns) /\ IsFiniteSet(s.banners)

LEMMA VotesInWeighed ==
  ASSUME NEW table, \A s \in DOMAIN table : table[s].weight \in Nat,
         NEW by, NEW signals, IsFiniteSet(signals)
  PROVE  Weighed(VotesIn(table, by, signals))
  <1>1. PICK S : S = signals \cap DOMAIN table
    OBVIOUS
  <1>2. PICK f : f = [s \in S |->
                        Vote(<<by, s>>, table[s].value, table[s].weight)]
    OBVIOUS
  <1>3. IsFiniteSet(S)
    BY <1>1, FS_Subset
  <1>4. IsFiniteSet({f[s] : s \in S})
    BY <1>3, ImageFinite
  <1>5. {f[s] : s \in S} = VotesIn(table, by, signals)
    BY <1>1, <1>2 DEF VotesIn
  <1>6. \A x \in VotesIn(table, by, signals) : x.weight \in Int
    BY DEF VotesIn, Vote
  <1>7. QED BY <1>4, <1>5, <1>6 DEF Weighed

LEMMA WeighedUnion ==
  \A a, b : Weighed(a) /\ Weighed(b) => Weighed(a \cup b)
  BY FS_Union DEF Weighed

LEMMA ClassWeighed ==
  ASSUME NEW S, IsFiniteSet(S), S \subseteq DOMAIN ClassTypes
  PROVE  /\ Weighed({Vote(<<"class", c>>, ClassTypes[c].device,
                          ClassTypes[c].weight) : c \in S})
         /\ Weighed({Vote(<<"class", c>>, ClassTypes[c].os,
                          ClassTypes[c].weight) : c \in S})
  <1>1. \A c \in S : ClassTypes[c].weight \in Int
    BY WeightsAssumption
  <1>2. Weighed({Vote(<<"class", c>>, ClassTypes[c].device,
                      ClassTypes[c].weight) : c \in S})
    <2>1. PICK f : f = [c \in S |-> Vote(<<"class", c>>,
                          ClassTypes[c].device, ClassTypes[c].weight)]
      OBVIOUS
    <2>2. IsFiniteSet({f[c] : c \in S})
      BY ImageFinite
    <2>3. {f[c] : c \in S} =
            {Vote(<<"class", c>>, ClassTypes[c].device,
                  ClassTypes[c].weight) : c \in S}
      BY <2>1
    <2>4. \A c \in S : f[c].weight \in Int
      BY <1>1, <2>1 DEF Vote
    <2>5. QED BY <2>2, <2>3, <2>4 DEF Weighed
  <1>3. Weighed({Vote(<<"class", c>>, ClassTypes[c].os,
                      ClassTypes[c].weight) : c \in S})
    <2>1. PICK f : f = [c \in S |-> Vote(<<"class", c>>,
                          ClassTypes[c].os, ClassTypes[c].weight)]
      OBVIOUS
    <2>2. IsFiniteSet({f[c] : c \in S})
      BY ImageFinite
    <2>3. {f[c] : c \in S} =
            {Vote(<<"class", c>>, ClassTypes[c].os,
                  ClassTypes[c].weight) : c \in S}
      BY <2>1
    <2>4. \A c \in S : f[c].weight \in Int
      BY <1>1, <2>1 DEF Vote
    <2>5. QED BY <2>2, <2>3, <2>4 DEF Weighed
  <1>4. QED BY <1>2, <1>3

LEMMA VotesWeighed ==
  ASSUME NEW s, Heard(s)
  PROVE  Weighed(DeviceVotes(s)) /\ Weighed(OsVotes(s))
  <1>1. \A x : IsFiniteSet({x})
    BY FS_Singleton
  <1>2. /\ Weighed(VotesIn(VendorTypes, "vendor", {Vendor(s)}))
        /\ Weighed(VotesIn(MdnsTypes, "mdns", s.mdns))
        /\ Weighed(VotesIn(SsdpTypes, "ssdp", {s.ssdp}))
        /\ Weighed(VotesIn(DhcpTypes, "dhcp", {s.prl}))
        /\ Weighed(VotesIn(BannerTypes, "banner", s.banners))
    BY <1>1, WeightsAssumption, VotesInWeighed DEF Heard
  <1>3. PICK C, D : /\ C = {s.class} \cap DOMAIN ClassTypes
                    /\ D = {d \in {s.class} \cap DOMAIN ClassTypes :
                              ClassTypes[d].os # "none"}
    OBVIOUS
  <1>4. /\ IsFiniteSet(C) /\ C \subseteq DOMAIN ClassTypes
        /\ IsFiniteSet(D) /\ D \subseteq DOMAIN ClassTypes
    <2>1. C \in SUBSET {s.class} /\ D \in SUBSET {s.class}
      BY <1>3
    <2>2. IsFiniteSet(C) /\ IsFiniteSet(D)
      BY <1>1, <2>1, FS_Subset
    <2>3. QED BY <1>3, <2>2
  <1>5. /\ Weighed({Vote(<<"class", c>>, ClassTypes[c].device,
                         ClassTypes[c].weight) : c \in C})
        /\ Weighed({Vote(<<"class", c>>, ClassTypes[c].os,
                         ClassTypes[c].weight) : c \in D})
    BY <1>4, ClassWeighed
  <1>6. Weighed(DeviceVotes(s))
    BY <1>2, <1>3, <1>5, WeighedUnion DEF DeviceVotes
  <1>7. Weighed(OsVotes(s))
    BY <1>2, <1>3, <1>5, WeighedUnion DEF OsVotes
  <1>8. QED BY <1>6, <1>7

LEMMA EvaluateType ==
  ASSUME NEW s, Heard(s)
  PROVE  Evaluate(s).reported => Evaluate(s).confidence \in Int
  <1>1. PICK device, os :
          device = Resolve(DeviceVotes(s)) /\ os = Resolve(OsVotes(s))
    OBVIOUS
  <1>2. device.confidence \in Int /\ os.confidence \in Int
    BY <1>1, VotesWeighed, ResolveType
  <1>3. PICK strongest : strongest = Max({device.confidence, os.confidence})
    OBVIOUS
  <1>4. strongest \in Int
    BY <1>2, <1>3, PairType
  <1>5. Min({strongest + 20, 200}) \in Int
    <2>1. strongest + 20 \in Int /\ 200 \in Int
      BY <1>4
    <2>2. QED BY <2>1, PairType
  <1>6. Evaluate(s).reported =>
          Evaluate(s).confidence \in {strongest, Min({strongest + 20, 200})}
    BY <1>1, <1>3 DEF Evaluate, NoFingerprint
  <1>7. QED BY <1>4, <1>5, <1>6

-----------------------------------------------------------------------------
(* Entries of the registry.                                                *)

IsFunction(f) == f = [x \in DOMAIN f |-> f[x]]

(* What is known of a device is a record of its signals, of which the      *)
(* server came with a UPnP device.                                         *)
Signals(s) ==
  /\ IsFunction(s) /\ DOMAIN s = DOMAIN NoSignals
  /\ Heard(s)
  /\ s.server # "none" => s.ssdp # "none"

Told(e) ==
  LET f == Evaluate(e.signals) IN ~f.reported \/ f.confidence <= e.confidence

Entry(e) ==
  /\ DOMAIN e = {"signals", "seen", "dirty", "confidence"}
  /\ Signals(e.signals)
  /\ e.dirty \in BOOLEAN /\ e.confidence \in Int
  /\ ~e.dirty => Told(e)

Entries(d) == \A k \in DOMAIN d : Entry(d[k])

LEMMA SameFunction ==
  \A f, a : IsFunction(f) => [f EXCEPT ![a] = f[a]] = f
  BY DEF IsFunction

LEMMA NoSignalsAre ==
  /\ DOMAIN NoSignals = {"ip", "mac", "host", "prl", "class", "mdns", "ssdp",
                         "server", "banners"}
  /\ Signals(NoSignals)
  <1>1. NoSignals.mdns = {} /\ NoSignals.banners = {}
        /\ NoSignals.server = "none"
    BY DEF NoSignals
  <1>2. IsFunction(NoSignals)
    BY DEF NoSignals, IsFunction
  <1>3. DOMAIN NoSignals = {"ip", "mac", "host", "prl", "class", "mdns",
                            "ssdp", "server", "banners"}
    BY DEF NoSignals
  <1>4. QED BY <1>1, <1>2, <1>3, FS_EmptySet DEF Signals, Heard

(* One signal more or another one.                                         *)
LEMMA SignalSet ==
  ASSUME NEW s, Signals(s), NEW n \in DOMAIN NoSignals, NEW v,
         n \in {"mdns", "banners"} => IsFiniteSet(v),
         n = "server" => s.ssdp # "none",
         n = "ssdp" => v # "none"
  PROVE  Signals([s EXCEPT ![n] = v])
  <1>1. PICK u : u = [s EXCEPT ![n] = v]
    OBVIOUS
  <1>2. /\ DOMAIN u = DOMAIN s /\ u[n] = v
        /\ \A x \in DOMAIN s : x # n => u[x] = s[x]
    BY <1>1 DEF Signals
  <1>3. IsFunction(u)
    BY <1>1 DEF IsFunction
  <1>4. Heard(u)
    BY <1>2, NoSignalsAre DEF Heard, Signals
  <1>5. u.server # "none" => u.ssdp # "none"
    BY <1>2, NoSignalsAre DEF Signals
  <1>6. QED BY <1>1, <1>2, <1>3, <1>4, <1>5 DEF Signals

(* The server is no evidence: of a UPnP device there is some already.      *)
LEMMA ServerApart ==
  ASSUME NEW s, Signals(s), s.ssdp # "none", NEW v
  PROVE  Evaluate([s EXCEPT !.server = v]) = Evaluate(s)
  <1>1. PICK u : u = [s EXCEPT !.server = v]
    OBVIOUS
  <1>2. /\ DOMAIN u = DOMAIN s
        /\ u.mac = s.mac /\ u.prl = s.prl /\ u.class = s.class
        /\ u.mdns = s.mdns /\ u.ssdp = s.ssdp /\ u.banners = s.banners
    BY <1>1, NoSignalsAre DEF Signals
  <1>3. ~NothingToGoBy(s) /\ ~NothingToGoBy(u)
    <2>1. \A x : DOMAIN x = DOMAIN NoSignals /\ x.ssdp # "none" =>
                   ~NothingToGoBy(x)
      <3> SUFFICES ASSUME NEW x, DOMAIN x = DOMAIN NoSignals,
                          x.ssdp # "none"
                   PROVE  ~NothingToGoBy(x)
        OBVIOUS
      <3>1. PICK y : y = [x EXCEPT !.ip = "none", !.host = "none"]
        OBVIOUS
      <3>2. y.ssdp = x.ssdp
        BY <3>1, NoSignalsAre
      <3>3. NoSignals.ssdp = "none"
        BY DEF NoSignals
      <3>4. QED BY <3>1, <3>2, <3>3 DEF NothingToGoBy
    <2>2. QED BY <1>2, <2>1 DEF Signals
  <1>4. Vendor(u) = Vendor(s)
    BY <1>2 DEF Vendor
  <1>5. DeviceVotes(u) = DeviceVotes(s)
    BY <1>2, <1>4 DEF DeviceVotes
  <1>6. OsVotes(u) = OsVotes(s)
    BY <1>2 DEF OsVotes
  <1>7. Evaluate(u) = Evaluate(s)
    BY <1>3, <1>4, <1>5, <1>6 DEF Evaluate
  <1>8. QED BY <1>1, <1>7

(* An entry with another signal is due for evaluation.                     *)
LEMMA EntrySet ==
  ASSUME NEW e, Entry(e), NEW n \in DOMAIN NoSignals, NEW v,
         n \in {"mdns", "banners"} => IsFiniteSet(v),
         n # "server",
         n = "ssdp" => v # "none",
         NEW new, DOMAIN new = DOMAIN e,
         new.signals = [e.signals EXCEPT ![n] = v],
         new.dirty = TRUE, new.confidence = e.confidence
  PROVE  Entry(new)
  <1>1. PICK s, u : s = e.signals /\ u = [s EXCEPT ![n] = v]
    OBVIOUS
  <1>2. new.signals = u
    BY <1>1
  <1>3. Signals(u)
    BY <1>1, SignalSet DEF Entry
  <1>4. QED BY <1>2, <1>3 DEF Entry

LEMMA LearnKeeps ==
  ASSUME NEW e, Entry(e), NEW n \in {"host", "class", "ssdp"}, NEW v
  PROVE  /\ Entry(Learn(e, n, v))
         /\ v # "none" => Learn(e, n, v).signals[n] # "none"
  <1>1. CASE v = "none" \/ e.signals[n] # "none"
    BY <1>1 DEF Learn
  <1>2. CASE ~(v = "none" \/ e.signals[n] # "none")
    <2>1. PICK new : /\ new = Learn(e, n, v)
                     /\ new = [e EXCEPT !.signals[n] = v, !.dirty = TRUE]
      BY <1>2 DEF Learn
    <2>2. /\ n \in DOMAIN NoSignals /\ n \notin {"mdns", "banners"}
          /\ n # "server" /\ v # "none"
      BY <1>2, NoSignalsAre
    <2>3. /\ DOMAIN new = DOMAIN e /\ new.dirty = TRUE
          /\ new.confidence = e.confidence
          /\ new.signals = [e.signals EXCEPT ![n] = v]
      BY <2>1 DEF Entry
    <2>4. Entry(new)
      BY <2>2, <2>3, EntrySet
    <2>5. new.signals[n] = v
      BY <2>2, <2>3 DEF Entry, Signals
    <2>6. QED BY <2>1, <2>2, <2>4, <2>5
  <1>3. QED BY <1>1, <1>2

LEMMA RequestListKeeps ==
  ASSUME NEW e, Entry(e), NEW v
  PROVE  Entry(LearnRequestList(e, v))
  <1>1. CASE v = "none" \/ e.signals.prl = v
    BY <1>1 DEF LearnRequestList
  <1>2. CASE ~(v = "none" \/ e.signals.prl = v)
    <2>1. PICK new :
            /\ new = LearnRequestList(e, v)
            /\ new = [e EXCEPT !.signals["prl"] = v, !.dirty = TRUE]
      BY <1>2 DEF LearnRequestList
    <2>2. "prl" \in DOMAIN NoSignals
      BY NoSignalsAre
    <2>3. /\ DOMAIN new = DOMAIN e /\ new.dirty = TRUE
          /\ new.confidence = e.confidence
          /\ new.signals = [e.signals EXCEPT !["prl"] = v]
      BY <2>1 DEF Entry
    <2>4. Entry(new)
      BY <2>2, <2>3, EntrySet
    <2>5. QED BY <2>1, <2>4
  <1>3. QED BY <1>1, <1>2

LEMMA CollectKeeps ==
  ASSUME NEW e, Entry(e), NEW n \in {"mdns", "banners"}, NEW v
  PROVE  Entry(Collect(e, n, v))
  <1>1. CASE v = "none" \/ v \in e.signals[n]
    BY <1>1 DEF Collect
  <1>2. CASE ~(v = "none" \/ v \in e.signals[n])
    <2>1. PICK S : S = e.signals[n] \cup {v}
      OBVIOUS
    <2>2. PICK new : /\ new = Collect(e, n, v)
                     /\ new = [e EXCEPT !.signals[n] = S, !.dirty = TRUE]
      BY <1>2, <2>1 DEF Collect
    <2>3. n \in DOMAIN NoSignals
      BY NoSignalsAre
    <2>4. IsFiniteSet(S)
      BY <2>1, FS_AddElement DEF Entry, Signals, Heard
    <2>5. /\ DOMAIN new = DOMAIN e /\ new.dirty = TRUE
          /\ new.confidence = e.confidence
          /\ new.signals = [e.signals EXCEPT ![n] = S]
      BY <2>2 DEF Entry
    <2>6. Entry(new)
      BY <2>3, <2>4, <2>5, EntrySet
    <2>7. QED BY <2>2, <2>6
  <1>3. QED BY <1>1, <1>2

LEMMA ServerKeeps ==
  ASSUME NEW e, Entry(e), e.signals.ssdp # "none", NEW v
  PROVE  Entry(LearnServer(e, v))
  <1>1. CASE v = "none"
    BY <1>1 DEF LearnServer
  <1>2. CASE v # "none"
    <2>1. PICK s, u : s = e.signals /\ u = [s EXCEPT !.server = v]
      OBVIOUS
    <2>2. PICK new : new = LearnServer(e, v)
      OBVIOUS
    <2>3. /\ DOMAIN new = DOMAIN e /\ new.signals = u
          /\ new.dirty = e.dirty /\ new.confidence = e.confidence
      BY <1>2, <2>1, <2>2 DEF Entry, LearnServer
    <2>4. "server" \in DOMAIN NoSignals
      BY NoSignalsAre
    <2>5. Signals(u)
      BY <2>1, <2>4, SignalSet DEF Entry
    <2>6. Evaluate(u) = Evaluate(s)
      BY <2>1, ServerApart DEF Entry
    <2>7. Told(e) => Told(new)
      BY <2>1, <2>3, <2>6 DEF Told
    <2>8. QED BY <2>2, <2>3, <2>5, <2>7 DEF Entry
  <1>3. QED BY <1>1, <1>2

LEMMA RefineKeeps ==
  ASSUME NEW e, Entry(e), NEW o, o.kind \in AboutDevice
  PROVE  Entry(Refine(e, o))
  <1>1. CASE o.kind = "asset"
    BY <1>1, LearnKeeps DEF Refine
  <1>2. CASE o.kind = "dhcp"
    <2>1. PICK f : f = LearnRequestList(e, o.prl)
      OBVIOUS
    <2>2. PICK g : g = Learn(f, "class", o.class)
      OBVIOUS
    <2>3. Entry(f)
      BY <2>1, RequestListKeeps
    <2>4. Entry(g)
      BY <2>2, <2>3, LearnKeeps
    <2>5. Refine(e, o) = Learn(g, "host", o.host)
      BY <1>2, <2>1, <2>2 DEF Refine
    <2>6. QED BY <2>4, <2>5, LearnKeeps
  <1>3. CASE o.kind = "service"
    BY <1>3, CollectKeeps DEF Refine
  <1>4. CASE o.kind = "advertises" /\ o.device # "none"
    <2>1. PICK f : f = Learn(e, "ssdp", o.device)
      OBVIOUS
    <2>2. Entry(f) /\ f.signals.ssdp # "none"
      BY <1>4, <2>1, LearnKeeps
    <2>3. Refine(e, o) = LearnServer(f, o.server)
      BY <1>4, <2>1 DEF Refine
    <2>4. QED BY <2>2, <2>3, ServerKeeps
  <1>5. CASE o.kind = "advertises" /\ o.device = "none"
    BY <1>5, CollectKeeps DEF Refine
  <1>6. QED BY <1>1, <1>2, <1>3, <1>4, <1>5 DEF AboutDevice

LEMMA FreshEntry ==
  ASSUME NEW ip, NEW mac, NEW t
  PROVE  Entry([signals |-> [NoSignals EXCEPT !.ip = ip, !.mac = mac],
                seen |-> t, dirty |-> TRUE, confidence |-> 0])
  <1>1. PICK s, u : /\ s = [NoSignals EXCEPT !.ip = ip]
                    /\ u = [s EXCEPT !.mac = mac]
    OBVIOUS
  <1>2. "ip" \in DOMAIN NoSignals /\ "mac" \in DOMAIN NoSignals
    BY NoSignalsAre
  <1>3. Signals(s)
    BY <1>1, <1>2, NoSignalsAre, SignalSet
  <1>4. Signals(u)
    BY <1>1, <1>2, <1>3, SignalSet
  <1>5. u = [NoSignals EXCEPT !.ip = ip, !.mac = mac]
    BY <1>1
  <1>6. QED BY <1>4, <1>5 DEF Entry

LEMMA KnownEntry ==
  ASSUME NEW old, Entry(old), NEW t, NEW x, NEW y, NEW due \in BOOLEAN,
         ~due => x = old.signals.ip /\ y = old.signals.mac
  PROVE  Entry([old EXCEPT !.seen = t, !.signals.ip = x, !.signals.mac = y,
                           !.dirty = old.dirty \/ due])
  <1>1. PICK s, r, u : /\ s = old.signals
                       /\ r = [s EXCEPT !.ip = x]
                       /\ u = [r EXCEPT !.mac = y]
    OBVIOUS
  <1>2. PICK new : new = [old EXCEPT !.seen = t, !.signals.ip = x,
                            !.signals.mac = y, !.dirty = old.dirty \/ due]
    OBVIOUS
  <1>3. /\ DOMAIN new = DOMAIN old /\ new.signals = u
        /\ new.dirty = (old.dirty \/ due)
        /\ new.confidence = old.confidence
    BY <1>1, <1>2 DEF Entry
  <1>4. Signals(u)
    <2>1. "ip" \in DOMAIN NoSignals /\ "mac" \in DOMAIN NoSignals
      BY NoSignalsAre
    <2>2. Signals(r)
      BY <1>1, <2>1, SignalSet DEF Entry
    <2>3. QED BY <1>1, <2>1, <2>2, SignalSet
  <1>5. ~due => u = s
    <2> SUFFICES ASSUME ~due PROVE u = s
      OBVIOUS
    <2>1. IsFunction(s)
      BY <1>1 DEF Entry, Signals
    <2>2. r = s
      BY <1>1, <2>1, SameFunction
    <2>3. QED BY <1>1, <2>1, <2>2, SameFunction
  <1>6. ~new.dirty => Told(new)
    BY <1>1, <1>3, <1>5 DEF Entry, Told
  <1>7. new.dirty \in BOOLEAN
    BY <1>3 DEF Entry
  <1>8. Entry(new)
    BY <1>3, <1>4, <1>6, <1>7 DEF Entry
  <1>9. QED BY <1>2, <1>8

LEMMA TouchKeeps ==
  ASSUME NEW d, Entries(d), NEW key, NEW ip, NEW mac, NEW t
  PROVE  Entries(Touch(d, key, ip, mac, t))
  <1>1. CASE key \in DOMAIN d
    <2> DEFINE old == d[key]
               missing(field, value) ==
                 old.signals[field] = "none" /\ value # "none"
               due == missing("ip", ip) \/ missing("mac", mac)
               x == IF missing("ip", ip) THEN ip ELSE old.signals.ip
               y == IF missing("mac", mac) THEN mac ELSE old.signals.mac
               e == [old EXCEPT !.seen = t, !.signals.ip = x,
                       !.signals.mac = y, !.dirty = old.dirty \/ due]
    <2>1. Touch(d, key, ip, mac, t) = [d EXCEPT ![key] = e]
      BY <1>1 DEF Touch
    <2>2. /\ due \in BOOLEAN
          /\ ~due => x = old.signals.ip /\ y = old.signals.mac
      OBVIOUS
    <2>3. Entry(old)
      BY <1>1 DEF Entries
    <2>4. Entry(e)
      <3> HIDE DEF old, due, x, y
      <3>1. QED BY <2>2, <2>3, KnownEntry
    <2> HIDE DEF e
    <2>5. QED BY <2>1, <2>4 DEF Entries
  <1>2. CASE key \notin DOMAIN d
    <2> DEFINE tidy == IF Cardinality(DOMAIN d) >= MaxDevices
                       THEN Prune(d, t) ELSE d
    <2>1. PICK fresh :
            fresh = [signals |-> [NoSignals EXCEPT !.ip = ip, !.mac = mac],
                     seen |-> t, dirty |-> TRUE, confidence |-> 0]
      OBVIOUS
    <2>2. Entry(fresh)
      BY <2>1, FreshEntry
    <2>3. Entries(tidy)
      BY DEF Entries, Prune, Restrict
    <2>4. Touch(d, key, ip, mac, t) \in
            {tidy, [k \in DOMAIN tidy \cup {key} |->
                      IF k = key THEN fresh ELSE tidy[k]]}
      BY <1>2, <2>1 DEF Touch
    <2> HIDE DEF tidy
    <2>5. QED BY <2>2, <2>3, <2>4 DEF Entries
  <1>3. QED BY <1>1, <1>2

LEMMA ObserveKeeps ==
  ASSUME NEW d, Entries(d), NEW o, NEW t
  PROVE  Entries(ObserveDevice(d, o, t))
  <1>1. CASE o.kind \notin AboutDevice
    BY <1>1 DEF ObserveDevice
  <1>2. CASE o.kind \in AboutDevice
    <2>1. PICK touched :
            /\ Entries(touched)
            /\ ObserveDevice(d, o, t) =
                 IF KeyOf(o) \notin DOMAIN touched THEN touched
                 ELSE [touched EXCEPT
                         ![KeyOf(o)] = Refine(touched[KeyOf(o)], o)]
      <3> DEFINE mac == IF o.kind \in {"asset", "dhcp"} THEN o.mac
                        ELSE "none"
                 touched == Touch(d, KeyOf(o), o.ip, mac, t)
      <3>1. Entries(touched)
        BY TouchKeeps
      <3>2. ObserveDevice(d, o, t) =
              IF KeyOf(o) \notin DOMAIN touched THEN touched
              ELSE [touched EXCEPT
                      ![KeyOf(o)] = Refine(touched[KeyOf(o)], o)]
        BY <1>2 DEF ObserveDevice
      <3>3. QED BY <3>1, <3>2
    <2>2. PICK e : e = Refine(touched[KeyOf(o)], o)
      OBVIOUS
    <2>3. KeyOf(o) \in DOMAIN touched => Entry(e)
      BY <1>2, <2>1, <2>2, RefineKeeps DEF Entries
    <2>4. QED BY <2>1, <2>2, <2>3 DEF Entries
  <1>3. QED BY <1>1, <1>2

LEMMA EvaluatedEntry ==
  ASSUME NEW e, Entry(e), e.dirty,
         NEW new, new = [e EXCEPT
                           !.dirty = FALSE,
                           !.confidence = IF Stronger(e)
                                          THEN Evaluate(e.signals).confidence
                                          ELSE @]
  PROVE  Entry(new) /\ ~new.dirty
  <1>1. PICK f : f = Evaluate(e.signals)
    OBVIOUS
  <1>2. f.reported => f.confidence \in Int
    BY <1>1, EvaluateType DEF Entry, Signals
  <1>3. /\ DOMAIN new = DOMAIN e /\ new.signals = e.signals
        /\ new.dirty = FALSE
        /\ new.confidence = IF Stronger(e) THEN f.confidence
                            ELSE e.confidence
    BY <1>1 DEF Entry
  <1>4. Stronger(e) <=> f.reported /\ (f.confidence > e.confidence
                                        \/ e.confidence = 0)
    BY <1>1 DEF Stronger
  <1>5. new.confidence \in Int
    BY <1>2, <1>3, <1>4 DEF Entry
  <1>6. Told(new)
    <2>1. f.reported => f.confidence <= new.confidence
      BY <1>2, <1>3, <1>4 DEF Entry
    <2>2. QED BY <1>1, <1>3, <2>1 DEF Told
  <1>7. QED BY <1>3, <1>5, <1>6 DEF Entry

LEMMA EvaluateKeeps ==
  ASSUME NEW d, Entries(d)
  PROVE  /\ Entries(EvaluateDirty(d))
         /\ \A k \in DOMAIN EvaluateDirty(d) : ~EvaluateDirty(d)[k].dirty
  <1> DEFINE new == EvaluateDirty(d)
  <1>1. DOMAIN new = DOMAIN d
    BY DEF EvaluateDirty
  <1>2. \A k \in DOMAIN d : Entry(new[k]) /\ ~new[k].dirty
    <2> SUFFICES ASSUME NEW k \in DOMAIN d
                 PROVE  Entry(new[k]) /\ ~new[k].dirty
      OBVIOUS
    <2>1. CASE ~d[k].dirty
      BY <2>1 DEF EvaluateDirty, Entries
    <2>2. CASE d[k].dirty
      <3>1. PICK e : e = d[k]
        OBVIOUS
      <3>2. new[k] = [e EXCEPT
                        !.dirty = FALSE,
                        !.confidence = IF Stronger(e)
                                       THEN Evaluate(e.signals).confidence
                                       ELSE @]
        BY <2>2, <3>1 DEF EvaluateDirty
      <3>3. Entry(e) /\ e.dirty
        BY <2>2, <3>1 DEF Entries
      <3>4. QED BY <3>2, <3>3, EvaluatedEntry
    <2>3. QED BY <2>1, <2>2
  <1>3. QED BY <1>1, <1>2 DEF Entries

=============================================================================
