--------------------------- MODULE Capture_proofs ---------------------------
(***************************************************************************)
(* Proofs about the capture workers (module Capture): for any interfaces,  *)
(* any pages, streams and frames, the health record and the counter of     *)
(* interfaces that are up agree with the sessions that are open, and the   *)
(* record never denies what an interface achieves; for any policy, any     *)
(* claim is paced and nothing of an excluded address is told; for any      *)
(* signatures, what is known of a device and not told is due; for any      *)
(* table and channel no packet of a flow is lost or counted twice; for any *)
(* stream and any cut into chunks a session gives out what is complete;    *)
(* and every type and limit is kept.                                       *)
(*                                                                         *)
(* Two facts make the first two inductive: where a worker can be while     *)
(* its session is active (ActiveWhere), so that every end of a session     *)
(* passes through the update that takes the interface out of the record,   *)
(* and what of the types the updates need (Sessions, Record).  That no     *)
(* packet of a flow is lost rests on where a worker can be while it holds  *)
(* packets (Placed), and on the balance of what was counted and what is    *)
(* still held (Balanced); that a stream is given out, on where its decoder *)
(* stands between two chunks (Metering), and this on what the loops of the *)
(* decoder compute (TakeRecords, Push), which call themselves last.        *)
(***************************************************************************)
EXTENDS Capture, Observer_proofs

States ==
  {"starting", "authenticating", "discovering", "connecting", "capturing",
   "backoff"}

Workers == Interfaces \cup Locals

(* A session is a record with a flag `active`.                             *)
Sessions ==
  /\ DOMAIN session = Workers
  /\ session = [w \in Workers |-> session[w]]
  /\ \A w \in Workers :
       /\ "active" \in DOMAIN session[w]
       /\ session[w].active \in BOOLEAN

Records == [state : States, active : SUBSET Interfaces,
            authenticated : BOOLEAN]

Record ==
  /\ worker \in [Workers -> Places]
  /\ health \in Records
  /\ up \in Nat

(* The places between the opening of a stream and the end of its session.  *)
OpenPlaces == {"stream", "deliver", "count", "expire", "drain", "lower"}

ActiveWhere ==
  \A w \in Interfaces :
    /\ session[w].active => worker[w] \in OpenPlaces
    /\ worker[w] \in {"count", "lower"} => session[w].active

IInv ==
  Sessions /\ Record /\ ActiveWhere /\ UpMatchesActive /\ StatusTruthful

Counting == {w \in Interfaces : worker[w] = "count"}
Uncounting == {w \in Interfaces : worker[w] = "uncount"}

-----------------------------------------------------------------------------
(* The sets that are counted.                                              *)

LEMMA CountedSets ==
  ASSUME Record
  PROVE  /\ IsFiniteSet(Interfaces)
         /\ IsFiniteSet(health.active) /\ IsFiniteSet(Counting)
         /\ IsFiniteSet(Uncounting)
         /\ Cardinality(health.active) \in Nat
         /\ Cardinality(Counting) \in Nat /\ Cardinality(Uncounting) \in Nat
  <1>1. IsFiniteSet(Interfaces)
    <2>1. Interfaces \in SUBSET (Interfaces \cup Locals)
      OBVIOUS
    <2>2. QED BY <2>1, InterfacesAssumption, FS_Subset
  <1>2. /\ health.active \in SUBSET Interfaces
        /\ Counting \in SUBSET Interfaces
        /\ Uncounting \in SUBSET Interfaces
    BY DEF Record, Records, Counting, Uncounting
  <1>3. QED BY <1>1, <1>2, FS_Subset, FS_CardinalityType

(* UpMatchesActive in terms of the sets.                                   *)
LEMMA Balance ==
  UpMatchesActive <=>
    /\ up + Cardinality(Counting)
         = LocalUp + Cardinality(health.active) + Cardinality(Uncounting)
    /\ health.active = {w \in Interfaces : session[w].active}
  BY DEF UpMatchesActive, Counting, Uncounting

(* While a worker has a decrement to make, the counter is not zero: every  *)
(* interface that has an increment to make is in the record.               *)
LEMMA NoUnderflow ==
  ASSUME IInv, NEW w \in Interfaces, worker[w] = "uncount"
  PROVE  up >= 1
  <1>1. Counting \in SUBSET health.active
    BY DEF IInv, ActiveWhere, UpMatchesActive, Counting
  <1>2. Cardinality(Counting) <= Cardinality(health.active)
    BY <1>1, CountedSets, FS_Subset DEF IInv
  <1>3. Cardinality(Uncounting) >= 1
    <2>1. w \in Uncounting
      BY DEF Uncounting
    <2>2. Cardinality(Uncounting) # 0
      BY <2>1, CountedSets, FS_EmptySet DEF IInv
    <2>3. QED BY <2>2, CountedSets DEF IInv
  <1>4. up \in Nat /\ LocalUp \in Nat
    BY CaptureAssumption DEF IInv, Record
  <1>5. up + Cardinality(Counting)
          = LocalUp + Cardinality(health.active) + Cardinality(Uncounting)
    BY Balance DEF IInv
  <1>6. QED BY <1>2, <1>3, <1>4, <1>5, CountedSets DEF IInv

LEMMA MaxOfTwo ==
  ASSUME NEW a \in Int, NEW b \in Int, a >= b
  PROVE  Max({a, b}) = a
  BY DEF Max

-----------------------------------------------------------------------------
(* Steps that leave the sessions' flags alone.                             *)

KeepsActive ==
  /\ Sessions'
  /\ \A w \in Interfaces : session'[w].active = session[w].active

LEMMA KeepsObserver ==
  ASSUME Sessions, NEW w, NEW o,
         session' = [session EXCEPT ![w].observer = o]
  PROVE  KeepsActive
  BY DEF Sessions, KeepsActive, Workers

LEMMA KeepsFrame ==
  ASSUME Sessions, NEW w, NEW m, NEW o,
         session' = [session EXCEPT ![w].delivered = m, ![w].observer = o]
  PROVE  KeepsActive
  BY DEF Sessions, KeepsActive, Workers

LEMMA KeepsOutbox ==
  ASSUME Sessions, NEW w, NEW o,
         session' = [session EXCEPT ![w].observer.out = o]
  PROVE  KeepsActive
  BY DEF Sessions, KeepsActive, Workers

(* A session that is not active is replaced by one that is not.            *)
LEMMA KeepsReplaced ==
  ASSUME Sessions, NEW w, w \in Interfaces => ~session[w].active, NEW s,
         session' = [session EXCEPT ![w] = [NoSession EXCEPT !.stream = s]]
  PROVE  KeepsActive
  BY DEF Sessions, KeepsActive, NoSession, Workers

LEMMA KeepsClosed ==
  ASSUME Sessions, NEW w, w \in Interfaces => ~session[w].active,
         session' = [session EXCEPT ![w] = NoSession]
  PROVE  KeepsActive
  BY DEF Sessions, KeepsActive, NoSession, Workers

(* Nothing that the counter depends on changes.                            *)
LEMMA SameCounts ==
  ASSUME IInv, KeepsActive, worker' \in [Workers -> Places],
         health' \in Records, health'.active = health.active, up' = up,
         StatusTruthful',
         \A w \in Interfaces :
           worker'[w] # worker[w] =>
             /\ worker[w] \notin {"count", "uncount"}
             /\ worker'[w] \notin {"count", "uncount"}
             /\ session[w].active => worker'[w] \in OpenPlaces
             /\ worker'[w] = "lower" => session[w].active
  PROVE  IInv'
  <1>1. Sessions' /\ Record'
    BY DEF KeepsActive, Record, IInv
  <1>2. ActiveWhere'
    BY DEF IInv, ActiveWhere, KeepsActive
  <1>3. Counting' = Counting /\ Uncounting' = Uncounting
    BY DEF Counting, Uncounting
  <1>4. UpMatchesActive'
    <2>1. {w \in Interfaces : session'[w].active}
            = {w \in Interfaces : session[w].active}
      BY DEF KeepsActive
    <2>2. QED
      BY <1>3, <2>1 DEF UpMatchesActive, IInv, Counting, Uncounting
  <1>5. QED BY <1>1, <1>2, <1>4 DEF IInv

(* Neither the record nor the counter changes.                             *)
LEMMA SameRecord ==
  ASSUME IInv, KeepsActive, UNCHANGED <<health, up>>,
         NEW w \in Workers, NEW place \in Places,
         worker' = [worker EXCEPT ![w] = place] \/ worker' = worker,
         w \in Interfaces /\ worker'[w] # worker[w] =>
           /\ worker[w] \notin {"count", "uncount"}
           /\ place \notin {"count", "uncount"}
           /\ session[w].active => place \in OpenPlaces
           /\ place = "lower" => session[w].active
  PROVE  IInv'
  <1>1. worker \in [Workers -> Places]
    BY DEF IInv, Record
  <1>2. worker' \in [Workers -> Places]
    BY <1>1
  <1>3. \A u \in Interfaces :
          worker'[u] # worker[u] => u = w /\ worker'[u] = place
    BY <1>1 DEF Workers
  <1>4. StatusTruthful'
    BY DEF IInv, StatusTruthful
  <1>5. health' \in Records
    BY DEF IInv, Record
  <1>6. QED BY <1>2, <1>3, <1>4, <1>5, SameCounts

LEMMA SameSessions ==
  ASSUME Sessions, UNCHANGED session
  PROVE  KeepsActive
  BY DEF Sessions, KeepsActive, Workers

-----------------------------------------------------------------------------
(* The start of a session.                                                 *)

LEMMA InitInvariant ==
  ASSUME Init
  PROVE  IInv
  <1>1. Sessions
    BY DEF Init, Sessions, NoSession, Workers
  <1>2. /\ worker \in [Workers -> Places]
        /\ \A w \in Interfaces : worker[w] \in {"absent", "top"}
    BY InterfacesAssumption DEF Init, Places, Workers
  <1>3. Record
    BY <1>2, CaptureAssumption DEF Init, Record, Records, States
  <1>4. \A w \in Interfaces : ~session[w].active
    BY DEF Init, NoSession
  <1>5. ActiveWhere
    BY <1>2, <1>4 DEF ActiveWhere
  <1>6. Counting = {} /\ Uncounting = {} /\ health.active = {}
    BY <1>2 DEF Counting, Uncounting, Init
  <1>7. UpMatchesActive
    <2>1. up = LocalUp /\ LocalUp \in Nat
      BY CaptureAssumption DEF Init
    <2>2. Cardinality(Counting) = 0 /\ Cardinality(Uncounting) = 0
            /\ Cardinality(health.active) = 0
      BY <1>6, FS_EmptySet
    <2>3. {w \in Interfaces : session[w].active} = health.active
      BY <1>4, <1>6
    <2>4. QED BY <2>1, <2>2, <2>3, Balance
  <1>8. StatusTruthful
    BY <1>6 DEF StatusTruthful
  <1>9. QED BY <1>1, <1>3, <1>5, <1>7, <1>8 DEF IInv

(* The flag of a worker before its stream is down.                         *)
LEMMA NotYetActive ==
  ASSUME IInv, NEW w \in Interfaces, worker[w] \notin OpenPlaces
  PROVE  ~session[w].active
  BY DEF IInv, ActiveWhere

(* A step before the stream that moves the record's state on.              *)
LEMMA StateStep ==
  ASSUME IInv, NEW w \in Interfaces, UNCHANGED <<session, up>>,
         worker[w] \notin OpenPlaces \cup {"uncount"},
         NEW place \in Places \ {"count", "uncount", "lower"},
         worker' = [worker EXCEPT ![w] = place],
         NEW state \in States, state \in {"starting", "backoff"} =>
           health.active = {} \/ state = health.state,
         NEW known \in BOOLEAN, health.authenticated => known,
         health' = [state |-> state, active |-> health.active,
                    authenticated |-> known]
  PROVE  IInv'
  <1>1. KeepsActive
    BY SameSessions DEF IInv
  <1>2. worker \in [Workers -> Places] /\ health \in Records
    BY DEF IInv, Record
  <1>3. /\ worker' \in [Workers -> Places]
        /\ \A u \in Interfaces :
             worker'[u] # worker[u] => u = w /\ worker'[u] = place
    BY <1>2 DEF Workers
  <1>4. health' \in Records /\ health'.active = health.active
    BY <1>2 DEF Records
  <1>5. StatusTruthful'
    BY <1>2 DEF IInv, StatusTruthful, Records
  <1>6. ~session[w].active
    BY NotYetActive
  <1>7. worker[w] \notin {"count", "uncount"}
    BY DEF OpenPlaces
  <1>8. QED
    BY <1>1, <1>3, <1>4, <1>5, <1>6, <1>7, SameCounts DEF OpenPlaces

LEMMA HealthFields ==
  ASSUME IInv
  PROVE  /\ health = [state |-> health.state, active |-> health.active,
                      authenticated |-> health.authenticated]
         /\ health.state \in States /\ health.authenticated \in BOOLEAN
  BY DEF IInv, Record, Records

LEMMA OpeningStep ==
  ASSUME IInv, NEW w \in Interfaces,
         \/ StopAtTop(w) \/ StartSession(w) \/ LoadCredentials(w)
         \/ Authenticate(w) \/ Discover(w) \/ StartCapture(w)
  PROVE  IInv'
  <1>1. w \in Workers /\ Sessions
    BY DEF Workers, IInv
  <1>2. CASE StopAtTop(w) \/ LoadCredentials(w)
    <2>1. UNCHANGED <<health, up, session>>
      BY <1>2 DEF StopAtTop, LoadCredentials
    <2>2. /\ worker[w] \in {"top", "load"}
          /\ \E place \in {"stopped", "login", "ended"} :
               worker' = [worker EXCEPT ![w] = place]
      BY <1>2 DEF StopAtTop, LoadCredentials, Fails, Go
    <2>3. ~session[w].active
      BY <2>2, NotYetActive DEF OpenPlaces
    <2>4. KeepsActive
      BY <1>1, <2>1, SameSessions
    <2>5. QED BY <1>1, <2>1, <2>2, <2>3, <2>4, SameRecord DEF Places
  <1>3. CASE StartSession(w)
    <2>1. /\ worker[w] = "top" /\ UNCHANGED <<session, up>>
          /\ worker' = [worker EXCEPT ![w] = "load"]
      BY <1>3 DEF StartSession, Go
    <2>2. health' = [state |-> "authenticating", active |-> health.active,
                     authenticated |-> health.authenticated]
      BY <1>3, HealthFields DEF StartSession
    <2>3. QED
      BY <2>1, <2>2, StateStep, HealthFields DEF Places, OpenPlaces, States
  <1>4. CASE Authenticate(w)
    <2>1. worker[w] = "login" /\ UNCHANGED <<session, up>>
      BY <1>4 DEF Authenticate
    <2>2. \/ /\ worker' = [worker EXCEPT ![w] = "discover"]
             /\ health' = [state |-> "discovering", active |-> health.active,
                           authenticated |-> TRUE]
          \/ /\ worker' = [worker EXCEPT ![w] = "ended"]
             /\ health' = health
      BY <1>4, HealthFields DEF Authenticate, Fails, Go
    <2>3. CASE /\ worker' = [worker EXCEPT ![w] = "discover"]
               /\ health' = [state |-> "discovering",
                             active |-> health.active,
                             authenticated |-> TRUE]
      BY <2>1, <2>3, StateStep DEF Places, OpenPlaces, States
    <2>4. CASE worker' = [worker EXCEPT ![w] = "ended"] /\ health' = health
      BY <2>1, <2>4, StateStep, HealthFields DEF Places, OpenPlaces
    <2>5. QED BY <2>2, <2>3, <2>4
  <1>5. CASE Discover(w)
    <2>1. worker[w] = "discover" /\ UNCHANGED <<session, up>>
      BY <1>5 DEF Discover
    <2>2. \/ /\ worker' = [worker EXCEPT ![w] = "connect"]
             /\ health' = [health EXCEPT !.state = "connecting"]
          \/ /\ worker' = [worker EXCEPT ![w] = "ended"]
             /\ health' = health
      BY <1>5 DEF Discover, Fails, Go
    <2>3. CASE /\ worker' = [worker EXCEPT ![w] = "connect"]
               /\ health' = [health EXCEPT !.state = "connecting"]
      <3>1. health' = [state |-> "connecting", active |-> health.active,
                       authenticated |-> health.authenticated]
        BY <2>3, HealthFields
      <3>2. QED
        BY <2>1, <2>3, <3>1, StateStep, HealthFields
        DEF Places, OpenPlaces, States
    <2>4. CASE worker' = [worker EXCEPT ![w] = "ended"] /\ health' = health
      BY <2>1, <2>4, StateStep, HealthFields DEF Places, OpenPlaces
    <2>5. QED BY <2>2, <2>3, <2>4
  <1>6. CASE StartCapture(w)
    <2>1. worker[w] = "connect" /\ UNCHANGED <<health, up>>
      BY <1>6 DEF StartCapture
    <2>2. ~session[w].active
      BY <2>1, NotYetActive DEF OpenPlaces
    <2>3. \/ /\ worker' = [worker EXCEPT ![w] = "stream"]
             /\ \E s : session' = [session EXCEPT ![w] =
                                     [NoSession EXCEPT !.stream = s]]
          \/ /\ worker' = [worker EXCEPT ![w] = "ended"]
             /\ session' = session
      BY <1>6 DEF StartCapture, Fails, Go
    <2>4. KeepsActive
      BY <1>1, <2>2, <2>3, KeepsReplaced, SameSessions
    <2>5. \E place \in {"stream", "ended"} :
            worker' = [worker EXCEPT ![w] = place]
      BY <2>3
    <2>6. QED BY <1>1, <2>1, <2>2, <2>4, <2>5, SameRecord DEF Places
  <1>7. QED BY <1>2, <1>3, <1>4, <1>5, <1>6

-----------------------------------------------------------------------------
(* The stream.                                                             *)

(* A step of an open session that does not touch record and counter.       *)
LEMMA StreamStep ==
  ASSUME IInv, NEW w \in Interfaces,
         \/ ReceiveChunk(w) \/ StreamEnds(w) \/ StopStream(w)
         \/ DeliverPacket(w) \/ ChunkDelivered(w) \/ ExpireFlows(w)
         \/ DrainFlows(w)
  PROVE  IInv'
  <1>1. w \in Workers /\ Sessions
    BY DEF Workers, IInv
  <1>2. CASE ReceiveChunk(w)
    <2>1. UNCHANGED <<health, up>> /\ worker[w] = "stream"
      BY <1>2 DEF ReceiveChunk
    <2> DEFINE n(size) ==
                 Min({size, StreamLength(session[w].stream)
                              - session[w].received})
               d(size) ==
                 Push(session[w].stream, session[w].decoder, n(size))
    <2>2. PICK size \in cast.chunks :
            session' =
              [session EXCEPT ![w].decoder = d(size),
                 ![w].received = @ + n(size),
                 ![w].fresh = IF d(size).error = "none"
                              THEN d(size).taken - session[w].decoder.taken
                              ELSE 0]
      BY <1>2 DEF ReceiveChunk
    <2> HIDE DEF n, d
    <2>3. \E place \in {"drain", "deliver"} :
            worker' = [worker EXCEPT ![w] = place]
      BY <1>2 DEF ReceiveChunk, EndStream, Go
    <2>4. KeepsActive
      BY <1>1, <2>2 DEF Sessions, KeepsActive, Workers
    <2>5. QED BY <1>1, <2>1, <2>3, <2>4, SameRecord DEF Places, OpenPlaces
  <1>3. CASE StreamEnds(w) \/ StopStream(w) \/ ChunkDelivered(w)
    <2>1. /\ UNCHANGED <<health, up, session>>
          /\ worker[w] \in {"stream", "deliver"}
      BY <1>3 DEF StreamEnds, StopStream, ChunkDelivered
    <2>2. \E place \in {"drain", "expire"} :
            worker' = [worker EXCEPT ![w] = place]
      BY <1>3 DEF StreamEnds, StopStream, ChunkDelivered, EndStream, Go
    <2>3. KeepsActive
      BY <1>1, <2>1, SameSessions
    <2>4. QED BY <1>1, <2>1, <2>2, <2>3, SameRecord DEF Places, OpenPlaces
  <1>4. CASE DeliverPacket(w)
    <2>1. UNCHANGED <<health, up, worker>>
      BY <1>4 DEF DeliverPacket
    <2>2. PICK f \in cast.frames :
            session' =
              [session EXCEPT ![w].fresh = @ - 1, ![w].delivered = @ + 1,
                              ![w].observer = HandleFrame(@, cast, f, now)]
      BY <1>4 DEF DeliverPacket
    <2>3. KeepsActive
      BY <1>1, <2>2 DEF Sessions, KeepsActive, Workers
    <2>4. worker[w] \in Places
      BY <1>1 DEF IInv, Record
    <2>5. QED BY <1>1, <2>1, <2>3, <2>4, SameRecord
  <1>5. CASE ExpireFlows(w)
    <2>1. /\ UNCHANGED <<health, up>> /\ worker[w] = "expire"
          /\ worker' = [worker EXCEPT ![w] = "stream"]
      BY <1>5 DEF ExpireFlows, Go
    <2>2. \E o : session' = [session EXCEPT ![w].observer = o]
      BY <1>5 DEF ExpireFlows
    <2>3. KeepsActive
      BY <1>1, <2>2, KeepsObserver
    <2>4. QED BY <1>1, <2>1, <2>3, SameRecord DEF Places, OpenPlaces
  <1>6. CASE DrainFlows(w)
    <2>1. UNCHANGED <<health, up>> /\ worker[w] = "drain"
      BY <1>6 DEF DrainFlows
    <2>2. CASE session[w].active
      <3>1. /\ worker' = [worker EXCEPT ![w] = "lower"]
            /\ \E o : session' = [session EXCEPT ![w].observer = o]
        BY <1>6, <2>2 DEF DrainFlows, Go
      <3>2. KeepsActive
        BY <1>1, <3>1, KeepsObserver
      <3>3. QED
        BY <1>1, <2>1, <2>2, <3>1, <3>2, SameRecord DEF Places, OpenPlaces
    <2>3. CASE ~session[w].active
      <3>1. /\ worker' = [worker EXCEPT ![w] = "ended"]
            /\ session' = [session EXCEPT ![w] = NoSession]
        BY <1>6, <2>3 DEF DrainFlows, Go, Close
      <3>2. KeepsActive
        BY <1>1, <2>3, <3>1, KeepsClosed
      <3>3. QED
        BY <1>1, <2>1, <2>3, <3>1, <3>2, SameRecord DEF Places
    <2>4. QED BY <2>2, <2>3
  <1>7. QED BY <1>2, <1>3, <1>4, <1>5, <1>6

(* The record first: the interface is active and has yet to be counted.    *)
LEMMA InterfaceUpStep ==
  ASSUME IInv, NEW w \in Interfaces, InterfaceUp(w)
  PROVE  IInv'
  <1>1. /\ worker[w] = "deliver" /\ ~session[w].active /\ up' = up
        /\ worker' = [worker EXCEPT ![w] = "count"]
        /\ session' = [session EXCEPT ![w].active = TRUE]
        /\ health' = [state |-> "capturing",
                      active |-> health.active \cup {w},
                      authenticated |-> TRUE]
    BY DEF InterfaceUp, Go
  <1>2. /\ worker \in [Workers -> Places] /\ health \in Records
        /\ up \in Nat /\ Sessions
        /\ health.active = {u \in Interfaces : session[u].active}
    BY Balance DEF IInv, Record
  <1>3. /\ Sessions' /\ session'[w].active
        /\ \A u \in Interfaces : u # w => session'[u].active
                                            = session[u].active
    BY <1>1, <1>2 DEF Sessions, Workers
  <1>4. /\ worker' \in [Workers -> Places] /\ worker'[w] = "count"
        /\ \A u \in Interfaces : u # w => worker'[u] = worker[u]
    BY <1>1, <1>2 DEF Workers, Places
  <1>5. Record'
    BY <1>1, <1>2, <1>4 DEF Record, Records, States
  <1>6. ActiveWhere'
    BY <1>3, <1>4 DEF IInv, ActiveWhere, OpenPlaces
  <1>7. /\ Counting' = Counting \cup {w} /\ w \notin Counting
        /\ Uncounting' = Uncounting
    BY <1>1, <1>4 DEF Counting, Uncounting
  <1>8. /\ health'.active = health.active \cup {w} /\ w \notin health.active
        /\ health'.active = {u \in Interfaces : session'[u].active}
    BY <1>1, <1>2, <1>3
  <1>9. UpMatchesActive'
    <2>1. /\ Cardinality(Counting') = Cardinality(Counting) + 1
          /\ Cardinality(health'.active)
               = Cardinality(health.active) + 1
      <3>1. IsFiniteSet(Counting) /\ IsFiniteSet(health.active)
        BY CountedSets DEF IInv
      <3>2. Cardinality(Counting \cup {w}) = Cardinality(Counting) + 1
        BY <1>7, <3>1, FS_AddElement
      <3>3. Cardinality(health.active \cup {w})
              = Cardinality(health.active) + 1
        BY <1>8, <3>1, FS_AddElement
      <3>4. QED BY <1>7, <1>8, <3>2, <3>3
    <2>2. up + Cardinality(Counting)
            = LocalUp + Cardinality(health.active) + Cardinality(Uncounting)
      BY Balance DEF IInv
    <2>3. up' + Cardinality(Counting')
            = LocalUp + Cardinality(health'.active)
                + Cardinality(Uncounting')
      BY <1>1, <1>2, <1>7, <2>1, <2>2, CountedSets, CaptureAssumption
      DEF IInv
    <2>4. QED
      BY <1>8, <2>3 DEF UpMatchesActive, Counting, Uncounting
  <1>10. StatusTruthful'
    BY <1>1 DEF StatusTruthful
  <1>11. QED BY <1>3, <1>5, <1>6, <1>9, <1>10 DEF IInv

LEMMA CountUpStep ==
  ASSUME IInv, NEW w \in Interfaces, CountUp(w)
  PROVE  IInv'
  <1>1. /\ worker[w] = "count" /\ up' = up + 1
        /\ worker' = [worker EXCEPT ![w] = "deliver"]
        /\ UNCHANGED <<health, session>>
    BY DEF CountUp, Go
  <1>2. /\ worker \in [Workers -> Places] /\ health \in Records
        /\ up \in Nat
    BY DEF IInv, Record
  <1>3. /\ worker' \in [Workers -> Places] /\ worker'[w] = "deliver"
        /\ \A u \in Interfaces : u # w => worker'[u] = worker[u]
    BY <1>1, <1>2 DEF Workers, Places
  <1>4. Sessions' /\ Record' /\ StatusTruthful'
    BY <1>1, <1>2, <1>3 DEF Record, Sessions, StatusTruthful, IInv
  <1>5. ActiveWhere'
    BY <1>1, <1>3 DEF IInv, ActiveWhere, OpenPlaces
  <1>6. /\ Counting' = Counting \ {w} /\ w \in Counting
        /\ Uncounting' = Uncounting
    BY <1>1, <1>3 DEF Counting, Uncounting
  <1>7. UpMatchesActive'
    <2>1. Cardinality(Counting') = Cardinality(Counting) - 1
      BY <1>6, CountedSets, FS_RemoveElement DEF IInv
    <2>2. up + Cardinality(Counting)
            = LocalUp + Cardinality(health.active) + Cardinality(Uncounting)
      BY Balance DEF IInv
    <2>3. up' + Cardinality(Counting')
            = LocalUp + Cardinality(health'.active)
                + Cardinality(Uncounting')
      BY <1>1, <1>2, <1>6, <2>1, <2>2, CountedSets, CaptureAssumption
      DEF IInv
    <2>4. QED
      BY <1>1, <2>3 DEF UpMatchesActive, Counting, Uncounting, IInv
  <1>8. QED BY <1>4, <1>5, <1>7 DEF IInv

(* The interface leaves the record and has yet to be uncounted.            *)
LEMMA InterfaceDownStep ==
  ASSUME IInv, NEW w \in Interfaces, InterfaceDown(w)
  PROVE  IInv'
  <1>1. /\ worker[w] = "lower" /\ up' = up
        /\ session' = [session EXCEPT ![w] = NoSession]
        /\ health' = [health EXCEPT !.active = health.active \ {w},
                        !.authenticated = @ /\ health.active \ {w} # {}]
    BY DEF InterfaceDown, Close
  <1>2. /\ worker \in [Workers -> Places] /\ health \in Records
        /\ up \in Nat /\ Sessions
        /\ health.active = {u \in Interfaces : session[u].active}
    BY Balance DEF IInv, Record
  <1>3. w \in health.active
    BY <1>1, <1>2 DEF IInv, ActiveWhere
  <1>4. worker' = [worker EXCEPT ![w] = "uncount"]
    <2>1. health.active \ {w} # health.active
      BY <1>3
    <2>2. QED BY <2>1 DEF InterfaceDown, Go
  <1>5. /\ Sessions' /\ ~session'[w].active
        /\ \A u \in Interfaces : u # w => session'[u].active
                                            = session[u].active
    BY <1>1, <1>2 DEF Sessions, Workers, NoSession
  <1>6. /\ worker' \in [Workers -> Places] /\ worker'[w] = "uncount"
        /\ \A u \in Interfaces : u # w => worker'[u] = worker[u]
    BY <1>2, <1>4 DEF Workers, Places
  <1>7. /\ health' \in Records /\ health'.active = health.active \ {w}
        /\ health'.state = health.state
        /\ health'.active # {} =>
             health'.authenticated = health.authenticated
    BY <1>1, <1>2 DEF Records
  <1>8. Record'
    BY <1>1, <1>2, <1>6, <1>7 DEF Record
  <1>9. ActiveWhere'
    BY <1>5, <1>6 DEF IInv, ActiveWhere, OpenPlaces
  <1>10. /\ Uncounting' = Uncounting \cup {w} /\ w \notin Uncounting
         /\ Counting' = Counting
    BY <1>1, <1>6 DEF Counting, Uncounting
  <1>11. health'.active = {u \in Interfaces : session'[u].active}
    BY <1>2, <1>5, <1>7
  <1>12. UpMatchesActive'
    <2>1. /\ Cardinality(Uncounting') = Cardinality(Uncounting) + 1
          /\ Cardinality(health'.active)
               = Cardinality(health.active) - 1
      <3>1. IsFiniteSet(Uncounting) /\ IsFiniteSet(health.active)
        BY CountedSets DEF IInv
      <3>2. Cardinality(Uncounting \cup {w}) = Cardinality(Uncounting) + 1
        BY <1>10, <3>1, FS_AddElement
      <3>3. Cardinality(health.active \ {w})
              = Cardinality(health.active) - 1
        BY <1>3, <3>1, FS_RemoveElement
      <3>4. QED BY <1>7, <1>10, <3>2, <3>3
    <2>2. up + Cardinality(Counting)
            = LocalUp + Cardinality(health.active) + Cardinality(Uncounting)
      BY Balance DEF IInv
    <2>3. up' + Cardinality(Counting')
            = LocalUp + Cardinality(health'.active)
                + Cardinality(Uncounting')
      BY <1>1, <1>2, <1>10, <2>1, <2>2, CountedSets, CaptureAssumption
      DEF IInv
    <2>4. QED
      BY <1>11, <2>3 DEF UpMatchesActive, Counting, Uncounting
  <1>13. StatusTruthful'
    BY <1>3, <1>7 DEF IInv, StatusTruthful
  <1>14. QED BY <1>5, <1>8, <1>9, <1>12, <1>13 DEF IInv

LEMMA CountDownStep ==
  ASSUME IInv, NEW w \in Interfaces, CountDown(w)
  PROVE  IInv'
  <1>1. /\ worker[w] = "uncount" /\ up' = Max({up - 1, 0})
        /\ worker' = [worker EXCEPT ![w] = "ended"]
        /\ UNCHANGED <<health, session>>
    BY DEF CountDown, Go
  <1>2. /\ worker \in [Workers -> Places] /\ health \in Records
        /\ up \in Nat
    BY DEF IInv, Record
  <1>3. up' = up - 1 /\ up' \in Nat
    <2>1. up >= 1
      BY <1>1, NoUnderflow
    <2>2. QED BY <1>1, <1>2, <2>1, MaxOfTwo
  <1>4. /\ worker' \in [Workers -> Places] /\ worker'[w] = "ended"
        /\ \A u \in Interfaces : u # w => worker'[u] = worker[u]
    BY <1>1, <1>2 DEF Workers, Places
  <1>5. Sessions' /\ Record' /\ StatusTruthful'
    BY <1>1, <1>2, <1>3, <1>4 DEF Record, Sessions, StatusTruthful, IInv
  <1>6. ActiveWhere'
    BY <1>1, <1>4 DEF IInv, ActiveWhere, OpenPlaces
  <1>7. /\ Uncounting' = Uncounting \ {w} /\ w \in Uncounting
        /\ Counting' = Counting
    BY <1>1, <1>4 DEF Counting, Uncounting
  <1>8. UpMatchesActive'
    <2>1. Cardinality(Uncounting') = Cardinality(Uncounting) - 1
      BY <1>7, CountedSets, FS_RemoveElement DEF IInv
    <2>2. up + Cardinality(Counting)
            = LocalUp + Cardinality(health.active) + Cardinality(Uncounting)
      BY Balance DEF IInv
    <2>3. up' + Cardinality(Counting')
            = LocalUp + Cardinality(health'.active)
                + Cardinality(Uncounting')
      BY <1>1, <1>2, <1>3, <1>7, <2>1, <2>2, CountedSets,
         CaptureAssumption
      DEF IInv
    <2>4. QED
      BY <1>1, <2>3 DEF UpMatchesActive, Counting, Uncounting, IInv
  <1>9. QED BY <1>5, <1>6, <1>8 DEF IInv

(* Only a record without an active interface says that it waits.           *)
LEMMA PauseStep ==
  ASSUME IInv, NEW w \in Interfaces, SessionEnded(w) \/ Wait(w)
  PROVE  IInv'
  <1>1. w \in Workers /\ Sessions
    BY DEF Workers, IInv
  <1>2. CASE Wait(w) \/ (SessionEnded(w) /\ shutdown)
    <2>1. /\ UNCHANGED <<health, up, session>>
          /\ worker[w] \in {"wait", "ended"}
      BY <1>2 DEF Wait, SessionEnded
    <2>2. \E place \in {"stopped", "top"} :
            worker' = [worker EXCEPT ![w] = place]
      BY <1>2 DEF Wait, SessionEnded, Go
    <2>3. KeepsActive /\ ~session[w].active
      BY <1>1, <2>1, SameSessions, NotYetActive DEF OpenPlaces
    <2>4. QED BY <1>1, <2>1, <2>2, <2>3, SameRecord DEF Places
  <1>3. CASE SessionEnded(w) /\ ~shutdown
    <2>1. /\ worker[w] = "ended" /\ UNCHANGED <<session, up>>
          /\ worker' = [worker EXCEPT ![w] = "wait"]
          /\ health' = [health EXCEPT
               !.state = IF health.active = {} THEN "backoff" ELSE @]
      BY <1>3 DEF SessionEnded, Go
    <2>2. PICK state \in {"backoff", health.state} :
            /\ state = "backoff" => health.active = {}
                                      \/ state = health.state
            /\ health' = [state |-> state, active |-> health.active,
                          authenticated |-> health.authenticated]
      BY <2>1, HealthFields
    <2>3. QED
      BY <2>1, <2>2, StateStep, HealthFields DEF Places, OpenPlaces, States
  <1>4. QED BY <1>2, <1>3 DEF SessionEnded

-----------------------------------------------------------------------------
(* Local interfaces, the channel and the surroundings.                     *)

LEMMA LocalStep ==
  ASSUME IInv, NEW l \in Locals, LocalWork(l)
  PROVE  IInv'
  <1>1. l \in Workers /\ l \notin Interfaces /\ Sessions
    BY InterfacesAssumption DEF Workers, IInv
  <1>2. UNCHANGED <<health, up>>
    BY DEF LocalWork, CheckLocal, ReceiveLocal, ReadFails, ExpireLocal,
           LocalEnds
  <1>3. \E place \in {"drained", "receive", "expire_local", "failed",
                      "poll", "stopped"} :
          worker' = [worker EXCEPT ![l] = place]
    BY DEF LocalWork, CheckLocal, ReceiveLocal, ReadFails, ExpireLocal,
           LocalEnds, Go
  <1>4. \/ \E o : session' = [session EXCEPT ![l].observer = o]
        \/ \E m, o : session' = [session EXCEPT ![l].delivered = m,
                                                ![l].observer = o]
        \/ session' = [session EXCEPT ![l] = NoSession]
        \/ session' = session
    BY DEF LocalWork, CheckLocal, ReceiveLocal, ReadFails, ExpireLocal,
           LocalEnds, Close
  <1>5. KeepsActive
    BY <1>1, <1>4, KeepsObserver, KeepsFrame, KeepsClosed, SameSessions
  <1>6. QED BY <1>1, <1>2, <1>3, <1>5, SameRecord DEF Places

LEMMA SendStep ==
  ASSUME IInv, NEW w, Send(w) \/ SendFails(w)
  PROVE  IInv'
  <1>1. /\ Sessions /\ UNCHANGED <<health, up>>
        /\ worker \in [Workers -> Places] /\ health \in Records
    BY DEF IInv, Record, Send, SendFails
  <1>2. \E o : session' = [session EXCEPT ![w].observer.out = o]
    BY DEF Send, SendFails
  <1>3. KeepsActive
    BY <1>1, <1>2, KeepsOutbox
  <1>4. \/ worker' = worker
        \/ w \in Locals /\ worker' = [worker EXCEPT ![w] = "stopped"]
        \/ /\ worker[w] \in {"deliver", "stream"}
           /\ worker' = [worker EXCEPT ![w] = "drain"]
    BY DEF Send, SendFails, EndStream, Go
  <1>5. worker' \in [Workers -> Places]
    BY <1>1, <1>4 DEF Places
  <1>6. \A u \in Interfaces :
          worker'[u] # worker[u] =>
            worker[u] \in {"deliver", "stream"} /\ worker'[u] = "drain"
    BY <1>1, <1>4, InterfacesAssumption DEF Workers
  <1>7. StatusTruthful'
    BY <1>1 DEF IInv, StatusTruthful
  <1>8. QED
    BY <1>1, <1>3, <1>5, <1>6, <1>7, SameCounts DEF OpenPlaces

LEMMA OtherStep ==
  ASSUME IInv, UNCHANGED workers
  PROVE  IInv'
  <1>1. UNCHANGED <<health, up, worker, session>>
    BY DEF workers
  <1>2. Sessions' /\ Record' /\ ActiveWhere'
    BY <1>1 DEF IInv, Sessions, Record, ActiveWhere
  <1>3. UpMatchesActive' /\ StatusTruthful'
    BY <1>1 DEF IInv, UpMatchesActive, StatusTruthful
  <1>4. QED BY <1>2, <1>3 DEF IInv

-----------------------------------------------------------------------------
(* The invariant and what follows from it.                                 *)

LEMMA NextInvariant ==
  ASSUME IInv, [Next]_vars
  PROVE  IInv'
  <1>1. CASE \E w \in Interfaces \cap cast.workers : Work(w) \/ StreamEnds(w)
    BY <1>1, OpeningStep, StreamStep, InterfaceUpStep, CountUpStep,
       InterfaceDownStep, CountDownStep, PauseStep
    DEF Work
  <1>2. CASE \E l \in Locals \cap cast.workers : LocalWork(l)
    BY <1>2, LocalStep
  <1>3. CASE \E w \in cast.workers : Send(w) \/ SendFails(w)
    BY <1>3, SendStep
  <1>4. CASE \/ Process \/ FingerprintTick \/ ScannerSends \/ Finish
             \/ ProcessorEnds
             \/ RouterFails \/ RouterRecovers \/ Tick \/ Shutdown
    <2>1. UNCHANGED workers
      BY <1>4 DEF Process, FingerprintTick, ScannerSends, Finish,
           ProcessorEnds, RouterFails, RouterRecovers, Tick, Shutdown
    <2>2. QED BY <2>1, OtherStep
  <1>5. CASE UNCHANGED vars
    <2>1. UNCHANGED workers
      BY <1>5 DEF vars, workers
    <2>2. QED BY <2>1, OtherStep
  <1>6. QED BY <1>1, <1>2, <1>3, <1>4, <1>5 DEF Next

LEMMA Invariance == Spec => []IInv
  <1>1. Init => IInv
    BY InitInvariant
  <1>2. IInv /\ [Next]_vars => IInv'
    BY NextInvariant
  <1>3. QED BY <1>1, <1>2, PTL DEF Spec

(* However sessions of several workers begin and end, the counter of       *)
(* interfaces that are up is that of the health record, but for workers    *)
(* between their two updates, it never underflows, and an interface is in  *)
(* the record exactly while its session has delivered and is not closed    *)
(* (state.rs `fritzbox_interface_up`, `fritzbox_interface_down`).          *)
THEOREM UpMatchesActiveAlways == Spec => []UpMatchesActive
  <1>1. IInv => UpMatchesActive
    BY DEF IInv
  <1>2. QED BY <1>1, Invariance, PTL

(* While any interface captures, the shared record says authenticated and  *)
(* not that it waits, whatever the other workers run into (runtime.rs      *)
(* `run_fritzbox_capture`, state.rs).                                      *)
THEOREM StatusTruthfulAlways == Spec => []StatusTruthful
  <1>1. IInv => StatusTruthful
    BY DEF IInv
  <1>2. QED BY <1>1, Invariance, PTL

-----------------------------------------------------------------------------
(* What the observers of the workers do.  Observing is inductive: every    *)
(* observer is sound for the policy and the time.                          *)

Observing ==
  /\ cast \in Casts /\ now \in Nat
  /\ DOMAIN session = Workers
  /\ \A w \in Workers :
       /\ "observer" \in DOMAIN session[w]
       /\ Sound(session[w].observer, cast, now)

(* A step of the observers: each goes on, or a new one takes its place.    *)
Moves ==
  /\ DOMAIN session' = Workers
  /\ \A w \in Workers :
       /\ "observer" \in DOMAIN session'[w]
       /\ \/ session'[w].observer = NewObserver
          \/ Onward(session[w].observer, session'[w].observer, cast, now)

(* A step in which no packet of a flow goes from an observer.              *)
Keeps ==
  \A w \in Workers :
    Gone(session'[w].observer) = Gone(session[w].observer)

(* A step of one worker's session.                                         *)
Only(w) == \A v \in Workers \ {w} : session'[v] = session[v]

SameActive(w) ==
  "active" \in DOMAIN session[w] => session'[w].active = session[w].active

LEMMA NewSound ==
  ASSUME NEW c, NEW t \in Nat
  PROVE  Sound(NewObserver, c, t) /\ Gone(NewObserver) = 0
  <1>1. DOMAIN NewObserver = Names
    BY DEF NewObserver, Names
  <1>2. /\ NewObserver.flows = Empty /\ NewObserver.seen = Empty
        /\ NewObserver.told = Empty /\ NewObserver.out = <<>>
        /\ NewObserver.cleared = -1
        /\ NewObserver.passed = 0 /\ NewObserver.skipped = 0
    BY DEF NewObserver
  <1>3. DOMAIN Empty = {} /\ Empty = [k \in DOMAIN Empty |-> Empty[k]]
    BY DEF Empty
  <1>4. AtMost({}, MaxFlows) /\ AtMost({}, MaxSuppressed)
    BY AtMostNone, ObserverAssumption
  <1>5. Claims(NewObserver, t)
    BY <1>2, <1>3, <1>4 DEF Claims, Times
  <1>6. AllProper(NewObserver.out, c)
    BY <1>2, AllProperNone
  <1>7. Windows(NewObserver, c)
    BY <1>2, <1>3, <1>4 DEF Windows
  <1>8. Loaded(NewObserver) /\ Gone(NewObserver) = 0
    <2>1. DOMAIN NewObserver.flows = {} /\ DOMAIN NewObserver.out = {}
      BY <1>2, <1>3
    <2>2. /\ Counted(NewObserver.out) /\ Load(NewObserver.out) = 0
          /\ Load(NewObserver.flows) = 0
      BY <2>1, LoadNone
    <2>3. QED BY <1>2, <2>2 DEF Loaded, Gone
  <1>9. QED BY <1>1, <1>5, <1>6, <1>7, <1>8 DEF Sound, Fields

LEMMA SoundLater ==
  ASSUME NEW ob, NEW c, NEW t \in Nat, Sound(ob, c, t)
  PROVE  Sound(ob, c, t + 1)
  <1>1. SuppressFor \in Nat
    BY ObserverAssumption
  <1>2. Claims(ob, t + 1)
    BY <1>1 DEF Sound, Claims, Times
  <1>3. QED BY <1>2 DEF Sound

LEMMA MovesNowhere ==
  ASSUME Observing, UNCHANGED session
  PROVE  Moves /\ Keeps
  BY GoesNowhere DEF Observing, Moves, Keeps, Goes

LEMMA MovesOne ==
  ASSUME Observing, NEW w \in Workers, NEW s,
         session' = [session EXCEPT ![w] = s], "observer" \in DOMAIN s,
         \/ s.observer = NewObserver
         \/ Onward(session[w].observer, s.observer, cast, now)
  PROVE  /\ Moves /\ Only(w) /\ session'[w] = s
         /\ Gone(s.observer) = Gone(session[w].observer) => Keeps
  <1>1. /\ DOMAIN session' = Workers /\ session'[w] = s
        /\ \A v \in Workers : v # w => session'[v] = session[v]
    BY DEF Observing
  <1>2. \A v \in Workers :
          Onward(session[v].observer, session[v].observer, cast, now)
    BY GoesNowhere DEF Observing, Goes
  <1>3. QED BY <1>1, <1>2 DEF Moves, Observing, Keeps,
                              Only

LEMMA MovesNew ==
  ASSUME Observing, NEW w \in Workers,
         \/ session' = [session EXCEPT ![w] = NoSession]
         \/ \E stream : session' = [session EXCEPT
                                      ![w] = [NoSession EXCEPT
                                                !.stream = stream]]
  PROVE  /\ Moves /\ Only(w)
         /\ session'[w].observer = NewObserver /\ ~session'[w].active
         /\ session[w].observer = NewObserver => Keeps
  <1>1. PICK s : /\ session' = [session EXCEPT ![w] = s]
                 /\ "observer" \in DOMAIN s /\ s.observer = NewObserver
                 /\ ~s.active
    BY DEF NoSession
  <1>2. QED BY <1>1, MovesOne

LEMMA MovesGoing ==
  ASSUME Observing, NEW w \in Workers, NEW o,
         Goes(session[w].observer, o, cast, now),
         \/ session' = [session EXCEPT ![w].observer = o]
         \/ \E m : session' = [session EXCEPT ![w].delivered = m,
                                              ![w].observer = o]
         \/ \E f, m : session' = [session EXCEPT ![w].fresh = f,
                                    ![w].delivered = m, ![w].observer = o]
  PROVE  /\ Moves /\ Only(w) /\ Keeps
         /\ session'[w].observer = o
         /\ SameActive(w)
  <1>1. "observer" \in DOMAIN session[w] /\ w \in DOMAIN session
    BY DEF Observing
  <1>2. PICK s : /\ session' = [session EXCEPT ![w] = s]
                 /\ "observer" \in DOMAIN s /\ s.observer = o
                 /\ "active" \in DOMAIN session[w] =>
                      s.active = session[w].active
    <2>1. CASE session' = [session EXCEPT ![w].observer = o]
      <3>1. session' = [session EXCEPT ![w] = [session[w] EXCEPT
                                                 !.observer = o]]
        BY <2>1
      <3>2. PICK r : r = [session[w] EXCEPT !.observer = o]
        OBVIOUS
      <3>3. /\ "observer" \in DOMAIN r /\ r.observer = o
            /\ "active" \in DOMAIN session[w] =>
                 r.active = session[w].active
        BY <1>1, <3>2
      <3>4. QED BY <3>1, <3>2, <3>3
    <2>2. CASE \E m : session' = [session EXCEPT ![w].delivered = m,
                                                 ![w].observer = o]
      <3>1. PICK m : session' = [session EXCEPT ![w].delivered = m,
                                                ![w].observer = o]
        BY <2>2
      <3>2. session' = [session EXCEPT
                          ![w] = [session[w] EXCEPT !.delivered = m,
                                                    !.observer = o]]
        BY <1>1, <3>1
      <3>3. QED BY <1>1, <3>2
    <2>3. CASE \E f, m : session' = [session EXCEPT ![w].fresh = f,
                                       ![w].delivered = m,
                                       ![w].observer = o]
      <3>1. PICK f, m : session' = [session EXCEPT ![w].fresh = f,
                                      ![w].delivered = m,
                                      ![w].observer = o]
        BY <2>3
      <3>2. session' = [session EXCEPT
                          ![w] = [session[w] EXCEPT !.fresh = f,
                                    !.delivered = m, !.observer = o]]
        BY <1>1, <3>1
      <3>3. QED BY <1>1, <3>2
    <2>4. QED BY <2>1, <2>2, <2>3
  <1>3. /\ Onward(session[w].observer, s.observer, cast, now)
        /\ Gone(s.observer) = Gone(session[w].observer)
    BY <1>2 DEF Goes
  <1>4. QED BY <1>2, <1>3, MovesOne DEF SameActive

LEMMA MovesSent ==
  ASSUME Observing, NEW w \in Workers, NEW rest,
         session' = [session EXCEPT ![w].observer.out = rest],
         \/ rest = <<>>
         \/ session[w].observer.out # <<>>
              /\ rest = Tail(session[w].observer.out)
  PROVE  LET old == session[w].observer
             new == session'[w].observer
         IN /\ Moves /\ Only(w)
            /\ new.out = rest /\ new.flows = old.flows
            /\ new.passed = old.passed /\ new.skipped = old.skipped
            /\ SameActive(w)
  <1>1. PICK ob, o : /\ ob = session[w].observer
                     /\ o = [ob EXCEPT !.out = rest]
    OBVIOUS
  <1>2. PICK s : s = [session[w] EXCEPT !.observer = o]
    OBVIOUS
  <1>3. w \in DOMAIN session /\ "observer" \in DOMAIN session[w]
    BY DEF Observing
  <1>4. session' = [session EXCEPT ![w] = s]
    BY <1>1, <1>2
  <1>5. /\ "observer" \in DOMAIN s /\ s.observer = o
        /\ "active" \in DOMAIN session[w] =>
             s.active = session[w].active
    BY <1>2, <1>3
  <1>6. /\ Sound(ob, cast, now) /\ now \in Int
        /\ rest = <<>> \/ (ob.out # <<>> /\ rest = Tail(ob.out))
    BY <1>1 DEF Observing
  <1>7. /\ Onward(ob, o, cast, now)
        /\ o.out = rest /\ o.flows = ob.flows
        /\ o.passed = ob.passed /\ o.skipped = ob.skipped
    <2>1. Onward(ob, o, cast, now)
      BY <1>1, <1>6, SentGoes
    <2>2. /\ o.out = rest /\ o.flows = ob.flows
          /\ o.passed = ob.passed /\ o.skipped = ob.skipped
      BY <1>1, <1>6 DEF Sound, Fields, Names
    <2>3. QED BY <2>1, <2>2
  <1>8. Moves /\ Only(w)
    BY <1>1, <1>4, <1>5, <1>7, MovesOne
  <1>9. session'[w] = s
    BY <1>3, <1>4
  <1>10. QED BY <1>1, <1>5, <1>7, <1>8, <1>9 DEF SameActive

LEMMA SoundHere ==
  ASSUME Observing, NEW w \in Workers
  PROVE  Goes(session[w].observer, session[w].observer, cast, now)
  BY GoesNowhere DEF Observing

LEMMA MovesElsewhere ==
  ASSUME Observing, NEW w \in Workers, NEW d, NEW r, NEW f,
         session' = [session EXCEPT ![w].decoder = d, ![w].received = r,
                                    ![w].fresh = f]
  PROVE  /\ Moves /\ Only(w) /\ Keeps
         /\ session'[w].observer = session[w].observer
         /\ SameActive(w)
  <1>1. "observer" \in DOMAIN session[w] /\ w \in DOMAIN session
    BY DEF Observing
  <1>2. PICK s : s = [session[w] EXCEPT !.decoder = d, !.received = r,
                                        !.fresh = f]
    OBVIOUS
  <1>3. session' = [session EXCEPT ![w] = s]
    BY <1>1, <1>2
  <1>4. /\ "observer" \in DOMAIN s /\ s.observer = session[w].observer
        /\ "active" \in DOMAIN session[w] =>
             s.active = session[w].active
    BY <1>1, <1>2
  <1>5. Onward(session[w].observer, session[w].observer, cast, now)
    BY SoundHere DEF Goes
  <1>6. QED BY <1>3, <1>4, <1>5, MovesOne DEF SameActive

LEMMA MovesActive ==
  ASSUME Observing, NEW w \in Workers,
         session' = [session EXCEPT ![w].active = TRUE]
  PROVE  /\ Moves /\ Only(w) /\ Keeps
         /\ "active" \in DOMAIN session[w] => session'[w].active
         /\ session'[w].observer = session[w].observer
  <1>1. "observer" \in DOMAIN session[w] /\ w \in DOMAIN session
    BY DEF Observing
  <1>2. PICK s : s = [session[w] EXCEPT !.active = TRUE]
    OBVIOUS
  <1>3. session' = [session EXCEPT ![w] = s]
    BY <1>1, <1>2
  <1>4. /\ "observer" \in DOMAIN s /\ s.observer = session[w].observer
        /\ "active" \in DOMAIN session[w] => s.active
    BY <1>1, <1>2
  <1>5. Onward(session[w].observer, session[w].observer, cast, now)
    BY SoundHere DEF Goes
  <1>6. QED BY <1>3, <1>4, <1>5, MovesOne

LEMMA CastFacts ==
  ASSUME Observing
  PROVE  /\ cast.workers \subseteq Workers
         /\ \A f \in cast.frames : WellFormed(f)
         /\ Ordered(Hosts(cast))
         /\ \A o \in cast.scanned : o.packets = 0
  BY CastsAssumption DEF Observing, Workers

(* A session's observer comes with it and goes with it; between, whatever  *)
(* its worker does keeps every packet.                                     *)
Closing(w) == InterfaceDown(w) \/ (DrainFlows(w) /\ ~session[w].active)

LEMMA WorkMoves ==
  ASSUME Observing, NEW w \in Interfaces, Work(w) \/ StreamEnds(w)
  PROVE  Moves /\ Only(w) /\ (Keeps \/ StartCapture(w) \/ Closing(w))
  <1>1. w \in Workers
    BY DEF Workers
  <1>2. CASE UNCHANGED session
    BY <1>2, MovesNowhere DEF Only
  <1>3. CASE StartCapture(w) /\ ~UNCHANGED session
    <2>1. \E s : session' = [session EXCEPT ![w] = [NoSession EXCEPT
                                                       !.stream = s]]
      BY <1>3 DEF StartCapture
    <2>2. QED BY <1>1, <1>3, <2>1, MovesNew
  <1>4. CASE ReceiveChunk(w)
    <2> DEFINE n(size) ==
                 Min({size, StreamLength(session[w].stream)
                              - session[w].received})
               d(size) ==
                 Push(session[w].stream, session[w].decoder, n(size))
               fresh(size) ==
                 IF d(size).error = "none"
                 THEN d(size).taken - session[w].decoder.taken ELSE 0
    <2>1. PICK size \in cast.chunks :
            session' = [session EXCEPT ![w].decoder = d(size),
                          ![w].received = @ + n(size),
                          ![w].fresh = fresh(size)]
      BY <1>4 DEF ReceiveChunk
    <2> HIDE DEF n, d, fresh
    <2>2. session' = [session EXCEPT ![w].decoder = d(size),
                        ![w].received = session[w].received + n(size),
                        ![w].fresh = fresh(size)]
      BY <2>1
    <2>3. QED BY <1>1, <2>2, MovesElsewhere
  <1>5. CASE InterfaceUp(w)
    <2>1. session' = [session EXCEPT ![w].active = TRUE]
      BY <1>5 DEF InterfaceUp
    <2>2. QED BY <1>1, <2>1, MovesActive
  <1>6. CASE DeliverPacket(w)
    <2>1. PICK f \in cast.frames :
            session' = [session EXCEPT
                          ![w].fresh = @ - 1, ![w].delivered = @ + 1,
                          ![w].observer = HandleFrame(@, cast, f, now)]
      BY <1>6 DEF DeliverPacket
    <2>2. PICK o : o = HandleFrame(session[w].observer, cast, f, now)
      OBVIOUS
    <2>3. Goes(session[w].observer, o, cast, now)
      BY <1>1, <2>2, CastFacts, FrameGoes DEF Observing
    <2>4. session' = [session EXCEPT
                        ![w].fresh = session[w].fresh - 1,
                        ![w].delivered = session[w].delivered + 1,
                        ![w].observer = o]
      BY <2>1, <2>2
    <2>5. QED BY <1>1, <2>3, <2>4, MovesGoing
  <1>7. CASE ExpireFlows(w)
    <2>1. PICK o : o = Expire(session[w].observer, now)
      OBVIOUS
    <2>2. session' = [session EXCEPT ![w].observer = o]
      BY <1>7, <2>1 DEF ExpireFlows
    <2>3. Goes(session[w].observer, o, cast, now)
      BY <1>1, <2>1, ExpireGoes DEF Observing
    <2>4. QED BY <1>1, <2>2, <2>3, MovesGoing
  <1>8. CASE DrainFlows(w) /\ session[w].active
    <2>1. PICK o : o = Drain(session[w].observer)
      OBVIOUS
    <2>2. session' = [session EXCEPT ![w].observer = o]
      BY <1>8, <2>1 DEF DrainFlows
    <2>3. Goes(session[w].observer, o, cast, now)
      BY <1>1, <2>1, DrainGoes DEF Observing
    <2>4. QED BY <1>1, <2>2, <2>3, MovesGoing
  <1>9. CASE InterfaceDown(w) \/ (DrainFlows(w) /\ ~session[w].active)
    <2>1. session' = [session EXCEPT ![w] = NoSession]
      BY <1>9 DEF InterfaceDown, DrainFlows, Close
    <2>2. QED BY <1>1, <1>9, <2>1, MovesNew DEF Closing
  <1>10. \/ UNCHANGED session
         \/ StartCapture(w) \/ ReceiveChunk(w) \/ InterfaceUp(w)
         \/ DeliverPacket(w) \/ ExpireFlows(w) \/ DrainFlows(w)
         \/ InterfaceDown(w)
    BY DEF Work, StopAtTop, StartSession, LoadCredentials, Authenticate,
           Discover, StopStream, CountUp, ChunkDelivered, CountDown,
           SessionEnded, Wait, StreamEnds
  <1>11. QED
    BY <1>2, <1>3, <1>4, <1>5, <1>6, <1>7, <1>8, <1>9, <1>10

LEMMA LocalMoves ==
  ASSUME Observing, NEW l \in Locals, LocalWork(l)
  PROVE  Moves /\ Only(l) /\ (Keeps \/ LocalEnds(l))
  <1>1. l \in Workers
    BY DEF Workers
  <1>2. CASE UNCHANGED session
    BY <1>2, MovesNowhere DEF Only
  <1>3. CASE CheckLocal(l) /\ shutdown
    <2>1. PICK o : o = Drain(session[l].observer)
      OBVIOUS
    <2>2. session' = [session EXCEPT ![l].observer = o]
      BY <1>3, <2>1 DEF CheckLocal
    <2>3. Goes(session[l].observer, o, cast, now)
      BY <1>1, <2>1, DrainGoes DEF Observing
    <2>4. QED BY <1>1, <2>2, <2>3, MovesGoing
  <1>4. CASE ReceiveLocal(l) /\ ~UNCHANGED session
    <2>1. PICK f \in cast.frames :
            session' = [session EXCEPT
                          ![l].delivered = @ + 1,
                          ![l].observer = HandleFrame(@, cast, f, now)]
      BY <1>4 DEF ReceiveLocal
    <2>2. PICK o : o = HandleFrame(session[l].observer, cast, f, now)
      OBVIOUS
    <2>3. Goes(session[l].observer, o, cast, now)
      BY <1>1, <2>2, CastFacts, FrameGoes DEF Observing
    <2>4. session' = [session EXCEPT
                        ![l].delivered = session[l].delivered + 1,
                        ![l].observer = o]
      BY <2>1, <2>2
    <2>5. QED BY <1>1, <2>3, <2>4, MovesGoing
  <1>5. CASE ExpireLocal(l)
    <2>1. PICK o : o = Expire(session[l].observer, now)
      OBVIOUS
    <2>2. session' = [session EXCEPT ![l].observer = o]
      BY <1>5, <2>1 DEF ExpireLocal
    <2>3. Goes(session[l].observer, o, cast, now)
      BY <1>1, <2>1, ExpireGoes DEF Observing
    <2>4. QED BY <1>1, <2>2, <2>3, MovesGoing
  <1>6. CASE LocalEnds(l)
    <2>1. session' = [session EXCEPT ![l] = NoSession]
      BY <1>6 DEF LocalEnds, Close
    <2>2. QED BY <1>1, <1>6, <2>1, MovesNew
  <1>7. \/ UNCHANGED session
        \/ CheckLocal(l) /\ shutdown
        \/ ReceiveLocal(l) \/ ExpireLocal(l) \/ LocalEnds(l)
    BY DEF LocalWork, CheckLocal, ReadFails
  <1>8. QED BY <1>2, <1>3, <1>4, <1>5, <1>6, <1>7

LEMMA SendMoves ==
  ASSUME Observing, NEW w \in cast.workers, Send(w) \/ SendFails(w)
  PROVE  Moves
  <1>1. w \in Workers
    BY CastFacts
  <1>2. CASE Send(w)
    <2>1. /\ session' = [session EXCEPT ![w].observer.out = Tail(@)]
          /\ session[w].observer.out # <<>>
      BY <1>2 DEF Send, AllSent, Outbox
    <2>2. PICK rest : rest = Tail(session[w].observer.out)
      OBVIOUS
    <2>3. session' = [session EXCEPT ![w].observer.out = rest]
      BY <2>1, <2>2
    <2>4. QED BY <1>1, <2>1, <2>2, <2>3, MovesSent
  <1>3. CASE SendFails(w)
    <2>1. session' = [session EXCEPT ![w].observer.out = <<>>]
      BY <1>3 DEF SendFails
    <2>2. QED BY <1>1, <2>1, MovesSent
  <1>4. QED BY <1>2, <1>3

(* Every step of the system is a step of the observers.                    *)
LEMMA NextMoves ==
  ASSUME Observing, [Next]_vars
  PROVE  Moves
  <1>1. CASE \E w \in Interfaces \cap cast.workers : Work(w) \/ StreamEnds(w)
    BY <1>1, WorkMoves
  <1>2. CASE \E l \in Locals \cap cast.workers : LocalWork(l)
    BY <1>2, LocalMoves
  <1>3. CASE \E w \in cast.workers : Send(w) \/ SendFails(w)
    BY <1>3, SendMoves
  <1>4. CASE \/ Process \/ FingerprintTick \/ ScannerSends \/ Finish
             \/ ProcessorEnds \/ RouterFails \/ RouterRecovers
             \/ Tick \/ Shutdown \/ UNCHANGED vars
    <2>1. UNCHANGED session
      BY <1>4 DEF Process, FingerprintTick, ScannerSends, Finish,
           ProcessorEnds, RouterFails, RouterRecovers, Tick, Shutdown,
           workers, vars
    <2>2. QED BY <2>1, MovesNowhere
  <1>5. QED BY <1>1, <1>2, <1>3, <1>4 DEF Next

LEMMA NextClock ==
  ASSUME [Next]_vars
  PROVE  /\ cast' = cast
         /\ now' = now \/ (now' = now + 1 /\ session' = session)
  <1>1. CASE \E w \in Interfaces \cap cast.workers : Work(w) \/ StreamEnds(w)
    <2>1. UNCHANGED world
      BY <1>1 DEF Work, StopAtTop, StartSession, LoadCredentials,
           Authenticate, Discover, StartCapture, ReceiveChunk, StopStream,
           InterfaceUp, CountUp, DeliverPacket, ChunkDelivered, ExpireFlows,
           DrainFlows, InterfaceDown, CountDown, SessionEnded, Wait,
           StreamEnds
    <2>2. QED BY <2>1 DEF world
  <1>2. CASE \E l \in Locals \cap cast.workers : LocalWork(l)
    BY <1>2 DEF LocalWork, CheckLocal, ReceiveLocal, ReadFails, ExpireLocal,
         LocalEnds, world
  <1>3. CASE \E w \in cast.workers : Send(w) \/ SendFails(w)
    BY <1>3 DEF Send, SendFails, world
  <1>4. CASE \/ Process \/ FingerprintTick \/ ScannerSends \/ Finish
             \/ ProcessorEnds \/ RouterFails \/ RouterRecovers
             \/ Shutdown \/ UNCHANGED vars
    BY <1>4 DEF Process, FingerprintTick, ScannerSends, Finish,
         ProcessorEnds, RouterFails, RouterRecovers, Shutdown, world, vars
  <1>5. CASE Tick
    BY <1>5 DEF Tick, workers
  <1>6. QED BY <1>1, <1>2, <1>3, <1>4, <1>5 DEF Next

LEMMA ObservingInvariant ==
  ASSUME Observing, [Next]_vars
  PROVE  Observing'
  <1>1. Moves /\ now \in Nat
    BY NextMoves DEF Observing
  <1>2. cast' = cast
    BY NextClock
  <1>3. CASE now' = now
    <2>1. \A w \in Workers :
            /\ "observer" \in DOMAIN session'[w]
            /\ Sound(session'[w].observer, cast, now)
      BY <1>1, NewSound DEF Moves, Onward
    <2>2. QED BY <1>1, <1>2, <1>3, <2>1 DEF Observing, Moves
  <1>4. CASE now' = now + 1 /\ session' = session
    BY <1>1, <1>2, <1>4, SoundLater DEF Observing
  <1>5. QED BY <1>3, <1>4, NextClock

LEMMA ObservingAlways == Spec => []Observing
  <1>1. Init => Observing
    <2> SUFFICES ASSUME Init PROVE Observing
      OBVIOUS
    <2>1. /\ cast \in Casts /\ now = 0
          /\ session = [w \in Workers |-> NoSession]
      BY DEF Init, Workers
    <2>2. "observer" \in DOMAIN NoSession /\ NoSession.observer = NewObserver
      BY DEF NoSession
    <2>3. Sound(NewObserver, cast, 0)
      BY NewSound
    <2>4. QED BY <2>1, <2>2, <2>3 DEF Observing
  <1>2. Observing /\ [Next]_vars => Observing'
    BY ObservingInvariant
  <1>3. QED BY <1>1, <1>2, PTL DEF Spec

(* Whatever frames arrive, and however sessions end, an observer repeats a *)
(* claim only after SuppressFor or when a full cache was emptied since,    *)
(* and withholds one only while it has told it (observer.rs                *)
(* `Suppressor::allow`, `Suppressor::prune`).                              *)
THEOREM ClaimsPacedAlways == Spec => ClaimsPaced
  <1> DEFINE Pace ==
        \A w \in cast.workers :
          LET old == session[w].observer
              new == session'[w].observer
          IN new # NewObserver =>
               /\ \A key \in DOMAIN old.told :
                    new.told[key] # old.told[key] =>
                      \/ new.told[key] - old.told[key] >= SuppressFor
                      \/ new.cleared >= old.told[key]
               /\ \A key \in DOMAIN new.seen :
                    key \in DOMAIN new.told
                      /\ new.seen[key] = new.told[key]
  <1>1. ASSUME Observing, [Next]_vars
        PROVE  Pace
    <2> SUFFICES ASSUME NEW w \in cast.workers,
                        session'[w].observer # NewObserver
                 PROVE  LET old == session[w].observer
                            new == session'[w].observer
                        IN /\ \A key \in DOMAIN old.told :
                                new.told[key] # old.told[key] =>
                                  \/ new.told[key] - old.told[key]
                                       >= SuppressFor
                                  \/ new.cleared >= old.told[key]
                           /\ \A key \in DOMAIN new.seen :
                                key \in DOMAIN new.told
                                  /\ new.seen[key] = new.told[key]
      OBVIOUS
    <2>1. w \in Workers
      BY <1>1, CastFacts
    <2>2. Onward(session[w].observer, session'[w].observer, cast, now)
      BY <1>1, <2>1, NextMoves DEF Moves
    <2>3. QED BY <2>2 DEF Onward, Sound, Claims, Paced
  <1>2. Observing /\ [Next]_vars => [Pace]_vars
    BY <1>1
  <1>3. QED
    BY <1>2, ObservingAlways, PTL DEF Spec, ClaimsPaced

-----------------------------------------------------------------------------
(* What reaches the registry.  Concealing is inductive. *)

LEMMA AllProperTail ==
  ASSUME NEW s, NEW c, AllProper(s, c), s # <<>>
  PROVE  AllProper(Tail(s), c) /\ Proper(Head(s), c)
  <1>1. PICK U : U = Range(s)
    OBVIOUS
  <1>2. s \in Seq(U)
    BY <1>1 DEF AllProper, IsSequence
  <1>3. PICK r : r = Tail(s)
    OBVIOUS
  <1>4. r \in Seq(U) /\ Head(s) \in U
    BY <1>2, <1>3
  <1>5. IsSequence(r) /\ Range(r) \subseteq U
    BY <1>4, SequenceOf
  <1>6. QED BY <1>1, <1>3, <1>4, <1>5 DEF AllProper

LEMMA AllProperAppended ==
  ASSUME NEW s, NEW c, AllProper(s, c), NEW o, Proper(o, c)
  PROVE  AllProper(Append(s, o), c)
  <1>1. PICK U : U = Range(s) \cup {o}
    OBVIOUS
  <1>2. s \in Seq(U) /\ o \in U
    BY <1>1 DEF AllProper, IsSequence
  <1>3. PICK r : r = Append(s, o)
    OBVIOUS
  <1>4. r \in Seq(U)
    BY <1>2, <1>3
  <1>5. IsSequence(r) /\ Range(r) \subseteq U
    BY <1>4, SequenceOf
  <1>6. QED BY <1>1, <1>3, <1>5 DEF AllProper

LEMMA KeptDomains ==
  ASSUME NEW d, NEW t
  PROVE  /\ DOMAIN EvaluateDirty(d) = DOMAIN d
         /\ DOMAIN Prune(d, t) \subseteq DOMAIN d
  BY DEF EvaluateDirty, Prune, Restrict

LEMMA TouchDomain ==
  ASSUME NEW d, NEW key, NEW ip, NEW mac, NEW t
  PROVE  DOMAIN Touch(d, key, ip, mac, t) \subseteq DOMAIN d \cup {key}
  <1> DEFINE tidy == IF /\ key \notin DOMAIN d
                        /\ Cardinality(DOMAIN d) >= MaxDevices
                     THEN Prune(d, t) ELSE d
             new == Touch(d, key, ip, mac, t)
  <1>1. DOMAIN tidy \subseteq DOMAIN d
    BY KeptDomains
  <1>2. \/ \E e : new = [d EXCEPT ![key] = e]
        \/ new = tidy
        \/ \E e : new = [k \in DOMAIN tidy \cup {key} |->
                           IF k = key THEN e ELSE tidy[k]]
    BY DEF Touch
  <1> HIDE DEF tidy, new
  <1>3. DOMAIN new \subseteq DOMAIN d \cup {key}
    BY <1>1, <1>2
  <1>4. QED BY <1>3 DEF new

LEMMA ObserveDomain ==
  ASSUME NEW d, NEW o, NEW t
  PROVE  \/ DOMAIN ObserveDevice(d, o, t) = DOMAIN d
         \/ /\ o.kind \in AboutDevice
            /\ DOMAIN ObserveDevice(d, o, t)
                 \subseteq DOMAIN d \cup {KeyOf(o)}
  <1>1. CASE o.kind \notin AboutDevice
    BY <1>1 DEF ObserveDevice
  <1>2. CASE o.kind \in AboutDevice
    <2>1. PICK mac :
            LET touched == Touch(d, KeyOf(o), o.ip, mac, t) IN
            \/ ObserveDevice(d, o, t) = touched
            \/ \E e : ObserveDevice(d, o, t) =
                        [touched EXCEPT ![KeyOf(o)] = e]
      BY <1>2 DEF ObserveDevice
    <2>2. PICK touched : touched = Touch(d, KeyOf(o), o.ip, mac, t)
      OBVIOUS
    <2>3. DOMAIN ObserveDevice(d, o, t) = DOMAIN touched
      BY <2>1, <2>2
    <2>4. QED BY <1>2, <2>2, <2>3, TouchDomain
  <1>3. QED BY <1>1, <1>2

(* A device known by its address is known from an observation of it.       *)
LEMMA KeyProper ==
  ASSUME NEW o, NEW c, Proper(o, c), o.kind \in AboutDevice,
         KeyOf(o)[1] = "ip"
  PROVE  KeyOf(o)[2] \notin c.excluded
  <1>1. CASE o.kind = "asset" /\ o.mac # "none"
    BY <1>1 DEF KeyOf, MacKey
  <1>2. CASE o.kind = "asset" /\ o.mac = "none"
    BY <1>2 DEF KeyOf, IpKey, Proper
  <1>3. CASE o.kind = "dhcp"
    BY <1>3 DEF KeyOf, MacKey
  <1>4. CASE o.kind \in {"service", "advertises"}
    BY <1>4 DEF KeyOf, IpKey, Proper
  <1>5. QED BY <1>1, <1>2, <1>3, <1>4 DEF AboutDevice

Concealing ==
  /\ AllProper(channel, cast)
  /\ \A k \in DOMAIN devices : k[1] = "ip" => k[2] \notin cast.excluded

(* What a scan reports is not of an excluded address either.               *)
ScansConceal ==
  \A c \in Casts : \A o \in c.scanned : Proper(o, c)

LEMMA ChannelStep ==
  ASSUME [Next]_vars
  PROVE  /\ \/ channel' = channel
            \/ channel' = <<>>
            \/ channel # <<>> /\ channel' = Tail(channel)
            \/ \E o \in cast.scanned : channel' = Append(channel, o)
            \/ \E w \in cast.workers :
                 /\ session[w].observer.out # <<>>
                 /\ channel' = Append(channel,
                                      Head(session[w].observer.out))
         /\ \/ channel' \in {channel, <<>>}
            \/ channel # <<>> /\ channel' = Tail(channel)
            \/ /\ Len(channel) < ChannelSize
               /\ \E o : channel' = Append(channel, o)
  <1>1. CASE \E w \in Interfaces \cap cast.workers : Work(w) \/ StreamEnds(w)
    <2>1. UNCHANGED channel
      BY <1>1 DEF Work, StopAtTop, StartSession, LoadCredentials,
           Authenticate, Discover, StartCapture, ReceiveChunk, StopStream,
           InterfaceUp, CountUp, DeliverPacket, ChunkDelivered, ExpireFlows,
           DrainFlows, InterfaceDown, CountDown, SessionEnded, Wait,
           StreamEnds, Close, sink
    <2>2. QED BY <2>1
  <1>2. CASE \E l \in Locals \cap cast.workers : LocalWork(l)
    BY <1>2 DEF LocalWork, CheckLocal, ReceiveLocal, ReadFails, ExpireLocal,
         LocalEnds, Close, sink
  <1>3. CASE \E w \in cast.workers : Send(w) \/ SendFails(w)
    BY <1>3 DEF Send, SendFails, AllSent, Outbox, sink
  <1>4. CASE Process \/ ScannerSends \/ ProcessorEnds
    BY <1>4 DEF Process, ScannerSends, ProcessorEnds
  <1>5. CASE \/ FingerprintTick \/ Finish \/ RouterFails
             \/ RouterRecovers \/ Tick \/ Shutdown \/ UNCHANGED vars
    BY <1>5 DEF FingerprintTick, Finish, RouterFails, RouterRecovers, Tick,
         Shutdown, sink, vars
  <1>6. QED BY <1>1, <1>2, <1>3, <1>4, <1>5 DEF Next

LEMMA DevicesStep ==
  ASSUME [Next]_vars
  PROVE  \/ DOMAIN devices' \subseteq DOMAIN devices
         \/ /\ channel # <<>>
            /\ devices' = ObserveDevice(devices, Head(channel), now)
  <1>1. CASE \E w \in Interfaces \cap cast.workers : Work(w) \/ StreamEnds(w)
    <2>1. UNCHANGED world
      BY <1>1 DEF Work, StopAtTop, StartSession, LoadCredentials,
           Authenticate, Discover, StartCapture, ReceiveChunk, StopStream,
           InterfaceUp, CountUp, DeliverPacket, ChunkDelivered, ExpireFlows,
           DrainFlows, InterfaceDown, CountDown, SessionEnded, Wait,
           StreamEnds
    <2>2. QED BY <2>1 DEF world
  <1>2. CASE \E l \in Locals \cap cast.workers : LocalWork(l)
    BY <1>2 DEF LocalWork, CheckLocal, ReceiveLocal, ReadFails, ExpireLocal,
         LocalEnds, world
  <1>3. CASE \E w \in cast.workers : Send(w) \/ SendFails(w)
    BY <1>3 DEF Send, SendFails, world
  <1>4. CASE Process
    BY <1>4 DEF Process
  <1>5. CASE FingerprintTick \/ Finish
    <2>1. \/ devices' = EvaluateDirty(Prune(devices, now))
          \/ devices' = EvaluateDirty(devices)
      BY <1>5 DEF FingerprintTick, Finish
    <2>2. DOMAIN EvaluateDirty(Prune(devices, now)) \subseteq DOMAIN devices
      BY KeptDomains
    <2>3. QED BY <2>1, <2>2, KeptDomains
  <1>6. CASE \/ ScannerSends \/ ProcessorEnds \/ RouterFails
             \/ RouterRecovers \/ Tick \/ Shutdown \/ UNCHANGED vars
    BY <1>6 DEF ScannerSends, ProcessorEnds, RouterFails, RouterRecovers,
         Tick, Shutdown, world, vars
  <1>7. QED BY <1>1, <1>2, <1>3, <1>4, <1>5, <1>6 DEF Next

LEMMA ConcealingInvariant ==
  ASSUME ScansConceal, Observing, Concealing, [Next]_vars
  PROVE  Concealing'
  <1>1. cast' = cast /\ cast \in Casts
    BY NextClock DEF Observing
  <1>2. AllProper(channel', cast)
    <2>1. CASE channel' = channel
      BY <2>1 DEF Concealing
    <2>2. CASE channel' = <<>>
      BY <2>2, AllProperNone
    <2>3. CASE channel # <<>> /\ channel' = Tail(channel)
      BY <2>3, AllProperTail DEF Concealing
    <2>4. CASE \E o \in cast.scanned : channel' = Append(channel, o)
      BY <1>1, <2>4, AllProperAppended DEF Concealing, ScansConceal
    <2>5. CASE \E w \in cast.workers :
                 /\ session[w].observer.out # <<>>
                 /\ channel' = Append(channel,
                                      Head(session[w].observer.out))
      <3>1. PICK w \in cast.workers :
              /\ session[w].observer.out # <<>>
              /\ channel' = Append(channel, Head(session[w].observer.out))
        BY <2>5
      <3>2. AllProper(session[w].observer.out, cast)
        BY CastFacts DEF Observing, Sound
      <3>3. Proper(Head(session[w].observer.out), cast)
        BY <3>1, <3>2, AllProperTail
      <3>4. QED BY <3>1, <3>3, AllProperAppended DEF Concealing
    <2>6. QED BY <2>1, <2>2, <2>3, <2>4, <2>5, ChannelStep
  <1>3. \A k \in DOMAIN devices' : k[1] = "ip" => k[2] \notin cast.excluded
    <2>1. CASE DOMAIN devices' \subseteq DOMAIN devices
      BY <2>1 DEF Concealing
    <2>2. CASE /\ channel # <<>>
               /\ devices' = ObserveDevice(devices, Head(channel), now)
      <3>1. PICK o : o = Head(channel)
        OBVIOUS
      <3>2. Proper(o, cast)
        BY <2>2, <3>1, AllProperTail DEF Concealing
      <3>3. \/ DOMAIN devices' = DOMAIN devices
            \/ /\ o.kind \in AboutDevice
               /\ DOMAIN devices' \subseteq DOMAIN devices \cup {KeyOf(o)}
        BY <2>2, <3>1, ObserveDomain
      <3>4. o.kind \in AboutDevice /\ KeyOf(o)[1] = "ip"
              => KeyOf(o)[2] \notin cast.excluded
        BY <3>2, KeyProper
      <3>5. QED BY <3>3, <3>4 DEF Concealing
    <2>3. QED BY <2>1, <2>2, DevicesStep
  <1>4. QED BY <1>1, <1>2, <1>3 DEF Concealing

(* If no scan reports an excluded address, then nothing on its way to the  *)
(* processor, and no device the registry knows by an address, is of an     *)
(* address the operator excluded, but for what DHCP says (observer.rs      *)
(* `exclude_clients`).  A scan has a list of exclusions of its own         *)
(* (`active.exclude`), which is what the hypothesis is about.              *)
THEOREM ExcludedHiddenAlways ==
  ASSUME ScansConceal
  PROVE  Spec => []ExcludedHidden
  <1>1. Init => Concealing
    <2> SUFFICES ASSUME Init PROVE Concealing
      OBVIOUS
    <2>1. channel = <<>> /\ devices = Empty
      BY DEF Init
    <2>2. DOMAIN devices = {}
      BY <2>1 DEF Empty
    <2>3. QED BY <2>1, <2>2, AllProperNone DEF Concealing
  <1>2. Observing /\ Concealing /\ [Next]_vars => Concealing'
    BY ConcealingInvariant
  <1>3. Concealing => ExcludedHidden
    <2> SUFFICES ASSUME Concealing PROVE ExcludedHidden
      OBVIOUS
    <2>1. ASSUME NEW n \in DOMAIN channel, channel[n].by # "dhcp"
          PROVE  Addresses(channel[n]) \cap cast.excluded = {}
      <3>1. Proper(channel[n], cast)
        BY DEF Concealing, AllProper, Range
      <3>2. QED BY <2>1, <3>1 DEF Proper, Addresses
    <2>2. QED BY <2>1 DEF ExcludedHidden, Concealing
  <1>4. QED BY <1>1, <1>2, <1>3, ObservingAlways, PTL DEF Spec

-----------------------------------------------------------------------------
(* Fingerprints.  Only observations change what is known of a device, and  *)
(* the evaluation looks at every device that one has changed.              *)
Fingerprinted ==
  /\ Entries(devices)
  /\ processor = "finished" => \A k \in DOMAIN devices : ~devices[k].dirty

LEMMA RegistryStep ==
  ASSUME [Next]_vars
  PROVE  \/ /\ devices' = devices
            /\ processor' = processor \/ processor' = "gone"
         \/ /\ processor' = "running"
            /\ devices' = ObserveDevice(devices, Head(channel), now)
         \/ devices' = EvaluateDirty(Prune(devices, now))
         \/ devices' = EvaluateDirty(devices)
  <1>1. CASE \E w \in Interfaces \cap cast.workers : Work(w) \/ StreamEnds(w)
    <2>1. UNCHANGED world
      BY <1>1 DEF Work, StopAtTop, StartSession, LoadCredentials,
           Authenticate, Discover, StartCapture, ReceiveChunk, StopStream,
           InterfaceUp, CountUp, DeliverPacket, ChunkDelivered, ExpireFlows,
           DrainFlows, InterfaceDown, CountDown, SessionEnded, Wait,
           StreamEnds
    <2>2. QED BY <2>1 DEF world
  <1>2. CASE \E l \in Locals \cap cast.workers : LocalWork(l)
    BY <1>2 DEF LocalWork, CheckLocal, ReceiveLocal, ReadFails, ExpireLocal,
         LocalEnds, world
  <1>3. CASE \E w \in cast.workers : Send(w) \/ SendFails(w)
    BY <1>3 DEF Send, SendFails, world
  <1>4. CASE Process
    BY <1>4 DEF Process
  <1>5. CASE FingerprintTick \/ Finish
    BY <1>5 DEF FingerprintTick, Finish
  <1>6. CASE \/ ScannerSends \/ ProcessorEnds \/ RouterFails
             \/ RouterRecovers \/ Tick \/ Shutdown \/ UNCHANGED vars
    BY <1>6 DEF ScannerSends, ProcessorEnds, RouterFails, RouterRecovers,
         Tick, Shutdown, world, vars
  <1>7. QED BY <1>1, <1>2, <1>3, <1>4, <1>5, <1>6 DEF Next

LEMMA FingerprintedInvariant ==
  ASSUME Fingerprinted, [Next]_vars
  PROVE  Fingerprinted'
  <1>1. CASE /\ devices' = devices
             /\ processor' = processor \/ processor' = "gone"
    BY <1>1 DEF Fingerprinted, Entries
  <1>2. CASE /\ processor' = "running"
             /\ devices' = ObserveDevice(devices, Head(channel), now)
    <2>1. Entries(devices')
      BY <1>2, ObserveKeeps DEF Fingerprinted
    <2>2. QED BY <1>2, <2>1 DEF Fingerprinted, Entries
  <1>3. CASE \E d : /\ Entries(d) /\ devices' = EvaluateDirty(d)
    <2>1. /\ Entries(devices')
          /\ \A k \in DOMAIN devices' : ~devices'[k].dirty
      BY <1>3, EvaluateKeeps
    <2>2. QED BY <2>1 DEF Fingerprinted, Entries
  <1>4. Entries(Prune(devices, now)) /\ Entries(devices)
    BY DEF Fingerprinted, Entries, Prune, Restrict
  <1>5. QED BY <1>1, <1>2, <1>3, <1>4, RegistryStep

(* What the registry knows of a device and has not marked for evaluation   *)
(* is no stronger than what was told of it, and at the end nothing is      *)
(* marked: for any signatures, any observations in any order, and whatever *)
(* is forgotten in between (registry.rs `observe`, `evaluate_dirty`,       *)
(* engine.rs `evaluate`).                                                  *)
THEOREM FingerprintsToldAlways == Spec => []FingerprintsTold
  <1>1. Init => Fingerprinted
    BY DEF Init, Fingerprinted, Entries, Empty
  <1>2. Fingerprinted /\ [Next]_vars => Fingerprinted'
    BY FingerprintedInvariant
  <1>3. Fingerprinted => FingerprintsTold
    BY DEF Fingerprinted, FingerprintsTold, Entries, Entry, Told
  <1>4. QED BY <1>1, <1>2, <1>3, PTL DEF Spec

-----------------------------------------------------------------------------
(* The packets of flows.  Until the processor goes, what has left the      *)
(* observers and has not arrived is on its way (Balanced).  That a session *)
(* ends, or a worker, without a packet lost rests on where they can be     *)
(* then (Placed): the windows were handed out and all of it was sent.      *)

Settled(ob) == ob.out = <<>> /\ DOMAIN ob.flows = {}

InterfacePlaced(w) ==
  LET ob == session[w].observer IN
  /\ worker[w] \notin OpenPlaces => ob = NewObserver
  /\ ~session[w].active => Settled(ob)
  /\ worker[w] = "lower" => DOMAIN ob.flows = {}

LocalPlaced(l) ==
  LET ob == session[l].observer IN
  /\ worker[l] \in {"absent", "stopped"} => ob = NewObserver
  /\ worker[l] \in {"receive", "failed"} => ob.out = <<>>
  /\ worker[l] = "drained" => DOMAIN ob.flows = {}

Ended == {"stopped", "failed", "absent"}

Placed ==
  /\ \A w \in Interfaces : InterfacePlaced(w)
  /\ \A l \in Locals : LocalPlaced(l)
  /\ processor = "finished" => \A w \in Workers : worker[w] \in Ended

Missing == Sum([w \in Workers |-> Gone(session[w].observer)], Workers)

Balanced ==
  /\ IsSequence(channel) /\ Counted(channel) /\ owed \in Int
  /\ owed + Missing = Load(channel)

Conserving ==
  /\ processor \in {"running", "gone", "finished"}
  /\ processor = "gone" \/ (Placed /\ Balanced)

LEMMA NewSettled == Settled(NewObserver)
  BY DEF Settled, NewObserver, Empty

LEMMA GoneType ==
  ASSUME NEW ob, NEW c, NEW t, Sound(ob, c, t)
  PROVE  /\ Gone(ob) \in Int
         /\ ob.passed \in Int /\ ob.skipped \in Int
         /\ Load(ob.out) \in Int /\ Load(ob.flows) \in Int
  BY WindowsCounted, LoadType DEF Sound, Loaded, Gone

LEMMA GoneSettled ==
  ASSUME NEW ob, NEW c, NEW t, Sound(ob, c, t), Settled(ob)
  PROVE  Gone(ob) = ob.passed - ob.skipped
  <1>1. ob.passed \in Int /\ ob.skipped \in Int
    BY GoneType
  <1>2. DOMAIN ob.out = {} /\ DOMAIN ob.flows = {}
    BY DEF Settled
  <1>3. Load(ob.out) = 0 /\ Load(ob.flows) = 0
    BY <1>2, LoadNone
  <1>4. QED BY <1>1, <1>3 DEF Gone

LEMMA MissingType ==
  ASSUME Observing
  PROVE  IsFiniteSet(Workers) /\ Missing \in Int
  <1>1. PICK W : W = Workers
    OBVIOUS
  <1>2. IsFiniteSet(W)
    BY <1>1, InterfacesAssumption DEF Workers
  <1>3. PICK g : g = [w \in W |-> Gone(session[w].observer)]
    OBVIOUS
  <1>4. \A w \in W : g[w] \in Int
    BY <1>1, <1>3, GoneType DEF Observing
  <1>5. W \in SUBSET W
    OBVIOUS
  <1>6. Sum(g, W) \in Int
    BY <1>2, <1>4, <1>5, SumType
  <1>7. QED BY <1>1, <1>2, <1>3, <1>6 DEF Missing

LEMMA MissingKept ==
  ASSUME Observing, Keeps
  PROVE  Missing' = Missing
  <1>1. [w \in Workers |-> Gone(session'[w].observer)]
          = [w \in Workers |-> Gone(session[w].observer)]
    BY DEF Keeps
  <1>2. QED BY <1>1 DEF Missing

(* The observer of one worker gives packets away, or gets them.            *)
LEMMA MissingOne ==
  ASSUME Observing, Observing', NEW w \in Workers, Only(w)
  PROVE  Missing' = Missing + (Gone(session'[w].observer)
                                 - Gone(session[w].observer))
  <1>1. PICK W : W = Workers
    OBVIOUS
  <1>2. IsFiniteSet(W) /\ w \in W
    BY <1>1, MissingType
  <1>3. PICK g, k : /\ g = [v \in W |-> Gone(session[v].observer)]
                    /\ k = [v \in W |-> Gone(session'[v].observer)]
    OBVIOUS
  <1>4. \A v \in W : g[v] \in Int /\ k[v] \in Int
    BY <1>1, <1>3, GoneType DEF Observing
  <1>5. \A v \in W \ {w} : k[v] = g[v]
    BY <1>1, <1>3 DEF Only
  <1>6. Sum(k, W) = Sum(g, W) + (k[w] - g[w])
    BY <1>2, <1>4, <1>5, SumChange
  <1>7. QED BY <1>1, <1>2, <1>3, <1>6 DEF Missing

LEMMA BalancedKept ==
  ASSUME Observing, Balanced, Keeps, UNCHANGED sink
  PROVE  Balanced'
  BY MissingKept DEF Balanced, sink

(* What a settled observer counted is owed when it goes.                   *)
LEMMA BalancedClosed ==
  ASSUME Observing, Observing', Balanced, processor # "gone",
         NEW w \in Workers, Close(w), Only(w), Settled(session[w].observer),
         session'[w].observer = NewObserver
  PROVE  Balanced'
  <1>1. PICK ob : ob = session[w].observer
    OBVIOUS
  <1>2. /\ Sound(ob, cast, now) /\ now \in Nat /\ Settled(ob)
    BY <1>1 DEF Observing
  <1>3. /\ Gone(ob) = ob.passed - ob.skipped
        /\ ob.passed \in Int /\ ob.skipped \in Int /\ owed \in Int
    BY <1>2, GoneType, GoneSettled DEF Balanced
  <1>4. /\ owed' = (owed + ob.passed) - ob.skipped
        /\ channel' = channel
    BY <1>1, <1>3 DEF Close
  <1>5. Gone(NewObserver) = 0
    BY <1>2, NewSound
  <1>6. Missing' = Missing + (0 - (ob.passed - ob.skipped))
    BY <1>1, <1>3, <1>5, MissingOne
  <1>7. Missing \in Int /\ owed \in Int
    BY MissingType DEF Balanced
  <1>8. owed' \in Int /\ owed' + Missing' = owed + Missing
    BY <1>3, <1>4, <1>6, <1>7
  <1>9. QED BY <1>4, <1>8 DEF Balanced

-----------------------------------------------------------------------------
(* The workers. *)

LEMMA InterfaceSettles ==
  ASSUME Observing, Sessions, Record, NEW w \in Interfaces,
         InterfacePlaced(w), Work(w) \/ StreamEnds(w)
  PROVE  InterfacePlaced(w)'
  <1>1. /\ w \in Workers /\ w \in DOMAIN worker
        /\ "active" \in DOMAIN session[w] /\ session[w].active \in BOOLEAN
    BY DEF Workers, Sessions, Record
  <1>2. CASE /\ UNCHANGED session
             /\ \/ StopAtTop(w) \/ StartSession(w) \/ LoadCredentials(w)
                \/ Authenticate(w) \/ Discover(w) \/ StartCapture(w)
                \/ CountDown(w) \/ SessionEnded(w) \/ Wait(w)
    <2>1. worker[w] \notin OpenPlaces
      BY <1>2 DEF StopAtTop, StartSession, LoadCredentials, Authenticate,
           Discover, StartCapture, CountDown, SessionEnded, Wait, OpenPlaces
    <2>2. session[w].observer = NewObserver
      BY <2>1 DEF InterfacePlaced
    <2>3. session'[w].observer = NewObserver
      BY <1>2, <2>2
    <2>4. QED BY <2>3, NewSettled DEF InterfacePlaced, Settled
  <1>3. CASE \/ StopStream(w) \/ StreamEnds(w)
              \/ CountUp(w) \/ ChunkDelivered(w)
    <2>1. UNCHANGED session /\ worker'[w] \in {"drain", "deliver", "expire"}
      BY <1>1, <1>3 DEF StopStream, StreamEnds, CountUp, ChunkDelivered,
           EndStream, Go
    <2>2. QED BY <2>1 DEF InterfacePlaced, OpenPlaces
  <1>4. CASE (StartCapture(w) /\ ~UNCHANGED session) \/ Closing(w)
    <2>1. \/ session' = [session EXCEPT ![w] = NoSession]
          \/ \E s : session' = [session EXCEPT ![w] = [NoSession EXCEPT
                                                         !.stream = s]]
      BY <1>4 DEF StartCapture, Closing, InterfaceDown, DrainFlows, Close
    <2>2. session'[w].observer = NewObserver /\ ~session'[w].active
      BY <1>1, <2>1, MovesNew
    <2>3. QED BY <2>2, NewSettled DEF InterfacePlaced, Settled
  <1>5. CASE ReceiveChunk(w)
    <2> DEFINE n(size) ==
                 Min({size, StreamLength(session[w].stream)
                              - session[w].received})
               d(size) ==
                 Push(session[w].stream, session[w].decoder, n(size))
               fresh(size) ==
                 IF d(size).error = "none"
                 THEN d(size).taken - session[w].decoder.taken ELSE 0
    <2>1. PICK size \in cast.chunks :
            session' = [session EXCEPT ![w].decoder = d(size),
                          ![w].received = @ + n(size),
                          ![w].fresh = fresh(size)]
      BY <1>5 DEF ReceiveChunk
    <2> HIDE DEF n, d, fresh
    <2>2. session' = [session EXCEPT ![w].decoder = d(size),
                        ![w].received = session[w].received + n(size),
                        ![w].fresh = fresh(size)]
      BY <2>1
    <2>3. /\ session'[w].observer = session[w].observer
          /\ session'[w].active = session[w].active
      BY <1>1, <2>2, MovesElsewhere DEF SameActive
    <2>4. worker'[w] \in {"deliver", "drain"}
      BY <1>1, <1>5 DEF ReceiveChunk, EndStream, Go
    <2>5. QED BY <2>3, <2>4 DEF InterfacePlaced, OpenPlaces
  <1>6. CASE InterfaceUp(w)
    <2>1. session' = [session EXCEPT ![w].active = TRUE]
      BY <1>6 DEF InterfaceUp
    <2>2. session'[w].active /\ worker'[w] = "count"
      BY <1>1, <1>6, <2>1, MovesActive DEF InterfaceUp, Go
    <2>3. QED BY <2>2 DEF InterfacePlaced, OpenPlaces
  <1>7. CASE DeliverPacket(w)
    <2>1. PICK f \in cast.frames :
            session' = [session EXCEPT
                          ![w].fresh = @ - 1, ![w].delivered = @ + 1,
                          ![w].observer = HandleFrame(@, cast, f, now)]
      BY <1>7 DEF DeliverPacket
    <2>2. PICK o : o = HandleFrame(session[w].observer, cast, f, now)
      OBVIOUS
    <2>3. Goes(session[w].observer, o, cast, now)
      BY <1>1, <2>2, CastFacts, FrameGoes DEF Observing
    <2>4. session' = [session EXCEPT
                        ![w].fresh = session[w].fresh - 1,
                        ![w].delivered = session[w].delivered + 1,
                        ![w].observer = o]
      BY <2>1, <2>2
    <2>5. session'[w].active = session[w].active
      BY <1>1, <2>3, <2>4, MovesGoing DEF SameActive
    <2>6. session[w].active /\ worker[w] = "deliver" /\ worker' = worker
      BY <1>7 DEF DeliverPacket
    <2>7. QED BY <2>5, <2>6 DEF InterfacePlaced, OpenPlaces
  <1>8. CASE ExpireFlows(w)
    <2>1. PICK ob, o : ob = session[w].observer /\ o = Expire(ob, now)
      OBVIOUS
    <2>2. session' = [session EXCEPT ![w].observer = o]
      BY <1>8, <2>1 DEF ExpireFlows
    <2>3. Sound(ob, cast, now) /\ now \in Int
      BY <1>1, <2>1 DEF Observing
    <2>4. /\ Goes(ob, o, cast, now)
          /\ DOMAIN o.flows \subseteq DOMAIN ob.flows
          /\ DOMAIN ob.flows = {} => o.out = ob.out
      BY <2>1, <2>3, ExpireGoes
    <2>5. /\ session'[w].observer = o
          /\ session'[w].active = session[w].active
      BY <1>1, <2>1, <2>2, <2>4, MovesGoing DEF SameActive
    <2>6. Settled(ob) => Settled(o)
      BY <2>4 DEF Settled
    <2>7. worker'[w] = "stream"
      BY <1>1, <1>8 DEF ExpireFlows, Go
    <2>8. QED BY <2>1, <2>5, <2>6, <2>7 DEF InterfacePlaced, OpenPlaces
  <1>9. CASE DrainFlows(w) /\ session[w].active
    <2>1. PICK ob, o : ob = session[w].observer /\ o = Drain(ob)
      OBVIOUS
    <2>2. session' = [session EXCEPT ![w].observer = o]
      BY <1>9, <2>1 DEF DrainFlows
    <2>3. Sound(ob, cast, now) /\ now \in Int
      BY <1>1, <2>1 DEF Observing
    <2>4. Goes(ob, o, cast, now) /\ DOMAIN o.flows = {}
      BY <2>1, <2>3, DrainGoes
    <2>5. /\ session'[w].observer = o
          /\ session'[w].active = session[w].active
      BY <1>1, <2>1, <2>2, <2>4, MovesGoing DEF SameActive
    <2>6. worker'[w] = "lower"
      BY <1>1, <1>9 DEF DrainFlows, Go
    <2>7. QED BY <1>9, <2>4, <2>5, <2>6 DEF InterfacePlaced, OpenPlaces
  <1>10. DrainFlows(w) => Closing(w) \/ session[w].active
    BY DEF Closing
  <1>11. InterfaceDown(w) => Closing(w)
    BY DEF Closing
  <1>12. StopAtTop(w) \/ StartSession(w) \/ LoadCredentials(w)
           \/ Authenticate(w) \/ Discover(w) \/ CountDown(w)
           \/ SessionEnded(w) \/ Wait(w) => UNCHANGED session
    BY DEF StopAtTop, StartSession, LoadCredentials, Authenticate,
           Discover, CountDown, SessionEnded, Wait
  <1>13. QED BY <1>2, <1>3, <1>4, <1>5, <1>6, <1>7, <1>8, <1>9, <1>10, <1>11,
                <1>12 DEF Work

LEMMA LocalSettles ==
  ASSUME Observing, Record, NEW l \in Locals, LocalPlaced(l), LocalWork(l)
  PROVE  LocalPlaced(l)'
  <1>1. l \in Workers /\ l \in DOMAIN worker
    BY DEF Workers, Record
  <1>2. CASE CheckLocal(l) /\ shutdown
    <2>1. PICK ob, o : ob = session[l].observer /\ o = Drain(ob)
      OBVIOUS
    <2>2. session' = [session EXCEPT ![l].observer = o]
      BY <1>2, <2>1 DEF CheckLocal
    <2>3. Sound(ob, cast, now) /\ now \in Int
      BY <1>1, <2>1 DEF Observing
    <2>4. Goes(ob, o, cast, now) /\ DOMAIN o.flows = {}
      BY <2>1, <2>3, DrainGoes
    <2>5. session'[l].observer = o
      BY <1>1, <2>1, <2>2, <2>4, MovesGoing
    <2>6. worker'[l] = "drained"
      BY <1>1, <1>2 DEF CheckLocal, Go
    <2>7. QED BY <2>4, <2>5, <2>6 DEF LocalPlaced
  <1>3. CASE (CheckLocal(l) /\ ~shutdown) \/ ReadFails(l)
    <2>1. UNCHANGED session /\ session[l].observer.out = <<>>
      BY <1>3 DEF CheckLocal, ReadFails, AllSent, Outbox, LocalPlaced
    <2>2. worker'[l] \in {"receive", "failed"}
      BY <1>1, <1>3 DEF CheckLocal, ReadFails, Go
    <2>3. QED BY <2>1, <2>2 DEF LocalPlaced
  <1>4. CASE ReceiveLocal(l) \/ ExpireLocal(l)
    <2>1. worker'[l] \in {"expire_local", "poll"}
      BY <1>1, <1>4 DEF ReceiveLocal, ExpireLocal, Go
    <2>2. QED BY <2>1 DEF LocalPlaced
  <1>5. CASE LocalEnds(l)
    <2>1. session' = [session EXCEPT ![l] = NoSession]
      BY <1>5 DEF LocalEnds, Close
    <2>2. session'[l].observer = NewObserver
      BY <1>1, <2>1, MovesNew
    <2>3. QED BY <2>2, NewSettled DEF LocalPlaced, Settled
  <1>6. QED BY <1>2, <1>3, <1>4, <1>5 DEF LocalWork

LEMMA WorkOnly ==
  ASSUME Record, NEW w \in Interfaces, Work(w) \/ StreamEnds(w)
  PROVE  /\ \A v \in Workers \ {w} : worker'[v] = worker[v]
         /\ worker[w] \notin Ended /\ processor' = processor
         /\ UNCHANGED sink \/ Closing(w)
  <1>1. DOMAIN worker = Workers
    BY DEF Record
  <1>2. worker' = worker \/ \E p : worker' = [worker EXCEPT ![w] = p]
    BY DEF Work, StopAtTop, StartSession, LoadCredentials, Authenticate,
           Discover, StartCapture, ReceiveChunk, StopStream, InterfaceUp,
           CountUp, DeliverPacket, ChunkDelivered, ExpireFlows, DrainFlows,
           InterfaceDown, CountDown, SessionEnded, Wait, StreamEnds,
           EndStream, Fails, Go
  <1>3. worker[w] \notin Ended
    BY DEF Work, StopAtTop, StartSession, LoadCredentials, Authenticate,
           Discover, StartCapture, ReceiveChunk, StopStream, InterfaceUp,
           CountUp, DeliverPacket, ChunkDelivered, ExpireFlows, DrainFlows,
           InterfaceDown, CountDown, SessionEnded, Wait, StreamEnds, Ended
  <1>4. UNCHANGED world
    BY DEF Work, StopAtTop, StartSession, LoadCredentials, Authenticate,
           Discover, StartCapture, ReceiveChunk, StopStream, InterfaceUp,
           CountUp, DeliverPacket, ChunkDelivered, ExpireFlows, DrainFlows,
           InterfaceDown, CountDown, SessionEnded, Wait, StreamEnds
  <1>5. UNCHANGED sink \/ Closing(w)
    BY DEF Work, StopAtTop, StartSession, LoadCredentials, Authenticate,
           Discover, StartCapture, ReceiveChunk, StopStream, InterfaceUp,
           CountUp, DeliverPacket, ChunkDelivered, ExpireFlows, DrainFlows,
           InterfaceDown, CountDown, SessionEnded, Wait, StreamEnds, Closing
  <1>6. QED BY <1>1, <1>2, <1>3, <1>4, <1>5 DEF world

(* A step of one worker that is not over leaves the others where they are. *)
LEMMA PlacedOnly ==
  ASSUME Placed, NEW w \in Workers, Only(w),
         \A v \in Workers \ {w} : worker'[v] = worker[v],
         worker[w] \notin Ended, processor' = processor,
         w \in Interfaces => InterfacePlaced(w)',
         w \in Locals => LocalPlaced(w)'
  PROVE  Placed'
  <1>1. \A v \in Workers \ {w} :
          worker'[v] = worker[v] /\ session'[v] = session[v]
    BY DEF Only
  <1>2. \A v \in Interfaces : InterfacePlaced(v)'
    BY <1>1 DEF Placed, InterfacePlaced, Workers
  <1>3. \A l \in Locals : LocalPlaced(l)'
    BY <1>1 DEF Placed, LocalPlaced, Workers
  <1>4. processor # "finished"
    BY DEF Placed
  <1>5. QED BY <1>2, <1>3, <1>4 DEF Placed

LEMMA WorkConserves ==
  ASSUME Sessions, Record, Observing, Observing', Placed, Balanced,
         processor # "gone", NEW w \in Interfaces, Work(w) \/ StreamEnds(w)
  PROVE  Placed' /\ Balanced'
  <1>1. w \in Workers /\ w \notin Locals
    BY InterfacesAssumption DEF Workers
  <1>2. Only(w) /\ (Keeps \/ StartCapture(w) \/ Closing(w))
    BY WorkMoves
  <1>3. /\ \A v \in Workers \ {w} : worker'[v] = worker[v]
        /\ worker[w] \notin Ended /\ processor' = processor
        /\ UNCHANGED sink \/ Closing(w)
    BY WorkOnly
  <1>4. InterfacePlaced(w)
    BY DEF Placed
  <1>5. Placed'
    BY <1>1, <1>2, <1>3, <1>4, InterfaceSettles, PlacedOnly
  <1>6. CASE Closing(w)
    <2>1. /\ session' = [session EXCEPT ![w] = NoSession]
          /\ Close(w)
      BY <1>6 DEF Closing, InterfaceDown, DrainFlows, Close
    <2>2. Settled(session[w].observer)
      BY <1>4, <1>6 DEF Closing, InterfaceDown, AllSent, Outbox,
                        InterfacePlaced, Settled
    <2>3. session'[w].observer = NewObserver
      BY <1>1, <2>1, MovesNew
    <2>4. QED BY <1>1, <1>2, <1>5, <2>1, <2>2, <2>3, BalancedClosed
  <1>7. CASE StartCapture(w)
    <2>1. UNCHANGED sink
      BY <1>7 DEF StartCapture
    <2>2. session[w].observer = NewObserver
      BY <1>4, <1>7 DEF StartCapture, InterfacePlaced, OpenPlaces
    <2>3. \/ UNCHANGED session
          \/ \E s : session' = [session EXCEPT ![w] = [NoSession EXCEPT
                                                         !.stream = s]]
      BY <1>7 DEF StartCapture
    <2>4. Keeps
      BY <1>1, <2>2, <2>3, MovesNew, MovesNowhere
    <2>5. QED BY <1>5, <2>1, <2>4, BalancedKept
  <1>8. CASE Keeps /\ ~Closing(w)
    BY <1>3, <1>5, <1>8, BalancedKept
  <1>9. QED BY <1>2, <1>6, <1>7, <1>8

LEMMA LocalConserves ==
  ASSUME Record, Observing, Observing', Placed, Balanced,
         processor # "gone", NEW l \in Locals, LocalWork(l)
  PROVE  Placed' /\ Balanced'
  <1>1. l \in Workers /\ l \notin Interfaces
    BY InterfacesAssumption DEF Workers
  <1>2. Only(l) /\ (Keeps \/ LocalEnds(l))
    BY LocalMoves
  <1>3. /\ \A v \in Workers \ {l} : worker'[v] = worker[v]
        /\ worker[l] \notin Ended /\ processor' = processor
        /\ UNCHANGED sink \/ LocalEnds(l)
    <2>1. \E p : worker' = [worker EXCEPT ![l] = p]
      BY DEF LocalWork, CheckLocal, ReceiveLocal, ReadFails, ExpireLocal,
             LocalEnds, Go
    <2>2. worker[l] \notin Ended /\ UNCHANGED world
      BY DEF LocalWork, CheckLocal, ReceiveLocal, ReadFails, ExpireLocal,
             LocalEnds, Ended
    <2>3. UNCHANGED sink \/ LocalEnds(l)
      BY DEF LocalWork, CheckLocal, ReceiveLocal, ReadFails, ExpireLocal
    <2>4. DOMAIN worker = Workers
      BY DEF Record
    <2>5. QED BY <2>1, <2>2, <2>3, <2>4 DEF world
  <1>4. LocalPlaced(l)
    BY DEF Placed
  <1>5. Placed'
    BY <1>1, <1>2, <1>3, <1>4, LocalSettles, PlacedOnly
  <1>6. CASE LocalEnds(l)
    <2>1. /\ session' = [session EXCEPT ![l] = NoSession]
          /\ Close(l)
      BY <1>6 DEF LocalEnds, Close
    <2>2. Settled(session[l].observer)
      BY <1>4, <1>6 DEF LocalEnds, AllSent, Outbox, LocalPlaced, Settled
    <2>3. session'[l].observer = NewObserver
      BY <1>1, <2>1, MovesNew
    <2>4. QED BY <1>1, <1>2, <1>5, <2>1, <2>2, <2>3, BalancedClosed
  <1>7. CASE Keeps /\ ~LocalEnds(l)
    BY <1>3, <1>5, <1>7, BalancedKept
  <1>8. QED BY <1>2, <1>6, <1>7

(* What one sends is on its way.                                           *)
LEMMA SendConserves ==
  ASSUME Sessions, Observing, Observing', Placed, Balanced,
         NEW w \in cast.workers, Send(w)
  PROVE  Placed' /\ Balanced'
  <1>1. w \in Workers
    BY CastFacts
  <1>2. PICK ob, new : ob = session[w].observer /\ new = session'[w].observer
    OBVIOUS
  <1>3. /\ ob.out # <<>> /\ processor = "running" /\ processor' = processor
        /\ worker' = worker /\ owed' = owed
        /\ channel' = Append(channel, Head(ob.out))
        /\ session' = [session EXCEPT ![w].observer.out = Tail(ob.out)]
    BY <1>2 DEF Send, AllSent, Outbox, world
  <1>4. /\ Only(w) /\ SameActive(w)
        /\ new.out = Tail(ob.out) /\ new.flows = ob.flows
        /\ new.passed = ob.passed /\ new.skipped = ob.skipped
    BY <1>1, <1>2, <1>3, MovesSent
  <1>5. Placed'
    <2>1. \A v \in Workers : v # w => session'[v] = session[v]
      BY <1>4 DEF Only
    <2>2. session'[w].active = session[w].active
      BY <1>1, <1>4 DEF SameActive, Sessions
    <2>3. ob # NewObserver
      BY <1>3, NewSettled DEF Settled
    <2>4. \A v \in Interfaces : InterfacePlaced(v)'
      <3>1. w \in Interfaces => InterfacePlaced(w)'
        BY <1>2, <1>3, <1>4, <2>2, <2>3 DEF Placed, InterfacePlaced, Settled
      <3>2. QED BY <1>3, <2>1, <3>1 DEF Placed, InterfacePlaced, Workers
    <2>5. \A l \in Locals : LocalPlaced(l)'
      <3>1. w \in Locals => LocalPlaced(w)'
        BY <1>2, <1>3, <1>4, <2>3 DEF Placed, LocalPlaced
      <3>2. QED BY <1>3, <2>1, <3>1 DEF Placed, LocalPlaced, Workers
    <2>6. QED BY <1>3, <2>4, <2>5 DEF Placed
  <1>6. Sound(ob, cast, now) /\ Sound(new, cast, now)
    <2>1. UNCHANGED <<cast, now>>
      BY DEF Send, world
    <2>2. QED BY <1>1, <1>2, <2>1 DEF Observing
  <1>7. PICK s : s = ob.out
    OBVIOUS
  <1>8. IsSequence(s) /\ Counted(s) /\ s # <<>>
    BY <1>3, <1>6, <1>7 DEF Sound, AllProper, Loaded
  <1>9. Head(s).packets \in Int /\ Load(s) = Head(s).packets + Load(Tail(s))
    BY <1>8, LoadTail
  <1>10. IsSequence(channel) /\ Counted(channel)
    BY DEF Balanced
  <1>11. PICK o : o = Head(s)
    OBVIOUS
  <1>12. /\ Counted(Append(channel, o)) /\ IsSequence(Append(channel, o))
         /\ Load(Append(channel, o)) = Load(channel) + o.packets
    BY <1>9, <1>10, <1>11, LoadAppend
  <1>13. Gone(new) = Gone(ob) + o.packets
    <2>1. /\ ob.passed \in Int /\ ob.skipped \in Int
          /\ Load(ob.out) \in Int /\ Load(ob.flows) \in Int
          /\ Load(new.out) \in Int
      BY <1>6, GoneType
    <2>2. Load(ob.out) = o.packets + Load(new.out) /\ o.packets \in Int
      BY <1>4, <1>7, <1>9, <1>11
    <2>3. QED BY <1>4, <2>1, <2>2 DEF Gone
  <1>14. Missing' = Missing + (Gone(new) - Gone(ob))
    BY <1>1, <1>2, <1>4, MissingOne
  <1>15. owed' + Missing' = Load(channel')
    <2>1. Missing \in Int /\ owed \in Int /\ owed + Missing = Load(channel)
      BY MissingType DEF Balanced
    <2>2. Gone(ob) \in Int /\ o.packets \in Int
      BY <1>6, <1>9, <1>11, GoneType
    <2>3. Load(channel') = Load(channel) + o.packets
      BY <1>3, <1>7, <1>11, <1>12
    <2>4. Missing' = Missing + o.packets
      BY <1>13, <1>14, <2>1, <2>2
    <2>5. QED BY <1>3, <2>1, <2>2, <2>3, <2>4
  <1>16. Balanced'
    BY <1>3, <1>7, <1>11, <1>12, <1>15 DEF Balanced
  <1>17. QED BY <1>5, <1>16

(* Nothing is dropped before the processor goes: when it has finished,     *)
(* every worker is over and has nothing to send.                           *)
LEMMA NothingDropped ==
  ASSUME Observing, Placed, NEW w \in cast.workers, SendFails(w)
  PROVE  processor \notin {"running", "finished"}
  <1>1. w \in Workers /\ session[w].observer.out # <<>>
    BY CastFacts DEF SendFails, AllSent, Outbox
  <1>2. session[w].observer # NewObserver
    BY <1>1, NewSettled DEF Settled
  <1>3. processor # "running"
    BY DEF SendFails
  <1>4. SUFFICES ASSUME processor = "finished" PROVE FALSE
    BY <1>3
  <1>5. worker[w] \in Ended
    BY <1>1, <1>4 DEF Placed
  <1>6. QED BY <1>1, <1>2, <1>5 DEF Placed, InterfacePlaced, LocalPlaced,
                                   Workers, Ended, OpenPlaces

-----------------------------------------------------------------------------
(* The processor, and the whole. *)

LEMMA PlacedKept ==
  ASSUME Placed, UNCHANGED <<worker, session>>,
         processor' = processor \/ processor' # "finished"
  PROVE  Placed'
  BY DEF Placed, InterfacePlaced, LocalPlaced

LEMMA ProcessConserves ==
  ASSUME Observing, Placed, Balanced, Process
  PROVE  Placed' /\ Balanced'
  <1>1. PICK s, o : s = channel /\ o = Head(channel)
    OBVIOUS
  <1>2. /\ UNCHANGED <<worker, session, processor>>
        /\ s # <<>> /\ channel' = Tail(s) /\ owed' = owed - o.packets
    BY <1>1 DEF Process, workers
  <1>3. IsSequence(s) /\ Counted(s)
    BY <1>1 DEF Balanced
  <1>4. /\ Counted(Tail(s)) /\ IsSequence(Tail(s))
        /\ o.packets \in Int /\ Load(s) = o.packets + Load(Tail(s))
    BY <1>1, <1>2, <1>3, LoadTail
  <1>5. Load(Tail(s)) \in Int
    BY <1>4, LoadType
  <1>6. Missing' = Missing /\ Missing \in Int
    BY <1>2, MovesNowhere, MissingKept, MissingType
  <1>7. owed \in Int /\ owed + Missing = Load(s)
    BY <1>1 DEF Balanced
  <1>8. owed' \in Int /\ owed' + Missing' = Load(channel')
    BY <1>2, <1>4, <1>5, <1>6, <1>7
  <1>9. Balanced'
    BY <1>2, <1>4, <1>8 DEF Balanced
  <1>10. QED BY <1>2, <1>9, PlacedKept

(* What the scanner says stands for no packets.                            *)
LEMMA ScannerConserves ==
  ASSUME Observing, Placed, Balanced, ScannerSends
  PROVE  Placed' /\ Balanced'
  <1>1. PICK o \in cast.scanned : channel' = Append(channel, o)
    BY DEF ScannerSends
  <1>2. UNCHANGED <<worker, session, processor, owed>>
    BY DEF ScannerSends, workers, world
  <1>3. PICK s : s = channel
    OBVIOUS
  <1>4. IsSequence(s) /\ Counted(s) /\ o.packets = 0 /\ o.packets \in Int
    BY <1>1, <1>3, CastFacts DEF Balanced
  <1>5. /\ Counted(Append(s, o)) /\ IsSequence(Append(s, o))
        /\ Load(Append(s, o)) = Load(s) + o.packets
    BY <1>4, LoadAppend
  <1>6. Load(s) \in Int
    BY <1>4, LoadType
  <1>7. Missing' = Missing
    BY <1>2, MovesNowhere, MissingKept
  <1>8. Balanced'
    BY <1>1, <1>2, <1>3, <1>4, <1>5, <1>6, <1>7 DEF Balanced
  <1>9. QED BY <1>2, <1>8, PlacedKept

LEMMA OtherConserves ==
  ASSUME Record, Observing, Placed, Balanced,
         \/ FingerprintTick \/ Finish \/ RouterFails \/ RouterRecovers
         \/ Tick \/ Shutdown \/ UNCHANGED vars
  PROVE  Placed' /\ Balanced'
  <1>1. UNCHANGED <<worker, session, channel, owed>>
    BY DEF FingerprintTick, Finish, RouterFails, RouterRecovers, Tick,
           Shutdown, vars, workers, sink
  <1>2. Balanced'
    BY <1>1, MovesNowhere, BalancedKept DEF sink
  <1>3. CASE Finish
    <2>1. DOMAIN worker = Workers
      BY DEF Record
    <2>2. \A w \in DOMAIN worker : worker[w] \in Ended
      BY <1>3 DEF Finish, Ended
    <2>3. QED BY <1>1, <1>2, <2>1, <2>2 DEF Placed, InterfacePlaced,
                                            LocalPlaced
  <1>4. CASE ~Finish
    <2>1. processor' = processor
      BY <1>4 DEF FingerprintTick, RouterFails, RouterRecovers, Tick,
           Shutdown, vars
    <2>2. QED BY <1>1, <1>2, <2>1, PlacedKept
  <1>5. QED BY <1>3, <1>4

LEMMA NextProcessor ==
  ASSUME [Next]_vars, Record
  PROVE  \/ processor' = processor
         \/ processor = "running" /\ processor' \in {"gone", "finished"}
  <1>1. CASE \E w \in Interfaces \cap cast.workers : Work(w) \/ StreamEnds(w)
    BY <1>1, WorkOnly
  <1>2. CASE \E l \in Locals \cap cast.workers : LocalWork(l)
    BY <1>2 DEF LocalWork, CheckLocal, ReceiveLocal, ReadFails, ExpireLocal,
         LocalEnds, world
  <1>3. CASE \E w \in cast.workers : Send(w) \/ SendFails(w)
    BY <1>3 DEF Send, SendFails, world
  <1>4. CASE \/ Process \/ FingerprintTick \/ ScannerSends \/ Finish
             \/ ProcessorEnds \/ RouterFails \/ RouterRecovers
             \/ Tick \/ Shutdown \/ UNCHANGED vars
    BY <1>4 DEF Process, FingerprintTick, ScannerSends, Finish,
         ProcessorEnds, RouterFails, RouterRecovers, Tick, Shutdown, world,
         vars
  <1>5. QED BY <1>1, <1>2, <1>3, <1>4 DEF Next

LEMMA ConservingInvariant ==
  ASSUME IInv, Observing, Conserving, [Next]_vars
  PROVE  Conserving'
  <1>1. Observing' /\ Sessions /\ Record
    BY ObservingInvariant DEF IInv
  <1>2. /\ processor \in {"running", "gone", "finished"}
        /\ processor' \in {"running", "gone", "finished"}
        /\ processor = "gone" => processor' = "gone"
    BY <1>1, NextProcessor DEF Conserving
  <1>3. CASE processor = "gone" \/ processor' = "gone"
    BY <1>2, <1>3 DEF Conserving
  <1>4. CASE processor # "gone" /\ processor' # "gone"
    <2>1. Placed /\ Balanced
      BY <1>4 DEF Conserving
    <2>2. CASE \E w \in Interfaces \cap cast.workers :
                 Work(w) \/ StreamEnds(w)
      BY <1>1, <1>2, <1>4, <2>1, <2>2, WorkConserves DEF Conserving
    <2>3. CASE \E l \in Locals \cap cast.workers : LocalWork(l)
      BY <1>1, <1>2, <1>4, <2>1, <2>3, LocalConserves DEF Conserving
    <2>4. CASE \E w \in cast.workers : Send(w)
      BY <1>1, <1>2, <2>1, <2>4, SendConserves DEF Conserving
    <2>5. CASE \E w \in cast.workers : SendFails(w)
      BY <1>2, <1>4, <2>1, <2>5, NothingDropped
    <2>6. CASE Process
      BY <1>2, <2>1, <2>6, ProcessConserves DEF Conserving
    <2>7. CASE ScannerSends
      BY <1>2, <2>1, <2>7, ScannerConserves DEF Conserving
    <2>8. CASE ProcessorEnds
      BY <1>4, <2>8 DEF ProcessorEnds
    <2>9. CASE \/ FingerprintTick \/ Finish \/ RouterFails
               \/ RouterRecovers \/ Tick \/ Shutdown \/ UNCHANGED vars
      BY <1>1, <1>2, <2>1, <2>9, OtherConserves DEF Conserving
    <2>10. QED
      BY <2>2, <2>3, <2>4, <2>5, <2>6, <2>7, <2>8, <2>9 DEF Next
  <1>5. QED BY <1>3, <1>4

LEMMA ConservingAlways == Spec => []Conserving
  <1>1. Init => Conserving
    <2> SUFFICES ASSUME Init PROVE Conserving
      OBVIOUS
    <2>1. /\ session = [w \in Workers |-> NoSession]
          /\ channel = <<>> /\ owed = 0 /\ processor = "running"
      BY DEF Init, Workers
    <2>2. /\ \A w \in Workers : session[w].observer = NewObserver
          /\ \A w \in Workers : ~session[w].active
      BY <2>1 DEF NoSession
    <2>3. Placed
      <3>1. /\ \A w \in Interfaces : worker[w] # "lower"
            /\ NewObserver.out = <<>> /\ DOMAIN NewObserver.flows = {}
        BY NewSettled, InterfacesAssumption DEF Init, Settled
      <3>2. QED BY <2>1, <2>2, <3>1
                DEF Placed, InterfacePlaced, LocalPlaced, Workers, Settled
    <2>4. IsFiniteSet(Workers)
      BY InterfacesAssumption DEF Workers
    <2>5. Missing = 0
      <3>1. PICK W, g : /\ W = Workers
                        /\ g = [w \in W |-> Gone(session[w].observer)]
        OBVIOUS
      <3>2. Gone(NewObserver) = 0
        <4>1. 0 \in Nat
          OBVIOUS
        <4>2. QED BY <4>1, NewSound
      <3>3. IsFiniteSet(W) /\ \A w \in W : g[w] = 0
        BY <2>2, <2>4, <3>1, <3>2
      <3>4. Sum(g, W) = 0
        BY <3>3, SumZero
      <3>5. QED BY <3>1, <3>4 DEF Missing
    <2>6. IsSequence(channel) /\ Counted(channel) /\ Load(channel) = 0
      <3>1. IsSequence(<<>>)
        BY None
      <3>2. DOMAIN <<>> = {}
        OBVIOUS
      <3>3. QED BY <2>1, <3>1, <3>2, LoadNone
    <2>7. QED BY <2>1, <2>3, <2>5, <2>6 DEF Conserving, Balanced
  <1>2. IInv /\ Observing /\ Conserving /\ [Next]_vars => Conserving'
    BY ConservingInvariant
  <1>3. QED BY <1>1, <1>2, Invariance, ObservingAlways, PTL DEF Spec

LEMMA PacketsAre ==
  ASSUME NEW f, Counted(f)
  PROVE  Packets(f) = Load(f)
  <1>1. PICK g : g = PacketsIn(f)
    OBVIOUS
  <1>2. IsFiniteSet(DOMAIN g) /\ \A x \in DOMAIN g : g[x] \in Int
    BY <1>1 DEF Counted, PacketsIn
  <1>3. SumFunction(g) = Sum(g, DOMAIN g)
    BY <1>2, SumFunctionIs
  <1>4. DOMAIN g = DOMAIN f
    BY <1>1 DEF PacketsIn
  <1>5. Packets(f) = SumFunction(g)
    BY <1>1 DEF Packets, PacketsIn
  <1>6. QED BY <1>1, <1>3, <1>4, <1>5 DEF Load

(* Every packet that counted towards a flow is in an open window, on its   *)
(* way, or has arrived, exactly once, through expiry, reconnects and the   *)
(* end of any worker, until the processor goes; and the two directions of  *)
(* a conversation never become two flows (flow.rs `FlowTable::observe`,    *)
(* `expire`, `drain`; runtime.rs `run_capture`, `run_fritzbox_session`,    *)
(* `run_processor`).                                                       *)
THEOREM FlowsConservedAlways == Spec => []FlowsConserved
  <1> DEFINE counted == [w \in DOMAIN session |->
                           session[w].observer.passed
                             - session[w].observer.skipped]
             carried == [w \in DOMAIN session |->
                           Packets(session[w].observer.out)
                             + Packets(session[w].observer.flows)]
  <1>1. ASSUME Observing, Conserving
        PROVE  FlowsConserved
    <2>1. ASSUME Balanced
          PROVE  owed + SumFunction(counted)
                   = Packets(channel) + SumFunction(carried)
      <3>1. PICK W, p, q, g :
              /\ W = Workers /\ p = counted /\ q = carried
              /\ g = [w \in W |-> Gone(session[w].observer)]
        OBVIOUS
      <3>2. DOMAIN session = W /\ DOMAIN p = W /\ DOMAIN q = W
        BY <1>1, <3>1 DEF Observing
      <3>3. \A w \in W :
              /\ p[w] \in Int /\ q[w] \in Int /\ g[w] \in Int
              /\ p[w] = q[w] + g[w]
        <4> SUFFICES ASSUME NEW w \in W
                     PROVE  /\ p[w] \in Int /\ q[w] \in Int /\ g[w] \in Int
                            /\ p[w] = q[w] + g[w]
          OBVIOUS
        <4>1. PICK ob : ob = session[w].observer
          OBVIOUS
        <4>2. Sound(ob, cast, now)
          BY <1>1, <3>1, <4>1 DEF Observing
        <4>3. Counted(ob.out) /\ Counted(ob.flows)
          BY <4>2, WindowsCounted DEF Sound, Loaded
        <4>4. /\ Packets(ob.out) = Load(ob.out)
              /\ Packets(ob.flows) = Load(ob.flows)
          BY <4>3, PacketsAre
        <4>5. /\ ob.passed \in Int /\ ob.skipped \in Int
              /\ Load(ob.out) \in Int /\ Load(ob.flows) \in Int
          BY <4>2, GoneType
        <4>6. /\ p[w] = ob.passed - ob.skipped
              /\ q[w] = Load(ob.out) + Load(ob.flows)
              /\ g[w] = Gone(ob)
          BY <3>1, <3>2, <4>1, <4>4
        <4>7. QED BY <4>5, <4>6 DEF Gone
      <3>4. IsFiniteSet(W)
        BY <1>1, <3>1, MissingType
      <3>5. Sum(p, W) = Sum(q, W) + Sum(g, W)
        BY <3>3, <3>4, SumPlus
      <3>6. SumFunction(p) = Sum(p, W) /\ SumFunction(q) = Sum(q, W)
        <4>1. /\ \A w \in DOMAIN p : p[w] \in Int
              /\ \A w \in DOMAIN q : q[w] \in Int
          BY <3>2, <3>3
        <4>2. QED BY <3>2, <3>4, <4>1, SumFunctionIs
      <3>7. Sum(q, W) \in Int /\ Sum(g, W) \in Int
        <4>1. /\ W \in SUBSET W
              /\ \A w \in W : q[w] \in Int
              /\ \A w \in W : g[w] \in Int
          BY <3>3
        <4>2. QED BY <3>4, <4>1, SumType
      <3>8. /\ owed \in Int /\ owed + Sum(g, W) = Load(channel)
            /\ Packets(channel) = Load(channel)
        BY <2>1, <3>1, PacketsAre DEF Balanced, Missing
      <3>9. PICK a, b, d : a = Sum(q, W) /\ b = Sum(g, W) /\ d = owed
        OBVIOUS
      <3>10. a \in Int /\ b \in Int /\ d \in Int
        BY <3>7, <3>8, <3>9
      <3>11. d + (a + b) = (d + b) + a
        BY <3>10
      <3>12. QED BY <3>1, <3>5, <3>6, <3>8, <3>9, <3>11
    <2>2. \A w \in DOMAIN session :
            \A k, m \in DOMAIN session[w].observer.flows :
              Conversation(k) = Conversation(m) => k = m
      <3> SUFFICES ASSUME NEW w \in DOMAIN session,
                          NEW k \in DOMAIN session[w].observer.flows,
                          NEW m \in DOMAIN session[w].observer.flows,
                          Conversation(k) = Conversation(m)
                   PROVE  k = m
        OBVIOUS
      <3>1. Key(k, cast) /\ Key(m, cast)
        BY <1>1 DEF Observing, Sound, Windows
      <3>2. Ordered(Hosts(cast))
        BY <1>1, CastFacts
      <3>3. QED BY <3>1, <3>2, OneConversation
    <2>3. QED BY <1>1, <2>1, <2>2 DEF Conserving, FlowsConserved
  <1>2. QED BY <1>1, ObservingAlways, ConservingAlways, PTL

-----------------------------------------------------------------------------
(* Loops: a function that calls itself last. *)

(* What holds of x if it holds of everything smaller holds of all.         *)
LEMMA ByMeasure ==
  ASSUME NEW S, NEW m, \A x \in S : m[x] \in Nat, NEW G,
         \A x \in S : (\A y \in S : m[y] < m[x] => y \in G) => x \in G
  PROVE  \A x \in S : x \in G
  <1> SUFFICES ASSUME NEW z \in S, z \notin G PROVE FALSE
    OBVIOUS
  <1>1. PICK B : B = {k \in 0..m[z] : \E x \in S : x \notin G /\ m[x] = k}
    OBVIOUS
  <1>2. m[z] \in Nat /\ B \subseteq 0..m[z] /\ B # {}
    BY <1>1
  <1>3. PICK k \in B : \A j \in B : k <= j
    BY <1>2, Below
  <1>4. PICK x \in S : x \notin G /\ m[x] = k
    BY <1>1, <1>3
  <1>5. PICK y \in S : m[y] < m[x] /\ y \notin G
    BY <1>4
  <1>6. m[y] \in B
    BY <1>1, <1>2, <1>3, <1>4, <1>5
  <1>7. QED BY <1>2, <1>3, <1>4, <1>5, <1>6

Loop(f, S, done, next, out) ==
  f = [x \in S |-> IF done[x] THEN out[x] ELSE f[next[x]]]

(* Where a loop that starts at x comes by. *)
Orbit(S, done, next, x) ==
  {y \in S : \A C \in SUBSET S :
     x \in C /\ (\A z \in C : ~done[z] => next[z] \in C) => y \in C}

LEMMA OrbitStep ==
  ASSUME NEW S, NEW done, NEW next,
         \A z \in S : ~done[z] => next[z] \in S, NEW x \in S
  PROVE  Orbit(S, done, next, x)
           = {x} \cup (IF done[x] THEN {}
                       ELSE Orbit(S, done, next, next[x]))
  <1>1. CASE done[x]
    <2>1. Orbit(S, done, next, x) \subseteq {x}
      BY <1>1 DEF Orbit
    <2>2. x \in Orbit(S, done, next, x)
      BY DEF Orbit
    <2>3. QED BY <1>1, <2>1, <2>2
  <1>2. CASE ~done[x]
    <2>1. PICK T, y : T = Orbit(S, done, next, y) /\ y = next[x]
      OBVIOUS
    <2>2. y \in S
      BY <1>2, <2>1
    <2>3. T \subseteq S /\ y \in T
      BY <2>1, <2>2 DEF Orbit
    <2>4. \A z \in T : ~done[z] => next[z] \in T
      BY <2>1 DEF Orbit
    <2>5. {x} \cup T \in SUBSET S
      BY <2>3
    <2>6. \A z \in {x} \cup T : ~done[z] => next[z] \in {x} \cup T
      BY <2>1, <2>3, <2>4
    <2>7. Orbit(S, done, next, x) \subseteq {x} \cup T
      BY <2>5, <2>6 DEF Orbit
    <2>8. T \subseteq Orbit(S, done, next, x)
      BY <1>2, <2>1 DEF Orbit
    <2>9. x \in Orbit(S, done, next, x)
      BY DEF Orbit
    <2>10. QED BY <1>2, <2>1, <2>7, <2>8, <2>9
  <1>3. QED BY <1>1, <1>2

(* There is such a function, whether the loop ends or not: what it gives   *)
(* depends on where the loop comes by, and that is the same after a step.  *)
LEMMA LoopExists ==
  ASSUME NEW S, NEW done, NEW next, NEW out,
         \A z \in S : ~done[z] => next[z] \in S
  PROVE  \E f : Loop(f, S, done, next, out)
  <1> DEFINE Halts(x) == {y \in Orbit(S, done, next, x) : done[y]}
             f == [x \in S |-> out[CHOOSE y \in Halts(x) : TRUE]]
  <1>1. ASSUME NEW x \in S
        PROVE  f[x] = IF done[x] THEN out[x] ELSE f[next[x]]
    <2>1. CASE done[x]
      <3>1. Halts(x) = {x}
        BY <2>1, OrbitStep
      <3>2. QED BY <2>1, <3>1
    <2>2. CASE ~done[x]
      <3>1. Halts(x) = Halts(next[x])
        BY <2>2, OrbitStep
      <3>2. next[x] \in S
        BY <2>2
      <3>3. QED BY <2>2, <3>1, <3>2
    <2>3. QED BY <2>1, <2>2
  <1>2. Loop(f, S, done, next, out)
    BY <1>1 DEF Loop
  <1>3. QED BY <1>2

-----------------------------------------------------------------------------
(* Where the records of a stream end. *)

LEMMA Lengths ==
  /\ RecordHeader["standard"] = 16 /\ RecordHeader["extended"] = 24
  /\ \A s : HeaderLength(s) \in {16, 24}
  /\ BufferCapacity = MaxPacket + 24 /\ MaxPacket \in Nat
  <1>1. RecordHeader["standard"] = 16 /\ RecordHeader["extended"] = 24
    BY DEF RecordHeader
  <1>2. \A s : Variant(s) \in {"standard", "extended"}
    BY DEF Variant, DetectFormat
  <1>3. \A s : HeaderLength(s) \in {16, 24}
    BY <1>1, <1>2 DEF HeaderLength
  <1>4. Max({Global, RecordHeader["extended"]}) = 24
    BY <1>1 DEF Max, Global
  <1>5. QED BY <1>1, <1>3, <1>4, MaxPacketAssumption DEF BufferCapacity

LEMMA RecordFields ==
  ASSUME NEW s, Recorded(s), NEW k \in 1..Len(s.records)
  PROVE  /\ s.records[k].cap \in Nat /\ s.records[k].orig \in Nat
         /\ RecordLength(s, k) \in Nat
         /\ RecordLength(s, k) >= HeaderLength(s)
  <1>1. PICK q, R : q = s.records /\ R = [cap : Nat, orig : Nat]
    OBVIOUS
  <1>2. q \in Seq(R) /\ k \in 1..Len(q)
    BY <1>1 DEF Recorded
  <1>3. q[k] \in R
    BY <1>2
  <1>4. s.records[k].cap \in Nat /\ s.records[k].orig \in Nat
    BY <1>1, <1>3
  <1>5. RecordLength(s, k) = HeaderLength(s) + s.records[k].cap
    BY DEF RecordLength
  <1>6. HeaderLength(s) \in {16, 24}
    BY Lengths
  <1>7. QED BY <1>4, <1>5, <1>6

LEMMA RecordEnds ==
  ASSUME NEW s, Recorded(s)
  PROVE  /\ Len(s.records) \in Nat /\ RecordEnd(s, 0) = Global
         /\ \A k \in 0..Len(s.records) : RecordEnd(s, k) \in Int
         /\ \A k \in 0..(Len(s.records) - 1) :
              RecordEnd(s, k + 1) = RecordEnd(s, k) + RecordLength(s, k + 1)
  <1> DEFINE g(k) == [i \in 1..k |-> RecordLength(s, i)]
  <1>1. Len(s.records) \in Nat
    BY DEF Recorded
  <1>2. ASSUME NEW k \in 0..Len(s.records)
        PROVE  /\ DOMAIN g(k) = 1..k /\ IsFiniteSet(1..k)
               /\ \A i \in 1..k : g(k)[i] \in Int
               /\ RecordEnd(s, k) = 24 + Sum(g(k), 1..k)
               /\ Sum(g(k), 1..k) \in Int
    <2>1. DOMAIN g(k) = 1..k /\ IsFiniteSet(1..k)
      BY <1>1, FS_Interval
    <2>2. \A i \in 1..k : i \in 1..Len(s.records)
      BY <1>1
    <2>3. \A i \in 1..k : g(k)[i] \in Int
      BY <2>2, RecordFields
    <2>4. RecordEnd(s, k) = 24 + SumFunction(g(k))
      BY DEF RecordEnd, Global
    <2> HIDE DEF g
    <2>5. SumFunction(g(k)) = Sum(g(k), 1..k)
      BY <2>1, <2>3, SumFunctionIs
    <2>6. Sum(g(k), 1..k) \in Int
      BY <2>1, <2>3, SumType
    <2>7. QED BY <2>1, <2>3, <2>4, <2>5, <2>6
  <1>3. RecordEnd(s, 0) = Global
    <2>1. 0 \in 0..Len(s.records) /\ 1..0 = {}
      BY <1>1
    <2>2. Sum(g(0), {}) = 0
      BY FS_EmptySet, SumSome
    <2> HIDE DEF g
    <2>3. RecordEnd(s, 0) = 24 + Sum(g(0), {})
      BY <1>2, <2>1
    <2>4. QED BY <2>2, <2>3 DEF Global
  <1>4. ASSUME NEW k \in 0..(Len(s.records) - 1)
        PROVE  RecordEnd(s, k + 1) = RecordEnd(s, k) + RecordLength(s, k + 1)
    <2>1. /\ k \in 0..Len(s.records) /\ k + 1 \in 0..Len(s.records)
          /\ k + 1 \in 1..(k + 1) /\ (1..(k + 1)) \ {k + 1} = 1..k
      BY <1>1
    <2>2. \A i \in 1..k : g(k + 1)[i] = g(k)[i]
      BY <2>1
    <2>3. g(k + 1)[k + 1] = RecordLength(s, k + 1)
      BY <2>1
    <2> HIDE DEF g
    <2>4. Sum(g(k + 1), 1..(k + 1)) = Sum(g(k + 1), 1..k) + g(k + 1)[k + 1]
      <3>1. PICK h, S : h = g(k + 1) /\ S = 1..(k + 1)
        OBVIOUS
      <3>2. IsFiniteSet(S) /\ \A i \in S : h[i] \in Int
        BY <1>2, <2>1, <3>1
      <3>3. Sum(h, S) = Sum(h, S \ {k + 1}) + h[k + 1]
        BY <2>1, <3>1, <3>2, SumRemove
      <3>4. QED BY <2>1, <3>1, <3>3
    <2>5. Sum(g(k + 1), 1..k) = Sum(g(k), 1..k)
      BY <1>2, <2>1, <2>2, SumSame
    <2>6. PICK a, b : a = Sum(g(k), 1..k) /\ b = RecordLength(s, k + 1)
      OBVIOUS
    <2>7. /\ RecordEnd(s, k) = 24 + a
          /\ RecordEnd(s, k + 1) = 24 + Sum(g(k + 1), 1..(k + 1))
          /\ a \in Int
      BY <1>2, <2>1, <2>6
    <2>8. b \in Int
      BY <2>1, <2>6, <1>1, RecordFields
    <2>9. Sum(g(k + 1), 1..(k + 1)) = a + b
      BY <2>3, <2>4, <2>5, <2>6
    <2>10. QED BY <2>6, <2>7, <2>8, <2>9
  <1>5. \A k \in 0..Len(s.records) : RecordEnd(s, k) \in Int
    <2> HIDE DEF g
    <2>1. \A k \in 0..Len(s.records) :
            \E a \in Int : RecordEnd(s, k) = 24 + a
      BY <1>2
    <2>2. QED BY <2>1
  <1>6. QED BY <1>1, <1>3, <1>4, <1>5

(* The ends are ordered as the records are.                                *)
LEMMA RecordEndsOrdered ==
  ASSUME NEW s, Recorded(s), NEW j \in 0..Len(s.records),
         NEW k \in j..Len(s.records)
  PROVE  RecordEnd(s, j) <= RecordEnd(s, k)
  <1> DEFINE S == {m \in 0..(k - j) :
                     RecordEnd(s, j) <= RecordEnd(s, j + m)}
  <1>1. /\ Len(s.records) \in Nat
        /\ \A i \in 0..Len(s.records) : RecordEnd(s, i) \in Int
    BY RecordEnds
  <1>2. 0 \in S
    BY <1>1
  <1>3. ASSUME NEW m \in 0..((k - j) - 1), m \in S
        PROVE  m + 1 \in S
    <2>1. j + m \in 0..(Len(s.records) - 1)
      BY <1>1
    <2>2. PICK i : i = j + m
      OBVIOUS
    <2>3. /\ i \in 0..(Len(s.records) - 1) /\ i \in 0..Len(s.records)
          /\ i + 1 \in 1..Len(s.records) /\ i + 1 = j + (m + 1)
      BY <1>1, <2>1, <2>2
    <2>4. RecordEnd(s, i + 1) = RecordEnd(s, i) + RecordLength(s, i + 1)
      BY <2>3, RecordEnds
    <2>5. RecordLength(s, i + 1) \in Nat
      BY <2>3, RecordFields
    <2>6. RecordEnd(s, j) <= RecordEnd(s, i)
      BY <1>3, <2>2
    <2>7. RecordEnd(s, j) <= RecordEnd(s, i + 1)
      BY <1>1, <2>3, <2>4, <2>5, <2>6
    <2>8. QED BY <2>3, <2>7
  <1>4. k - j \in Nat
    BY <1>1
  <1>5. k - j \in S
    <2> HIDE DEF S
    <2>1. QED BY <1>2, <1>3, <1>4, Climb
  <1>6. j + (k - j) = k
    BY <1>1
  <1>7. QED BY <1>5, <1>6

-----------------------------------------------------------------------------
(* Taking records. *)

(* The next record is there in full and nothing is wrong with it.          *)
Complete(s, d) ==
  /\ d.taken < Len(s.records) /\ d.buffer >= HeaderLength(s)
  /\ RecordError(s, d.taken + 1) = "none"
  /\ d.buffer >= RecordLength(s, d.taken + 1)

AfterOne(s, d) ==
  [d EXCEPT !.taken = d.taken + 1,
            !.buffer = d.buffer - RecordLength(s, d.taken + 1)]

AtRest(s, d) ==
  IF d.taken < Len(s.records) /\ d.buffer >= HeaderLength(s)
       /\ RecordError(s, d.taken + 1) # "none"
  THEN [d EXCEPT !.error = RecordError(s, d.taken + 1)] ELSE d

TakeLoop(f, s) ==
  f = [d \in Decoder |->
         IF ~Complete(s, d) THEN AtRest(s, d) ELSE f[AfterOne(s, d)]]

LEMMA RecordErrorType ==
  ASSUME NEW s, NEW k
  PROVE  RecordError(s, k) \in RecordErrors \cup {"none"}
  BY DEF RecordError, RecordErrors

LEMMA DecoderFields ==
  ASSUME NEW d \in Decoder
  PROVE  /\ d.known \in BOOLEAN /\ d.taken \in Nat /\ d.buffer \in Nat
         /\ d.error \in Errors \cup {"none"}
         /\ DOMAIN d = {"known", "taken", "buffer", "error"}
  BY DEF Decoder

LEMMA AfterOneType ==
  ASSUME NEW s, Recorded(s), NEW d \in Decoder, Complete(s, d)
  PROVE  LET r == AfterOne(s, d) IN
         /\ r \in Decoder /\ r.known = d.known /\ r.error = d.error
         /\ r.taken = d.taken + 1
         /\ r.buffer = d.buffer - RecordLength(s, d.taken + 1)
  <1>1. /\ d.taken \in Nat /\ d.buffer \in Nat /\ d.known \in BOOLEAN
        /\ d.error \in Errors \cup {"none"}
    BY DecoderFields
  <1>2. Len(s.records) \in Nat
    BY RecordEnds
  <1>3. d.taken + 1 \in 1..Len(s.records)
    BY <1>1, <1>2 DEF Complete
  <1>4. PICK n : n = RecordLength(s, d.taken + 1)
    OBVIOUS
  <1>5. n \in Nat /\ n <= d.buffer
    BY <1>1, <1>3, <1>4, RecordFields DEF Complete
  <1>6. PICK r : r = [d EXCEPT !.taken = d.taken + 1,
                               !.buffer = d.buffer - n]
    OBVIOUS
  <1>7. /\ r.known = d.known /\ r.error = d.error
        /\ r.taken = d.taken + 1 /\ r.buffer = d.buffer - n
    BY <1>6 DEF Decoder
  <1>8. d.taken + 1 \in Nat /\ d.buffer - n \in Nat
    BY <1>1, <1>5
  <1>9. r \in Decoder
    BY <1>6, <1>8 DEF Decoder
  <1>10. QED BY <1>4, <1>6, <1>7, <1>9 DEF AfterOne

LEMMA TakeRecordsLoop ==
  ASSUME NEW s, Recorded(s)
  PROVE  \E f : TakeLoop(f, s) /\ \A d : TakeRecords(s, d) = f[d]
  <1> DEFINE Same(f) ==
        f = [d \in Decoder |->
               LET k == d.taken + 1 IN
               IF k > Len(s.records) \/ d.buffer < HeaderLength(s) THEN d
               ELSE IF RecordError(s, k) # "none"
               THEN [d EXCEPT !.error = RecordError(s, k)]
               ELSE IF d.buffer < RecordLength(s, k) THEN d
               ELSE f[[d EXCEPT !.taken = k,
                                !.buffer = @ - RecordLength(s, k)]]]
  <1>1. ASSUME NEW f, NEW d \in Decoder
        PROVE  (IF ~Complete(s, d) THEN AtRest(s, d) ELSE f[AfterOne(s, d)])
                 = LET k == d.taken + 1 IN
                   IF k > Len(s.records) \/ d.buffer < HeaderLength(s)
                   THEN d
                   ELSE IF RecordError(s, k) # "none"
                   THEN [d EXCEPT !.error = RecordError(s, k)]
                   ELSE IF d.buffer < RecordLength(s, k) THEN d
                   ELSE f[[d EXCEPT !.taken = k,
                                    !.buffer = @ - RecordLength(s, k)]]
    <2>1. d.taken \in Nat /\ d.buffer \in Nat /\ Len(s.records) \in Nat
      BY DecoderFields, RecordEnds
    <2>2. HeaderLength(s) \in Nat
      BY Lengths
    <2>3. d.taken + 1 <= Len(s.records) =>
            RecordLength(s, d.taken + 1) \in Nat
      BY <2>1, RecordFields
    <2>4. QED BY <2>1, <2>2, <2>3 DEF Complete, AtRest, AfterOne
  <1>2. ASSUME NEW f PROVE Same(f) <=> TakeLoop(f, s)
    <2>1. [d \in Decoder |->
             IF ~Complete(s, d) THEN AtRest(s, d) ELSE f[AfterOne(s, d)]]
            = [d \in Decoder |->
                 LET k == d.taken + 1 IN
                 IF k > Len(s.records) \/ d.buffer < HeaderLength(s) THEN d
                 ELSE IF RecordError(s, k) # "none"
                 THEN [d EXCEPT !.error = RecordError(s, k)]
                 ELSE IF d.buffer < RecordLength(s, k) THEN d
                 ELSE f[[d EXCEPT !.taken = k,
                                  !.buffer = @ - RecordLength(s, k)]]]
      BY <1>1
    <2>2. QED BY <2>1 DEF TakeLoop
  <1>3. \E f : TakeLoop(f, s)
    <2> DEFINE done == [d \in Decoder |-> ~Complete(s, d)]
               out == [d \in Decoder |-> AtRest(s, d)]
               next == [d \in Decoder |-> AfterOne(s, d)]
    <2>1. \A d \in Decoder : ~done[d] => next[d] \in Decoder
      BY AfterOneType
    <2>2. \E f : Loop(f, Decoder, done, next, out)
      <3> HIDE DEF done, out, next
      <3>1. QED BY <2>1, LoopExists
    <2>3. PICK f : Loop(f, Decoder, done, next, out)
      BY <2>2
    <2>4. TakeLoop(f, s)
      BY <2>3 DEF Loop, TakeLoop
    <2>5. QED BY <2>4
  <1>4. \A d : TakeRecords(s, d) = (CHOOSE f : Same(f))[d]
    BY DEF TakeRecords
  <1> HIDE DEF Same
  <1>5. QED BY <1>2, <1>3, <1>4

(* Between d and r good records were taken, and nothing else.              *)
Carries(s, d, r) ==
  /\ r \in Decoder /\ r.known = d.known
  /\ r.buffer <= d.buffer /\ r.taken >= d.taken
  /\ d.taken <= Len(s.records) =>
       /\ r.taken <= Len(s.records)
       /\ RecordEnd(s, r.taken) + r.buffer = RecordEnd(s, d.taken) + d.buffer
       /\ \A i \in (d.taken + 1)..r.taken : RecordError(s, i) = "none"

(* There is no record to take: none, not all of it, or not all of its      *)
(* header.                                                                 *)
Resting(s, r) ==
  \/ r.taken >= Len(s.records) \/ r.buffer < HeaderLength(s)
  \/ /\ RecordError(s, r.taken + 1) = "none"
     /\ r.buffer < RecordLength(s, r.taken + 1)

Took(s, d, r) ==
  /\ Carries(s, d, r)
  /\ (r.error = d.error /\ Resting(s, r)) \/ r.error \in RecordErrors

LEMMA AtRestTook ==
  ASSUME NEW s, Recorded(s), NEW d \in Decoder, ~Complete(s, d)
  PROVE  Took(s, d, AtRest(s, d))
  <1>1. /\ d.taken \in Nat /\ d.buffer \in Nat /\ Len(s.records) \in Nat
        /\ d.known \in BOOLEAN
    BY DecoderFields, RecordEnds
  <1>2. HeaderLength(s) \in Nat
    BY Lengths
  <1>3. d.taken + 1 <= Len(s.records) => RecordLength(s, d.taken + 1) \in Nat
    BY <1>1, RecordFields
  <1>4. CASE /\ d.taken < Len(s.records) /\ d.buffer >= HeaderLength(s)
             /\ RecordError(s, d.taken + 1) # "none"
    <2>1. PICK e : e = RecordError(s, d.taken + 1)
      OBVIOUS
    <2>2. e \in RecordErrors
      BY <1>4, <2>1, RecordErrorType
    <2>3. PICK r : r = [d EXCEPT !.error = e]
      OBVIOUS
    <2>4. /\ r.error = e /\ r.known = d.known /\ r.taken = d.taken
          /\ r.buffer = d.buffer
      BY <2>3 DEF Decoder
    <2>5. r \in Decoder
      BY <2>2, <2>3 DEF Decoder, Errors
    <2>6. AtRest(s, d) = r
      BY <1>4, <2>1, <2>3 DEF AtRest
    <2>7. (d.taken + 1)..d.taken = {}
      BY <1>1
    <2>8. Carries(s, d, r)
      BY <1>1, <2>4, <2>5, <2>7 DEF Carries
    <2>9. QED BY <2>2, <2>4, <2>6, <2>8 DEF Took
  <1>5. CASE ~(/\ d.taken < Len(s.records) /\ d.buffer >= HeaderLength(s)
               /\ RecordError(s, d.taken + 1) # "none")
    <2>1. AtRest(s, d) = d
      BY <1>5 DEF AtRest
    <2>2. Resting(s, d)
      BY <1>1, <1>2, <1>3, <1>5 DEF Resting, Complete
    <2>3. (d.taken + 1)..d.taken = {}
      BY <1>1
    <2>4. Carries(s, d, d)
      BY <1>1, <2>3 DEF Carries
    <2>5. QED BY <2>1, <2>2, <2>4 DEF Took
  <1>6. QED BY <1>4, <1>5

LEMMA AfterOneCarries ==
  ASSUME NEW s, Recorded(s), NEW d \in Decoder, Complete(s, d),
         NEW r, Took(s, AfterOne(s, d), r)
  PROVE  Took(s, d, r)
  <1>1. PICK a, k, n : /\ a = AfterOne(s, d) /\ k = d.taken + 1
                       /\ n = RecordLength(s, k)
    OBVIOUS
  <1>2. /\ d.taken \in Nat /\ d.buffer \in Nat /\ Len(s.records) \in Nat
    BY DecoderFields, RecordEnds
  <1>3. /\ k \in 1..Len(s.records) /\ k \in Nat /\ n \in Nat
        /\ RecordError(s, k) = "none"
    BY <1>1, <1>2, RecordFields DEF Complete
  <1>4. /\ a \in Decoder /\ a.known = d.known /\ a.error = d.error
        /\ a.taken = k /\ a.buffer = d.buffer - n
    BY <1>1, AfterOneType
  <1>5. d.taken \in 0..(Len(s.records) - 1)
    BY <1>1, <1>2, <1>3
  <1>6. /\ RecordEnd(s, k) = RecordEnd(s, d.taken) + n
        /\ RecordEnd(s, k) \in Int /\ RecordEnd(s, d.taken) \in Int
    BY <1>1, <1>2, <1>3, <1>5, RecordEnds
  <1>7. Took(s, a, r)
    BY <1>1
  <1>8. /\ r \in Decoder /\ r.taken \in Nat /\ r.buffer \in Nat
    BY <1>7, DecoderFields DEF Took, Carries
  <1>9. /\ r.taken <= Len(s.records) /\ r.taken >= k
        /\ RecordEnd(s, r.taken) + r.buffer = RecordEnd(s, k) + (d.buffer - n)
        /\ \A i \in (k + 1)..r.taken : RecordError(s, i) = "none"
        /\ r.buffer <= d.buffer - n /\ r.known = d.known
    BY <1>3, <1>4, <1>7 DEF Took, Carries
  <1>10. \A i \in (d.taken + 1)..r.taken : RecordError(s, i) = "none"
    BY <1>1, <1>2, <1>3, <1>8, <1>9
  <1>11. RecordEnd(s, r.taken) + r.buffer = RecordEnd(s, d.taken) + d.buffer
    BY <1>2, <1>3, <1>6, <1>9
  <1>12. Carries(s, d, r)
    BY <1>1, <1>2, <1>3, <1>8, <1>9, <1>10, <1>11 DEF Carries
  <1>13. QED BY <1>4, <1>7, <1>12 DEF Took

(* Records are taken until one is missing or wrong.                        *)
LEMMA TakeRecordsTook ==
  ASSUME NEW s, Recorded(s), NEW decoder \in Decoder
  PROVE  Took(s, decoder, TakeRecords(s, decoder))
  <1>1. PICK f : TakeLoop(f, s) /\ \A d : TakeRecords(s, d) = f[d]
    BY TakeRecordsLoop
  <1> DEFINE m == [d \in Decoder |-> IF d.taken < Len(s.records)
                                     THEN Len(s.records) - d.taken ELSE 0]
             G == {d \in Decoder : Took(s, d, f[d])}
  <1>2. Len(s.records) \in Nat /\ \A d \in Decoder : d.taken \in Nat
    BY DecoderFields, RecordEnds
  <1>3. \A d \in Decoder : m[d] \in Nat
    BY <1>2
  <1>4. ASSUME NEW d \in Decoder,
               \A y \in Decoder : m[y] < m[d] => y \in G
        PROVE  d \in G
    <2>1. f[d] = IF ~Complete(s, d) THEN AtRest(s, d) ELSE f[AfterOne(s, d)]
      BY <1>1 DEF TakeLoop
    <2>2. CASE ~Complete(s, d)
      BY <2>1, <2>2, AtRestTook
    <2>3. CASE Complete(s, d)
      <3>1. PICK a : a = AfterOne(s, d)
        OBVIOUS
      <3>2. a \in Decoder /\ a.taken = d.taken + 1
        BY <2>3, <3>1, AfterOneType
      <3>3. m[a] < m[d]
        BY <1>2, <2>3, <3>2 DEF Complete
      <3>4. a \in G
        BY <1>4, <3>2, <3>3
      <3>5. Took(s, a, f[a]) /\ f[d] = f[a]
        BY <2>1, <2>3, <3>1, <3>4
      <3>6. Took(s, d, f[d])
        BY <2>3, <3>1, <3>5, AfterOneCarries
      <3>7. QED BY <3>6
    <2>4. QED BY <2>2, <2>3
  <1>5. \A d \in Decoder : d \in G
    <2> HIDE DEF m, G
    <2>1. QED BY <1>3, <1>4, ByMeasure
  <1>6. QED BY <1>1, <1>5

-----------------------------------------------------------------------------
(* Decoding what is there. *)

(* A decoder that is where n bytes of a stream lead.                       *)
Standing(s, d, n) ==
  /\ d \in Decoder /\ d.error = "none" /\ n \in Nat
  /\ d.known =>
       /\ HeaderError(s) = "none" /\ d.taken <= Len(s.records)
       /\ \A i \in 1..d.taken : RecordError(s, i) = "none"
       /\ RecordEnd(s, d.taken) + d.buffer = n
  /\ ~d.known => d.taken = 0 /\ d.buffer = n

Rested(s, d) == IF d.known THEN Resting(s, d) ELSE d.buffer < Global

(* A decoder that has found something wrong.                               *)
Failed(d) == d \in Decoder /\ d.error \in HeaderErrors \cup RecordErrors

LEMMA HeaderErrorType ==
  ASSUME NEW s
  PROVE  HeaderError(s) \in HeaderErrors \cup {"none"}
  BY DEF HeaderError, HeaderErrors

LEMMA TakeHeaderGoes ==
  ASSUME NEW s, NEW d \in Decoder
  PROVE  LET h == TakeHeader(s, d) IN
         /\ h \in Decoder /\ h.taken = d.taken /\ h.buffer <= d.buffer
         /\ \/ h = d /\ (d.known \/ d.buffer < Global)
            \/ ~d.known /\ ~h.known /\ h.error \in HeaderErrors
            \/ /\ ~d.known /\ h.known /\ HeaderError(s) = "none"
               /\ h.error = d.error /\ h.buffer = d.buffer - Global
  <1>1. /\ d.taken \in Nat /\ d.buffer \in Nat /\ d.known \in BOOLEAN
        /\ d.error \in Errors \cup {"none"}
    BY DecoderFields
  <1>2. PICK h : h = TakeHeader(s, d)
    OBVIOUS
  <1>3. CASE d.known \/ d.buffer < Global
    BY <1>1, <1>3 DEF TakeHeader
  <1>4. CASE ~(d.known \/ d.buffer < Global) /\ HeaderError(s) # "none"
    <2>1. PICK e : e = HeaderError(s)
      OBVIOUS
    <2>2. h = [d EXCEPT !.error = e] /\ e \in HeaderErrors
      BY <1>2, <1>4, <2>1, HeaderErrorType DEF TakeHeader
    <2>3. /\ h.taken = d.taken /\ h.buffer = d.buffer
          /\ h.known = d.known /\ h.error = e
      BY <2>2 DEF Decoder
    <2>4. h \in Decoder
      BY <2>2 DEF Decoder, Errors
    <2>5. QED BY <1>1, <1>2, <1>4, <2>2, <2>3, <2>4
  <1>5. CASE ~(d.known \/ d.buffer < Global) /\ HeaderError(s) = "none"
    <2>1. h = [d EXCEPT !.known = TRUE, !.buffer = d.buffer - Global]
      BY <1>2, <1>5 DEF TakeHeader
    <2>2. d.buffer - Global \in Nat /\ d.buffer - Global <= d.buffer
      BY <1>1, <1>5 DEF Global
    <2>3. /\ h.taken = d.taken /\ h.buffer = d.buffer - Global
          /\ h.known /\ h.error = d.error
      BY <2>1 DEF Decoder
    <2>4. h \in Decoder
      BY <2>1, <2>2 DEF Decoder
    <2>5. QED BY <1>1, <1>2, <1>5, <2>2, <2>3, <2>4
  <1>6. QED BY <1>3, <1>4, <1>5

LEMMA DecodeAvailableType ==
  ASSUME NEW s, Recorded(s), NEW d \in Decoder
  PROVE  LET r == DecodeAvailable(s, d) IN
         r \in Decoder /\ r.buffer <= d.buffer /\ r.taken >= d.taken
  <1>1. PICK h : h = TakeHeader(s, d)
    OBVIOUS
  <1>2. h \in Decoder /\ h.taken = d.taken /\ h.buffer <= d.buffer
    BY <1>1, TakeHeaderGoes
  <1>3. PICK r : r = TakeRecords(s, h)
    OBVIOUS
  <1>4. Carries(s, h, r)
    BY <1>2, <1>3, TakeRecordsTook DEF Took
  <1>5. /\ r \in Decoder /\ r.buffer <= h.buffer /\ r.taken >= h.taken
        /\ r.buffer \in Nat /\ h.buffer \in Nat /\ d.buffer \in Nat
        /\ d.taken \in Nat
    BY <1>2, <1>4, DecoderFields DEF Carries
  <1>6. DecodeAvailable(s, d) = IF h.known THEN r ELSE h
    BY <1>1, <1>3 DEF DecodeAvailable
  <1>7. QED BY <1>2, <1>5, <1>6

(* Decoding leaves a decoder where it was, or with an error, and at rest.  *)
LEMMA DecodeAvailableGoes ==
  ASSUME NEW s, Recorded(s), NEW d, NEW n, Standing(s, d, n)
  PROVE  LET r == DecodeAvailable(s, d) IN
         (Standing(s, r, n) /\ Rested(s, r)) \/ Failed(r)
  <1>1. PICK h : h = TakeHeader(s, d)
    OBVIOUS
  <1>2. PICK r : r = TakeRecords(s, h)
    OBVIOUS
  <1>3. DecodeAvailable(s, d) = IF h.known THEN r ELSE h
    BY <1>1, <1>2 DEF DecodeAvailable
  <1>4. /\ d \in Decoder /\ d.known \in BOOLEAN /\ d.taken \in Nat
        /\ d.buffer \in Nat /\ d.error = "none" /\ n \in Nat
    BY DecoderFields DEF Standing
  <1>5. /\ h \in Decoder /\ h.taken = d.taken
        /\ \/ h = d /\ (d.known \/ d.buffer < Global)
           \/ ~d.known /\ ~h.known /\ h.error \in HeaderErrors
           \/ /\ ~d.known /\ h.known /\ HeaderError(s) = "none"
              /\ h.error = d.error /\ h.buffer = d.buffer - Global
    BY <1>1, <1>4, TakeHeaderGoes
  <1>6. CASE ~h.known
    <2>1. CASE h.error \in HeaderErrors
      BY <1>3, <1>5, <1>6, <2>1 DEF Failed
    <2>2. CASE h = d /\ d.buffer < Global
      BY <1>3, <1>6, <2>2 DEF Rested
    <2>3. QED BY <1>5, <1>6, <2>1, <2>2
  <1>7. CASE h.known
    <2>1. Standing(s, h, n)
      <3>1. CASE h = d
        BY <3>1
      <3>2. CASE /\ ~d.known /\ HeaderError(s) = "none"
                 /\ h.error = d.error /\ h.buffer = d.buffer - Global
        <4>1. d.taken = 0 /\ d.buffer = n
          BY <3>2 DEF Standing
        <4>2. RecordEnd(s, 0) = Global /\ Len(s.records) \in Nat
          BY RecordEnds
        <4>3. RecordEnd(s, h.taken) + h.buffer = n
          BY <1>4, <1>5, <3>2, <4>1, <4>2 DEF Global
        <4>4. 1..h.taken = {}
          BY <1>5, <4>1
        <4>5. QED
          BY <1>4, <1>5, <1>7, <3>2, <4>1, <4>2, <4>3, <4>4 DEF Standing
      <3>3. QED BY <1>5, <1>7, <3>1, <3>2
    <2>2. Took(s, h, r)
      BY <1>2, <1>5, TakeRecordsTook
    <2>3. Carries(s, h, r)
      BY <2>2 DEF Took
    <2>4. /\ r \in Decoder /\ r.known
          /\ r.taken <= Len(s.records)
          /\ RecordEnd(s, r.taken) + r.buffer = n
          /\ \A i \in (h.taken + 1)..r.taken : RecordError(s, i) = "none"
      BY <1>7, <2>1, <2>3 DEF Carries, Standing
    <2>5. \A i \in 1..r.taken : RecordError(s, i) = "none"
      <3>1. \A i \in 1..h.taken : RecordError(s, i) = "none"
        BY <1>7, <2>1 DEF Standing
      <3>2. h.taken \in Nat /\ r.taken \in Nat
        BY <1>5, <2>4, DecoderFields
      <3>3. QED BY <2>4, <3>1, <3>2
    <2>6. CASE r.error \in RecordErrors
      BY <1>3, <1>7, <2>4, <2>6 DEF Failed
    <2>7. CASE r.error = h.error /\ Resting(s, r)
      BY <1>3, <1>7, <2>1, <2>4, <2>5, <2>7 DEF Standing, Rested
    <2>8. QED BY <2>2, <2>6, <2>7 DEF Took
  <1>8. QED BY <1>6, <1>7, <1>5

(* A decoder at rest holds less than the buffer takes, while the stream    *)
(* goes on.                                                                *)
LEMMA RestedHasRoom ==
  ASSUME NEW s, Recorded(s), NEW d, NEW n, Standing(s, d, n), Rested(s, d),
         n <= StreamLength(s)
  PROVE  d.buffer < BufferCapacity \/ n = StreamLength(s)
  <1>1. /\ d \in Decoder /\ d.taken \in Nat /\ d.buffer \in Nat /\ n \in Nat
    BY DecoderFields DEF Standing
  <1>2. /\ BufferCapacity = MaxPacket + 24 /\ MaxPacket \in Nat \ {0}
        /\ HeaderLength(s) \in {16, 24} /\ Len(s.records) \in Nat
    BY Lengths, RecordEnds, MaxPacketAssumption
  <1>3. CASE ~d.known
    BY <1>1, <1>2, <1>3 DEF Rested, Global
  <1>4. CASE d.known /\ d.taken >= Len(s.records)
    <2>1. d.taken = Len(s.records) /\ RecordEnd(s, d.taken) + d.buffer = n
      BY <1>1, <1>2, <1>4 DEF Standing
    <2>2. RecordEnd(s, d.taken) = StreamLength(s)
      BY <2>1 DEF StreamLength
    <2>3. RecordEnd(s, d.taken) \in Int
      BY <1>1, <1>2, <2>1, RecordEnds
    <2>4. QED BY <1>1, <2>1, <2>2, <2>3
  <1>5. CASE d.known /\ d.buffer < HeaderLength(s)
    BY <1>1, <1>2, <1>5
  <1>6. CASE /\ d.taken < Len(s.records)
             /\ RecordError(s, d.taken + 1) = "none"
             /\ d.buffer < RecordLength(s, d.taken + 1)
    <2>1. PICK k, c : k = d.taken + 1 /\ c = s.records[k].cap
      OBVIOUS
    <2>2. c \in Nat /\ RecordLength(s, k) = HeaderLength(s) + c
      BY <1>1, <1>2, <1>6, <2>1, RecordFields DEF RecordLength
    <2>3. c <= MaxPacket
      BY <1>2, <1>6, <2>1, <2>2 DEF RecordError
    <2>4. PICK b, H, C : /\ b = d.buffer /\ H = HeaderLength(s)
                         /\ C = BufferCapacity
      OBVIOUS
    <2>5. b < H + c /\ H <= 24 /\ C = MaxPacket + 24 /\ H \in Nat
      BY <1>2, <1>6, <2>1, <2>2, <2>4
    <2>6. b < C
      BY <1>1, <1>2, <2>2, <2>3, <2>4, <2>5
    <2>7. QED BY <2>4, <2>6
  <1>7. QED BY <1>1, <1>2, <1>3, <1>4, <1>5, <1>6 DEF Rested, Resting

-----------------------------------------------------------------------------
(* A chunk. *)

Room(d) == BufferCapacity - d.buffer
Piece(d, rest) == Min({Room(d), rest})
Fed(s, d, rest) == DecodeAvailable(s, [d EXCEPT !.buffer = @ + Piece(d, rest)])

PushEnds(x) == x[2] = 0 \/ x[1].error # "none" \/ Room(x[1]) = 0
PushLeaves(x) ==
  IF x[2] = 0 \/ x[1].error # "none" THEN x[1]
  ELSE [x[1] EXCEPT !.error = "BufferLimit"]
PushNext(s, x) == <<Fed(s, x[1], x[2]), x[2] - Piece(x[1], x[2])>>

PushLoop(f, s) ==
  f = [x \in Decoder \X Nat |->
         IF PushEnds(x) THEN PushLeaves(x) ELSE f[PushNext(s, x)]]

LEMMA PieceIs ==
  ASSUME NEW d \in Decoder, NEW rest \in Nat
  PROVE  /\ Room(d) \in Int /\ Piece(d, rest) \in Int
         /\ Piece(d, rest) = IF Room(d) <= rest THEN Room(d) ELSE rest
  <1>1. Room(d) \in Int
    BY DecoderFields, Lengths DEF Room
  <1>2. PICK a : a = Room(d)
    OBVIOUS
  <1>3. Min({a, rest}) = IF a <= rest THEN a ELSE rest
    BY <1>1, <1>2 DEF Min
  <1>4. QED BY <1>1, <1>2, <1>3 DEF Piece

(* What is put into the buffer fits.                                       *)
LEMMA FedFits ==
  ASSUME NEW d \in Decoder, NEW rest \in Nat
  PROVE  LET r == [d EXCEPT !.buffer = @ + Piece(d, rest)] IN
         /\ r \in Decoder /\ r.buffer = d.buffer + Piece(d, rest)
         /\ r.known = d.known /\ r.taken = d.taken /\ r.error = d.error
         /\ r.buffer <= BufferCapacity /\ Piece(d, rest) <= rest
  <1>1. PICK p : p = Piece(d, rest)
    OBVIOUS
  <1>2. /\ Room(d) \in Int /\ p \in Int
        /\ p = IF Room(d) <= rest THEN Room(d) ELSE rest
    BY <1>1, PieceIs
  <1>3. d.buffer \in Nat /\ BufferCapacity \in Nat
    BY DecoderFields, Lengths
  <1>4. d.buffer + p \in Nat /\ d.buffer + p <= BufferCapacity /\ p <= rest
    BY <1>2, <1>3 DEF Room
  <1>5. PICK r : r = [d EXCEPT !.buffer = d.buffer + p]
    OBVIOUS
  <1>6. /\ r.buffer = d.buffer + p
        /\ r.known = d.known /\ r.taken = d.taken /\ r.error = d.error
    BY <1>5 DEF Decoder
  <1>7. r \in Decoder
    BY <1>4, <1>5 DEF Decoder
  <1>8. QED BY <1>1, <1>4, <1>5, <1>6, <1>7

LEMMA FedGoes ==
  ASSUME NEW s, Recorded(s), NEW d \in Decoder, NEW rest \in Nat
  PROVE  /\ Fed(s, d, rest) \in Decoder
         /\ Fed(s, d, rest).buffer <= BufferCapacity
         /\ Fed(s, d, rest).taken >= d.taken
         /\ rest - Piece(d, rest) \in Nat
         /\ \A n \in Nat : Standing(s, d, n) =>
              LET r == Fed(s, d, rest) IN
              \/ /\ Standing(s, r, n + Piece(d, rest)) /\ Rested(s, r)
                 /\ n + Piece(d, rest) \in Nat
              \/ Failed(r)
  <1>1. PICK e : e = [d EXCEPT !.buffer = @ + Piece(d, rest)]
    OBVIOUS
  <1>2. PICK p : p = Piece(d, rest)
    OBVIOUS
  <1>3. /\ e \in Decoder /\ e.buffer = d.buffer + p
        /\ e.known = d.known /\ e.taken = d.taken /\ e.error = d.error
        /\ e.buffer <= BufferCapacity /\ p <= rest /\ p \in Int
    BY <1>1, <1>2, FedFits, PieceIs
  <1>4. PICK r : r = DecodeAvailable(s, e)
    OBVIOUS
  <1>5. r \in Decoder /\ r.buffer <= e.buffer /\ r.taken >= e.taken
    BY <1>3, <1>4, DecodeAvailableType
  <1>6. /\ r.buffer \in Nat /\ e.buffer \in Nat /\ BufferCapacity \in Nat
        /\ d.buffer \in Nat /\ d.taken \in Nat /\ r.taken \in Nat
    BY <1>3, <1>5, DecoderFields, Lengths
  <1>7. Fed(s, d, rest) = r
    BY <1>1, <1>4 DEF Fed
  <1>8. ASSUME NEW n \in Nat, Standing(s, d, n)
        PROVE  \/ /\ Standing(s, r, n + p) /\ Rested(s, r) /\ n + p \in Nat
               \/ Failed(r)
    <2>1. Standing(s, e, n + p)
      <3>1. e.error = "none"
        BY <1>3, <1>8 DEF Standing
      <3>2. CASE d.known
        <4>1. /\ HeaderError(s) = "none" /\ d.taken <= Len(s.records)
              /\ \A i \in 1..d.taken : RecordError(s, i) = "none"
              /\ RecordEnd(s, d.taken) + d.buffer = n
          BY <1>8, <3>2 DEF Standing
        <4>2. PICK end : end = RecordEnd(s, d.taken)
          OBVIOUS
        <4>3. end \in Int
          <5>1. d.taken \in 0..Len(s.records)
            BY <1>6, <4>1, RecordEnds
          <5>2. QED BY <4>2, <5>1, RecordEnds
        <4>4. end + e.buffer = n + p
          <5>1. PICK a, b : a = d.buffer /\ b = e.buffer
            OBVIOUS
          <5>2. /\ b = a + p /\ end + a = n /\ a \in Nat /\ p \in Int
                /\ end \in Int
            BY <1>3, <1>6, <4>1, <4>2, <4>3, <5>1
          <5>3. end + b = n + p
            BY <5>2
          <5>4. QED BY <5>1, <5>3
        <4>5. end >= 24
          <5>1. d.taken \in 0..Len(s.records) /\ 0 \in 0..Len(s.records)
                /\ d.taken >= 0
            BY <1>6, <4>1, RecordEnds
          <5>2. RecordEnd(s, 0) <= end
            BY <4>2, <5>1, RecordEndsOrdered
          <5>3. QED BY <5>2, RecordEnds DEF Global
        <4>6. n + p \in Nat
          BY <1>3, <1>6, <4>3, <4>4, <4>5
        <4>7. QED BY <1>3, <3>1, <3>2, <4>1, <4>2, <4>4, <4>6 DEF Standing
      <3>3. CASE ~d.known
        <4>1. d.taken = 0 /\ d.buffer = n
          BY <1>8, <3>3 DEF Standing
        <4>2. n + p \in Nat /\ e.buffer = n + p
          BY <1>3, <1>6, <4>1
        <4>3. QED BY <1>3, <3>1, <3>3, <4>1, <4>2 DEF Standing
      <3>4. QED BY <3>2, <3>3
    <2>2. n + p \in Nat
      BY <2>1 DEF Standing
    <2>3. QED BY <1>4, <2>1, <2>2, DecodeAvailableGoes
  <1>9. rest - p \in Nat
    BY <1>3
  <1>10. QED BY <1>2, <1>3, <1>5, <1>6, <1>7, <1>8, <1>9

LEMMA PushIsLoop ==
  ASSUME NEW s, Recorded(s)
  PROVE  \E f : /\ PushLoop(f, s)
                /\ \A d, n : Push(s, d, n) = f[<<d, n>>]
  <1> DEFINE Same(f) ==
        f = [x \in Decoder \X Nat |->
               LET d == x[1]
                   rest == x[2]
                   room == BufferCapacity - d.buffer
                   piece == Min({room, rest})
               IN IF rest = 0 \/ d.error # "none" THEN d
                  ELSE IF room = 0 THEN [d EXCEPT !.error = "BufferLimit"]
                  ELSE f[<<DecodeAvailable(s, [d EXCEPT !.buffer = @ + piece]),
                           rest - piece>>]]
  <1>1. ASSUME NEW f PROVE Same(f) <=> PushLoop(f, s)
    <2>1. ASSUME NEW x \in Decoder \X Nat
          PROVE  (IF PushEnds(x) THEN PushLeaves(x) ELSE f[PushNext(s, x)])
                   = LET d == x[1]
                         rest == x[2]
                         room == BufferCapacity - d.buffer
                         piece == Min({room, rest})
                     IN IF rest = 0 \/ d.error # "none" THEN d
                        ELSE IF room = 0
                        THEN [d EXCEPT !.error = "BufferLimit"]
                        ELSE f[<<DecodeAvailable(s,
                                   [d EXCEPT !.buffer = @ + piece]),
                                 rest - piece>>]
      BY DEF PushEnds, PushLeaves, PushNext, Fed, Piece, Room
    <2>2. QED BY <2>1 DEF PushLoop
  <1>2. \E f : PushLoop(f, s)
    <2> DEFINE S == Decoder \X Nat
               done == [x \in S |-> PushEnds(x)]
               out == [x \in S |-> PushLeaves(x)]
               next == [x \in S |-> PushNext(s, x)]
    <2>1. \A x \in S : ~done[x] => next[x] \in S
      BY FedGoes DEF PushNext
    <2>2. \E f : Loop(f, S, done, next, out)
      <3> HIDE DEF done, out, next, S
      <3>1. QED BY <2>1, LoopExists
    <2>3. PICK f : Loop(f, S, done, next, out)
      BY <2>2
    <2>4. PushLoop(f, s)
      BY <2>3 DEF Loop, PushLoop
    <2>5. QED BY <2>4
  <1>3. \A d, n : Push(s, d, n) = (CHOOSE f : Same(f))[<<d, n>>]
    BY DEF Push
  <1> HIDE DEF Same
  <1>4. QED BY <1>1, <1>2, <1>3

(* A decoder that was fed: where the bytes lead, or with an error of the   *)
(* stream, never with a full buffer.                                       *)
Pushed(s, d, n, r) ==
  /\ r \in Decoder /\ r.buffer <= BufferCapacity /\ r.taken >= d.taken
  /\ (Standing(s, r, n) /\ Rested(s, r)) \/ Failed(r)

LEMMA PushGoes ==
  ASSUME NEW s, Recorded(s), NEW decoder, NEW n \in Nat, NEW k \in Nat,
         Standing(s, decoder, n), Rested(s, decoder),
         decoder.buffer <= BufferCapacity, n + k <= StreamLength(s)
  PROVE  Pushed(s, decoder, n + k, Push(s, decoder, k))
  <1>1. PICK f : PushLoop(f, s) /\ \A d, c : Push(s, d, c) = f[<<d, c>>]
    BY PushIsLoop
  <1> DEFINE S == {x \in Decoder \X Nat :
                     /\ x[1].buffer <= BufferCapacity
                     /\ \/ Failed(x[1])
                        \/ /\ Standing(s, x[1], (n + k) - x[2])
                           /\ Rested(s, x[1])}
             m == [x \in S |-> x[2]]
             G == {x \in S : Pushed(s, x[1], n + k, f[x])}
  <1>2. StreamLength(s) \in Int
    BY RecordEnds DEF StreamLength
  <1>3. ASSUME NEW x \in S,
               \A y \in S : m[y] < m[x] => y \in G
        PROVE  x \in G
    <2>1. PICK d, rest : d = x[1] /\ rest = x[2]
      OBVIOUS
    <2>2. /\ x \in Decoder \X Nat /\ d \in Decoder /\ rest \in Nat
          /\ d.buffer <= BufferCapacity
          /\ \/ Failed(d)
             \/ Standing(s, d, (n + k) - rest) /\ Rested(s, d)
      BY <2>1
    <2>3. f[x] = IF PushEnds(x) THEN PushLeaves(x) ELSE f[PushNext(s, x)]
      BY <1>1, <2>2 DEF PushLoop
    <2>4. d.taken \in Nat /\ d.buffer \in Nat /\ BufferCapacity \in Nat
      BY <2>2, DecoderFields, Lengths
    <2>5. CASE Failed(d)
      <3>1. d.error # "none"
        BY <2>5 DEF Failed, HeaderErrors, RecordErrors
      <3>2. f[x] = d
        BY <2>1, <2>3, <3>1 DEF PushEnds, PushLeaves
      <3>3. Pushed(s, d, n + k, d)
        BY <2>2, <2>4, <2>5 DEF Pushed
      <3>4. QED BY <2>1, <3>2, <3>3
    <2>6. CASE rest = 0 /\ ~Failed(d)
      <3>1. f[x] = d
        BY <2>1, <2>3, <2>6 DEF PushEnds, PushLeaves
      <3>2. (n + k) - rest = n + k
        BY <2>6
      <3>3. Pushed(s, d, n + k, d)
        BY <2>2, <2>4, <2>6, <3>2 DEF Pushed
      <3>4. QED BY <2>1, <3>1, <3>3
    <2>7. CASE rest > 0 /\ ~Failed(d)
      <3>1. PICK a : a = (n + k) - rest
        OBVIOUS
      <3>2. Standing(s, d, a) /\ Rested(s, d)
        BY <2>2, <2>7, <3>1
      <3>3. a \in Nat /\ d.error = "none"
        BY <3>2 DEF Standing
      <3>4. a < StreamLength(s)
        BY <1>2, <2>2, <2>7, <3>1
      <3>5. d.buffer < BufferCapacity
        BY <1>2, <2>2, <3>2, <3>3, <3>4, RestedHasRoom
      <3>6. Room(d) > 0 /\ Room(d) \in Int
        BY <2>4, <3>5 DEF Room
      <3>7. ~PushEnds(x)
        BY <2>1, <2>7, <3>3, <3>6 DEF PushEnds
      <3>8. PICK r, p : r = Fed(s, d, rest) /\ p = Piece(d, rest)
        OBVIOUS
      <3>9. /\ p \in Int /\ p > 0 /\ p <= rest
        BY <2>2, <2>7, <3>6, <3>8, PieceIs
      <3>10. /\ r \in Decoder /\ r.buffer <= BufferCapacity
             /\ r.taken >= d.taken /\ rest - p \in Nat
             /\ (Standing(s, r, a + p) /\ Rested(s, r)) \/ Failed(r)
        BY <2>2, <3>2, <3>3, <3>8, FedGoes
      <3>11. PICK y : y = <<r, rest - p>>
        OBVIOUS
      <3>12. y[1] = r /\ y[2] = rest - p /\ y \in Decoder \X Nat
        BY <3>10, <3>11
      <3>13. (n + k) - y[2] = a + p
        BY <2>2, <3>1, <3>9, <3>12
      <3>14. y \in S
        BY <3>10, <3>12, <3>13
      <3>15. m[y] < m[x]
        BY <2>1, <2>2, <3>9, <3>12, <3>14
      <3>16. Pushed(s, r, n + k, f[y])
        BY <1>3, <3>12, <3>14, <3>15
      <3>17. f[x] = f[y]
        BY <2>1, <2>3, <3>7, <3>8, <3>11 DEF PushNext
      <3>18. PICK z : z = f[y]
        OBVIOUS
      <3>19. z \in Decoder /\ z.taken \in Nat /\ r.taken \in Nat
        BY <3>10, <3>16, <3>18, DecoderFields DEF Pushed
      <3>20. Pushed(s, d, n + k, z)
        BY <2>4, <3>10, <3>16, <3>18, <3>19 DEF Pushed
      <3>21. QED BY <2>1, <3>17, <3>18, <3>20
    <2>8. QED BY <2>2, <2>5, <2>6, <2>7
  <1>4. \A x \in S : m[x] \in Nat
    OBVIOUS
  <1>5. \A x \in S : x \in G
    <2> HIDE DEF S, m, G
    <2>1. QED BY <1>3, <1>4, ByMeasure
  <1>6. PICK x : x = <<decoder, k>>
    OBVIOUS
  <1>7. decoder \in Decoder /\ (n + k) - k = n
    BY DEF Standing
  <1>8. x \in S /\ x[1] = decoder
    BY <1>6, <1>7
  <1>9. QED BY <1>1, <1>5, <1>6, <1>8

-----------------------------------------------------------------------------
(* What the reference says. *)

Found(s, n) == {k \in 0..Len(s.records) :
                  /\ \A i \in 1..k : RecordError(s, i) = "none"
                  /\ RecordEnd(s, k) <= n}

LEMMA FoundHasLast ==
  ASSUME NEW s, Recorded(s), NEW n \in Int, n >= Global
  PROVE  /\ Max(Found(s, n)) \in Found(s, n)
         /\ \A k \in Found(s, n) : Max(Found(s, n)) >= k
  <1>1. Len(s.records) \in Nat /\ RecordEnd(s, 0) = Global
    BY RecordEnds
  <1>2. PICK S : S = Found(s, n)
    OBVIOUS
  <1>3. S \subseteq 0..Len(s.records)
    BY <1>2 DEF Found
  <1>4. 0 \in S
    BY <1>1, <1>2 DEF Found
  <1>5. IsFiniteSet(S)
    <2>1. IsFiniteSet(0..Len(s.records))
      BY <1>1, FS_Interval
    <2>2. QED BY <1>3, <2>1, FS_Subset
  <1>6. S \subseteq Int /\ S # {}
    BY <1>1, <1>3, <1>4
  <1>7. PICK x : x = Max(S)
    OBVIOUS
  <1>8. x \in S /\ \A y \in S : y <= x
    BY <1>5, <1>6, <1>7, Extremes
  <1>9. \A y \in S : x >= y
    BY <1>6, <1>8
  <1>10. QED BY <1>2, <1>7, <1>8, <1>9

LEMMA WholeRecordsType ==
  ASSUME NEW s, Recorded(s), NEW n \in Int
  PROVE  WholeRecords(s, n) \in Nat
  <1>1. CASE HeaderError(s) # "none" \/ n < Global
    BY <1>1 DEF WholeRecords
  <1>2. CASE ~(HeaderError(s) # "none" \/ n < Global)
    <2>1. n >= Global
      BY <1>2 DEF Global
    <2>2. WholeRecords(s, n) = Max(Found(s, n))
      BY <1>2 DEF WholeRecords, Found
    <2>3. Max(Found(s, n)) \in Found(s, n)
      BY <2>1, FoundHasLast
    <2>4. Len(s.records) \in Nat
      BY RecordEnds
    <2>5. QED BY <2>2, <2>3, <2>4 DEF Found
  <1>3. QED BY <1>1, <1>2

(* More bytes hold no fewer records.                                       *)
LEMMA WholeRecordsGrow ==
  ASSUME NEW s, Recorded(s), NEW n \in Int, NEW l \in Int, n <= l
  PROVE  WholeRecords(s, n) <= WholeRecords(s, l)
  <1>1. WholeRecords(s, n) \in Nat /\ WholeRecords(s, l) \in Nat
    BY WholeRecordsType
  <1>2. CASE HeaderError(s) # "none" \/ n < Global
    <2>1. WholeRecords(s, n) = 0
      BY <1>2 DEF WholeRecords
    <2>2. QED BY <1>1, <2>1
  <1>3. CASE ~(HeaderError(s) # "none" \/ n < Global)
    <2>1. n >= Global /\ l >= Global
      BY <1>3 DEF Global
    <2>2. /\ WholeRecords(s, n) = Max(Found(s, n))
          /\ WholeRecords(s, l) = Max(Found(s, l))
      BY <1>3, <2>1 DEF WholeRecords, Found, Global
    <2>3. \A k \in 0..Len(s.records) : RecordEnd(s, k) \in Int
      BY RecordEnds
    <2>4. Found(s, n) \subseteq Found(s, l)
      BY <2>3 DEF Found
    <2>5. Max(Found(s, n)) \in Found(s, l)
      BY <2>1, <2>4, FoundHasLast
    <2>6. Max(Found(s, l)) >= Max(Found(s, n))
      BY <2>1, <2>5, FoundHasLast
    <2>7. QED BY <1>1, <2>2, <2>6
  <1>4. QED BY <1>2, <1>3

(* A decoder at rest has given out all that is there.                      *)
LEMMA RestedHasTakenAll ==
  ASSUME NEW s, Recorded(s), NEW d, NEW n, Standing(s, d, n), Rested(s, d)
  PROVE  WholeRecords(s, n) = d.taken
  <1>1. /\ d.taken \in Nat /\ d.buffer \in Nat /\ n \in Nat
        /\ Len(s.records) \in Nat /\ HeaderLength(s) \in Nat
        /\ \A k \in 0..Len(s.records) : RecordEnd(s, k) \in Int
    BY DecoderFields, RecordEnds, Lengths DEF Standing
  <1>2. CASE ~d.known
    <2>1. d.taken = 0 /\ n < Global
      BY <1>2 DEF Standing, Rested
    <2>2. QED BY <2>1 DEF WholeRecords
  <1>3. CASE d.known
    <2>1. PICK k, b, end : k = d.taken /\ b = d.buffer
                           /\ end = RecordEnd(s, k)
      OBVIOUS
    <2>2. /\ HeaderError(s) = "none" /\ k \in 0..Len(s.records)
          /\ \A i \in 1..k : RecordError(s, i) = "none"
          /\ end + b = n /\ end \in Int /\ b \in Nat /\ k \in Nat
      BY <1>1, <1>3, <2>1 DEF Standing
    <2>3. end <= n
      BY <1>1, <2>2
    <2>4. n >= Global
      <3>1. 0 \in 0..Len(s.records) /\ k \in 0..Len(s.records)
            /\ RecordEnd(s, 0) = Global
        BY <1>1, <2>2, RecordEnds
      <3>2. Global <= end
        BY <2>1, <3>1, RecordEndsOrdered
      <3>3. QED BY <1>1, <2>2, <2>3, <3>2 DEF Global
    <2>5. k \in Found(s, n)
      BY <2>1, <2>2, <2>3 DEF Found
    <2>6. ASSUME NEW j \in Found(s, n) PROVE j <= k
      <3>1. /\ j \in 0..Len(s.records) /\ RecordEnd(s, j) <= n
            /\ \A i \in 1..j : RecordError(s, i) = "none"
        BY <2>6 DEF Found
      <3>2. SUFFICES ASSUME j > k PROVE FALSE
        BY <2>2, <3>1
      <3>3. /\ k + 1 \in 0..Len(s.records) /\ k \in 0..(Len(s.records) - 1)
            /\ k + 1 \in 1..Len(s.records) /\ j \in (k + 1)..Len(s.records)
            /\ k + 1 \in 1..j
        BY <1>1, <2>2, <3>1, <3>2
      <3>4. PICK q, l, h : /\ q = RecordEnd(s, k + 1) /\ h = HeaderLength(s)
                           /\ l = RecordLength(s, k + 1)
        OBVIOUS
      <3>5. q = end + l /\ q \in Int
        BY <1>1, <2>1, <3>3, <3>4, RecordEnds
      <3>6. l \in Nat /\ l >= h
        BY <3>3, <3>4, RecordFields
      <3>7. q <= RecordEnd(s, j)
        BY <3>3, <3>4, RecordEndsOrdered
      <3>8. q <= n
        BY <1>1, <3>1, <3>5, <3>7
      <3>9. l <= b
        BY <1>1, <2>2, <3>5, <3>6, <3>8
      <3>10. RecordError(s, k + 1) = "none" /\ k < Len(s.records)
        BY <3>1, <3>3
      <3>11. Resting(s, d)
        BY <1>3 DEF Rested
      <3>12. b < h \/ b < l
        BY <1>1, <2>1, <2>2, <3>4, <3>10, <3>11 DEF Resting
      <3>13. QED BY <1>1, <2>2, <3>4, <3>6, <3>9, <3>12
    <2>7. /\ Max(Found(s, n)) \in Found(s, n)
          /\ Max(Found(s, n)) >= k
      BY <1>1, <2>4, <2>5, FoundHasLast
    <2>8. Max(Found(s, n)) <= k
      BY <2>6, <2>7
    <2>9. Max(Found(s, n)) \in Nat
      BY <1>1, <2>7 DEF Found
    <2>10. Max(Found(s, n)) = k
      BY <2>2, <2>7, <2>8, <2>9
    <2>11. WholeRecords(s, n) = Max(Found(s, n))
      BY <1>1, <2>2, <2>4 DEF WholeRecords, Found, Global
    <2>12. QED BY <2>1, <2>10, <2>11
  <1>4. QED BY <1>2, <1>3 DEF Standing

-----------------------------------------------------------------------------
(* The packets of a stream.  While its session goes on, a worker has given *)
(* out, or holds, what its decoder has taken; between chunks the decoder   *)
(* is at rest where the bytes lead, so that it has taken all that is there *)
(* and its buffer has room.                                                *)

SessionNames ==
  {"stream", "decoder", "received", "fresh", "delivered", "active",
   "observer"}

Metered(v) ==
  /\ DOMAIN v = SessionNames
  /\ Recorded(v.stream) /\ v.received \in 0..StreamLength(v.stream)
  /\ v.fresh \in Nat /\ v.delivered \in Nat
  /\ v.delivered + v.fresh <= WholeRecords(v.stream, v.received)
  /\ v.decoder \in Decoder /\ v.decoder.buffer <= BufferCapacity
  /\ v.decoder.error # "BufferLimit"

InStep(v) ==
  /\ Standing(v.stream, v.decoder, v.received)
  /\ Rested(v.stream, v.decoder)
  /\ v.delivered + v.fresh = v.decoder.taken

Decoding == {"stream", "deliver", "count", "expire"}

InterfaceMetered(w) ==
  /\ Metered(session[w])
  /\ worker[w] \in Decoding => InStep(session[w])
  /\ worker[w] \in {"stream", "expire"} => session[w].fresh = 0

LocalMetered(l) ==
  DOMAIN session[l] = SessionNames /\ session[l].decoder \in Decoder

Metering ==
  /\ \A w \in Interfaces : InterfaceMetered(w)
  /\ \A l \in Locals : LocalMetered(l)

SameFlow(v, u) ==
  /\ DOMAIN u = DOMAIN v /\ u.stream = v.stream /\ u.decoder = v.decoder
  /\ u.received = v.received /\ u.fresh = v.fresh
  /\ u.delivered = v.delivered

LEMMA MeteredKept ==
  ASSUME NEW w, InterfaceMetered(w), SameFlow(session[w], session'[w]),
         worker'[w] \in Decoding => worker[w] \in Decoding,
         worker'[w] \in {"stream", "expire"} => session[w].fresh = 0
  PROVE  InterfaceMetered(w)'
  <1>1. PICK v, u : v = session[w] /\ u = session'[w]
    OBVIOUS
  <1>2. Metered(u)
    BY <1>1 DEF InterfaceMetered, Metered, SameFlow
  <1>3. InStep(v) => InStep(u)
    BY <1>1 DEF InStep, SameFlow
  <1>4. u.fresh = v.fresh
    BY <1>1 DEF SameFlow
  <1>5. QED BY <1>1, <1>2, <1>3, <1>4 DEF InterfaceMetered

(* What is written to the other fields of a session is nothing to its      *)
(* stream.                                                                 *)
LEMMA FlowUntouched ==
  ASSUME NEW w \in DOMAIN session, DOMAIN session[w] = SessionNames, NEW x,
         \/ session' = session
         \/ session' = [session EXCEPT ![w].observer = x]
         \/ session' = [session EXCEPT ![w].active = x]
         \/ session' = [session EXCEPT ![w].observer.out = x]
  PROVE  SameFlow(session[w], session'[w])
  <1>1. PICK v, u : v = session[w] /\ u = session'[w]
    OBVIOUS
  <1>2. CASE session' = session
    BY <1>2 DEF SameFlow
  <1>3. CASE \E o : session' = [session EXCEPT ![w].observer = o]
    <2>1. PICK o : session' = [session EXCEPT ![w].observer = o]
      BY <1>3
    <2>2. u = [v EXCEPT !.observer = o]
      BY <1>1, <2>1
    <2>3. QED BY <1>1, <2>2 DEF SameFlow, SessionNames
  <1>4. CASE session' = [session EXCEPT ![w].active = x]
    <2>1. u = [v EXCEPT !.active = x]
      BY <1>1, <1>4
    <2>2. QED BY <1>1, <2>1 DEF SameFlow, SessionNames
  <1>5. CASE session' = [session EXCEPT ![w].observer.out = x]
    <2>1. PICK o : o = [session[w].observer EXCEPT !.out = x]
      OBVIOUS
    <2>2. session' = [session EXCEPT ![w].observer = o]
      BY <1>5, <2>1
    <2>3. QED BY <1>3, <2>2
  <1>6. QED BY <1>2, <1>3, <1>4, <1>5

LEMMA MeteredNew ==
  ASSUME NEW s, Recorded(s)
  PROVE  LET v == [NoSession EXCEPT !.stream = s] IN
         Metered(v) /\ InStep(v) /\ v.fresh = 0
  <1>1. PICK v : v = [NoSession EXCEPT !.stream = s]
    OBVIOUS
  <1>2. /\ DOMAIN v = SessionNames /\ v.stream = s /\ v.received = 0
        /\ v.fresh = 0 /\ v.delivered = 0 /\ v.decoder = NewDecoder
    BY <1>1 DEF NoSession, SessionNames
  <1>3. PICK d : d = NewDecoder
    OBVIOUS
  <1>4. /\ d \in Decoder /\ ~d.known /\ d.taken = 0 /\ d.buffer = 0
        /\ d.error = "none"
    BY <1>3 DEF NewDecoder, Decoder
  <1>5. Standing(s, d, 0) /\ Rested(s, d)
    BY <1>4 DEF Standing, Rested, Global
  <1>6. 0 \in 0..StreamLength(s)
    <2>1. /\ Len(s.records) \in Nat /\ RecordEnd(s, 0) = 24
          /\ StreamLength(s) \in Int
      BY RecordEnds DEF Global, StreamLength
    <2>2. RecordEnd(s, 0) <= StreamLength(s)
      BY <2>1, RecordEndsOrdered DEF StreamLength
    <2>3. QED BY <2>1, <2>2
  <1>7. WholeRecords(s, 0) \in Nat
    BY WholeRecordsType
  <1>8. 0 <= BufferCapacity
    BY Lengths
  <1>9. Metered(v)
    BY <1>2, <1>3, <1>4, <1>6, <1>7, <1>8 DEF Metered
  <1>10. InStep(v)
    BY <1>2, <1>3, <1>4, <1>5 DEF InStep
  <1>11. QED BY <1>1, <1>2, <1>9, <1>10

LEMMA NothingRecorded == Recorded(NoStream) /\ Metered(NoSession)
  <1>1. Recorded(NoStream)
    <2>1. NoStream.records = <<>> /\ NoStream.snaplen = 0
      BY DEF NoStream
    <2>2. <<>> \in Seq([cap : Nat, orig : Nat])
      OBVIOUS
    <2>3. QED BY <2>1, <2>2 DEF Recorded
  <1>2. [NoSession EXCEPT !.stream = NoStream] = NoSession
    <2>1. PICK v, u : v = NoSession /\ u = [v EXCEPT !.stream = NoStream]
      OBVIOUS
    <2>2. v.stream = NoStream /\ v = [x \in DOMAIN v |-> v[x]]
      BY <2>1 DEF NoSession
    <2>3. u = v
      BY <2>1, <2>2
    <2>4. QED BY <2>1, <2>3
  <1>3. QED BY <1>1, <1>2, MeteredNew

(* A chunk: the decoder goes on as the bytes do, or the session ends.      *)
LEMMA ChunkMeters ==
  ASSUME NEW v, Metered(v), InStep(v), v.fresh = 0, NEW n \in Nat, n > 0,
         n <= StreamLength(v.stream) - v.received, NEW d,
         d = Push(v.stream, v.decoder, n), NEW u,
         u = [v EXCEPT !.decoder = d, !.received = v.received + n,
                       !.fresh = IF d.error = "none"
                                 THEN d.taken - v.decoder.taken ELSE 0]
  PROVE  Metered(u) /\ (d.error = "none" => InStep(u))
  <1>1. PICK s, e, r, g : /\ s = v.stream /\ e = v.decoder
                          /\ r = v.received /\ g = v.delivered
    OBVIOUS
  <1>2. /\ Recorded(s) /\ r \in Nat /\ StreamLength(s) \in Int
        /\ e \in Decoder /\ e.buffer <= BufferCapacity /\ g \in Nat
        /\ Standing(s, e, r) /\ Rested(s, e) /\ g = e.taken
        /\ DOMAIN v = SessionNames
    <2>1. /\ Recorded(s) /\ r \in 0..StreamLength(s)
          /\ e \in Decoder /\ e.buffer <= BufferCapacity /\ g \in Nat
          /\ Standing(s, e, r) /\ Rested(s, e) /\ g + 0 = e.taken
          /\ DOMAIN v = SessionNames
      BY <1>1 DEF Metered, InStep
    <2>2. StreamLength(s) \in Int
      BY <2>1, RecordEnds DEF StreamLength
    <2>3. QED BY <2>1, <2>2
  <1>3. r + n \in 0..StreamLength(s)
    BY <1>1, <1>2
  <1>4. Pushed(s, e, r + n, d)
    BY <1>1, <1>2, <1>3, PushGoes
  <1>5. /\ u.stream = s /\ u.decoder = d /\ u.received = r + n
        /\ u.delivered = g /\ DOMAIN u = SessionNames
        /\ u.fresh = IF d.error = "none" THEN d.taken - e.taken ELSE 0
    BY <1>1, <1>2 DEF SessionNames
  <1>6. /\ d \in Decoder /\ d.buffer <= BufferCapacity
        /\ d.taken >= e.taken /\ d.taken \in Nat /\ e.taken \in Nat
    BY <1>2, <1>4, DecoderFields DEF Pushed
  <1>7. PICK whole : whole = WholeRecords(s, r + n)
    OBVIOUS
  <1>8. whole \in Nat /\ WholeRecords(s, r) <= whole
    BY <1>2, <1>3, <1>7, WholeRecordsGrow, WholeRecordsType
  <1>9. CASE Standing(s, d, r + n) /\ Rested(s, d)
    <2>1. d.error = "none" /\ whole = d.taken
      BY <1>2, <1>7, <1>9, RestedHasTakenAll DEF Standing
    <2>2. u.fresh \in Nat /\ u.delivered + u.fresh = d.taken
      BY <1>2, <1>5, <1>6, <2>1
    <2>3. Metered(u)
      BY <1>2, <1>3, <1>5, <1>6, <1>7, <2>1, <2>2 DEF Metered
    <2>4. InStep(u)
      BY <1>5, <1>9, <2>2 DEF InStep
    <2>5. QED BY <2>3, <2>4
  <1>10. CASE Failed(d)
    <2>1. d.error # "none" /\ d.error # "BufferLimit"
      BY <1>10 DEF Failed, HeaderErrors, RecordErrors
    <2>2. WholeRecords(s, r) = g
      BY <1>2, RestedHasTakenAll
    <2>3. u.fresh = 0 /\ u.delivered + u.fresh <= whole
      BY <1>2, <1>5, <1>8, <2>1, <2>2
    <2>4. Metered(u)
      BY <1>2, <1>3, <1>5, <1>6, <1>7, <2>1, <2>3 DEF Metered
    <2>5. QED BY <2>1, <2>4
  <1>11. QED BY <1>4, <1>9, <1>10 DEF Pushed

LEMMA WorkMeters ==
  ASSUME cast \in Casts, Record, NEW w \in Interfaces, w \in DOMAIN session,
         InterfaceMetered(w), Work(w) \/ StreamEnds(w)
  PROVE  InterfaceMetered(w)'
  <1>1. w \in DOMAIN worker /\ DOMAIN session[w] = SessionNames
    BY DEF Record, Workers, InterfaceMetered, Metered
  <1>2. CASE UNCHANGED session
    <2>1. SameFlow(session[w], session'[w])
      BY <1>1, <1>2, FlowUntouched
    <2>2. CASE ChunkDelivered(w)
      <3>1. /\ worker[w] = "deliver" /\ session[w].fresh = 0
        BY <2>2 DEF ChunkDelivered
      <3>2. QED BY <2>1, <3>1, MeteredKept DEF Decoding
    <2>3. CASE CountUp(w)
      <3>1. worker[w] = "count" /\ worker'[w] = "deliver"
        BY <1>1, <2>3 DEF CountUp, Go
      <3>2. QED BY <2>1, <3>1, MeteredKept DEF Decoding
    <2>4. CASE ExpireFlows(w)
      <3>1. worker[w] = "expire" /\ session[w].fresh = 0
        BY <2>4 DEF ExpireFlows, InterfaceMetered
      <3>2. QED BY <2>1, <3>1, MeteredKept DEF Decoding
    <2>5. CASE ReceiveChunk(w)
      <3>1. worker[w] = "stream" /\ session[w].fresh = 0
        BY <2>5 DEF ReceiveChunk, InterfaceMetered
      <3>2. QED BY <2>1, <3>1, MeteredKept DEF Decoding
    <2>6. CASE InterfaceUp(w)
      <3>1. worker[w] = "deliver" /\ worker'[w] = "count"
        BY <1>1, <2>6 DEF InterfaceUp, Go
      <3>2. QED BY <2>1, <3>1, MeteredKept DEF Decoding
    <2>7. CASE DeliverPacket(w)
      <3>1. worker[w] = "deliver" /\ worker'[w] = "deliver"
        BY <1>1, <2>7 DEF DeliverPacket
      <3>2. QED BY <2>1, <3>1, MeteredKept DEF Decoding
    <2>8. CASE StartCapture(w) /\ worker'[w] \in Decoding
      <3>1. \E s \in cast.streams \cup cast.broken :
              session' = [session EXCEPT ![w] = [NoSession EXCEPT
                                                   !.stream = s]]
        BY <1>1, <2>8 DEF StartCapture, Fails, Go, Decoding
      <3>2. PICK s \in cast.streams \cup cast.broken :
              session'[w] = [NoSession EXCEPT !.stream = s]
        BY <3>1
      <3>3. Recorded(s)
        BY CastsAssumption
      <3>4. QED BY <3>2, <3>3, MeteredNew DEF InterfaceMetered
    <2>9. CASE /\ ~ChunkDelivered(w) /\ ~CountUp(w) /\ ~ExpireFlows(w)
               /\ ~ReceiveChunk(w) /\ ~InterfaceUp(w) /\ ~DeliverPacket(w)
               /\ ~(StartCapture(w) /\ worker'[w] \in Decoding)
      <3>1. worker'[w] \notin Decoding
        BY <1>1, <2>9 DEF Work, StopAtTop, StartSession, LoadCredentials,
             Authenticate, Discover, StopStream, DrainFlows,
             InterfaceDown, CountDown, SessionEnded, Wait, StreamEnds,
             EndStream, Fails, Go, Decoding
      <3>2. QED BY <2>1, <3>1, MeteredKept DEF Decoding
    <2>10. QED BY <2>2, <2>3, <2>4, <2>5, <2>6, <2>7, <2>8, <2>9
  <1>3. CASE StartCapture(w) /\ ~UNCHANGED session
    <2>1. PICK s \in cast.streams \cup cast.broken :
            session'[w] = [NoSession EXCEPT !.stream = s]
      BY <1>3 DEF StartCapture
    <2>2. Recorded(s)
      BY CastsAssumption
    <2>3. QED BY <2>1, <2>2, MeteredNew DEF InterfaceMetered
  <1>4. CASE ReceiveChunk(w)
    <2> DEFINE n(size) ==
                 Min({size, StreamLength(session[w].stream)
                              - session[w].received})
               d(size) ==
                 Push(session[w].stream, session[w].decoder, n(size))
               fresh(size) ==
                 IF d(size).error = "none"
                 THEN d(size).taken - session[w].decoder.taken ELSE 0
    <2>1. PICK size \in cast.chunks :
            /\ n(size) > 0
            /\ session' = [session EXCEPT ![w].decoder = d(size),
                             ![w].received = @ + n(size),
                             ![w].fresh = fresh(size)]
            /\ \/ d(size).error # "none" /\ EndStream(w, "malformed_pcap")
               \/ /\ d(size).error = "none"
                  /\ EndStream(w, "unsupported_link_type")
               \/ d(size).error = "none" /\ Go(w, "deliver")
      BY <1>4 DEF ReceiveChunk
    <2>2. PICK v, k, e, f, room :
            /\ v = session[w] /\ k = n(size) /\ e = d(size)
            /\ f = fresh(size)
            /\ room = StreamLength(session[w].stream) - session[w].received
      OBVIOUS
    <2>3. /\ Metered(v) /\ InStep(v) /\ v.fresh = 0
      BY <1>4, <2>2 DEF ReceiveChunk, InterfaceMetered, Decoding
    <2>4. k \in Nat /\ k > 0 /\ k <= room
      <3>1. size \in Nat
        BY CastsAssumption
      <3>2. room \in Int
        <4>1. Recorded(v.stream) /\ v.received \in 0..StreamLength(v.stream)
          BY <2>3 DEF Metered
        <4>2. StreamLength(v.stream) \in Int
          BY <4>1, RecordEnds DEF StreamLength
        <4>3. QED BY <2>2, <4>1, <4>2
      <3>3. k = Min({size, room}) /\ k > 0
        BY <2>1, <2>2
      <3>4. k = IF size <= room THEN size ELSE room
        BY <3>1, <3>2, <3>3 DEF Min
      <3>5. QED BY <3>1, <3>2, <3>3, <3>4
    <2>5. e = Push(v.stream, v.decoder, k)
      BY <2>2
    <2>6. f = IF e.error = "none" THEN e.taken - v.decoder.taken ELSE 0
      BY <2>2
    <2> HIDE DEF n, d, fresh
    <2>7. session' = [session EXCEPT ![w].decoder = e,
                        ![w].received = v.received + k, ![w].fresh = f]
      BY <2>1, <2>2
    <2>8. session'[w] = [v EXCEPT !.decoder = e, !.received = v.received + k,
                                  !.fresh = f]
      BY <2>2, <2>7
    <2>9. PICK u : u = session'[w]
      OBVIOUS
    <2>10. Metered(u) /\ (e.error = "none" => InStep(u))
      <3>1. u = [v EXCEPT !.decoder = e, !.received = v.received + k,
                          !.fresh = IF e.error = "none"
                                    THEN e.taken - v.decoder.taken ELSE 0]
        BY <2>6, <2>8, <2>9
      <3>2. k <= StreamLength(v.stream) - v.received
        BY <2>2, <2>4
      <3>3. QED BY <2>3, <2>4, <2>5, <3>1, <3>2, ChunkMeters
    <2>11. \/ worker'[w] = "drain"
           \/ worker'[w] = "deliver" /\ e.error = "none"
      BY <1>1, <2>1, <2>2 DEF EndStream, Go
    <2>12. QED BY <2>9, <2>10, <2>11 DEF InterfaceMetered, Decoding
  <1>5. CASE InterfaceUp(w)
    <2>1. /\ session' = [session EXCEPT ![w].active = TRUE]
          /\ worker[w] = "deliver" /\ worker'[w] = "count"
      BY <1>1, <1>5 DEF InterfaceUp, Go
    <2>2. QED BY <1>1, <2>1, FlowUntouched, MeteredKept DEF Decoding
  <1>6. CASE DeliverPacket(w)
    <2>1. PICK f \in cast.frames :
            session' = [session EXCEPT
                          ![w].fresh = @ - 1, ![w].delivered = @ + 1,
                          ![w].observer = HandleFrame(@, cast, f, now)]
      BY <1>6 DEF DeliverPacket
    <2>2. PICK o : o = HandleFrame(session[w].observer, cast, f, now)
      OBVIOUS
    <2>3. session' = [session EXCEPT
                        ![w].fresh = session[w].fresh - 1,
                        ![w].delivered = session[w].delivered + 1,
                        ![w].observer = o]
      BY <2>1, <2>2
    <2>4. PICK v, u : v = session[w] /\ u = session'[w]
      OBVIOUS
    <2>5. u = [v EXCEPT !.fresh = v.fresh - 1, !.delivered = v.delivered + 1,
                        !.observer = o]
      BY <2>3, <2>4
    <2>6. /\ worker[w] = "deliver" /\ worker'[w] = "deliver"
          /\ v.fresh > 0 /\ Metered(v) /\ InStep(v)
      BY <1>6, <2>4 DEF DeliverPacket, InterfaceMetered, Decoding
    <2>7. v.fresh \in Nat /\ v.delivered \in Nat /\ DOMAIN v = SessionNames
      BY <2>6 DEF Metered
    <2>8. /\ DOMAIN u = SessionNames /\ u.stream = v.stream
          /\ u.decoder = v.decoder /\ u.received = v.received
          /\ u.fresh = v.fresh - 1 /\ u.delivered = v.delivered + 1
      BY <2>5, <2>7 DEF SessionNames
    <2>9. /\ u.fresh \in Nat /\ u.delivered \in Nat
          /\ u.delivered + u.fresh = v.delivered + v.fresh
      BY <2>6, <2>7, <2>8
    <2>10. Metered(u) /\ InStep(u)
      BY <2>6, <2>8, <2>9 DEF Metered, InStep
    <2>11. QED BY <2>4, <2>6, <2>10 DEF InterfaceMetered
  <1>7. CASE ExpireFlows(w)
    <2>1. PICK o : session' = [session EXCEPT ![w].observer = o]
      <3>1. PICK o : o = Expire(session[w].observer, now)
        OBVIOUS
      <3>2. QED BY <1>7, <3>1 DEF ExpireFlows
    <2>2. worker[w] = "expire" /\ session[w].fresh = 0
      BY <1>7 DEF ExpireFlows, InterfaceMetered
    <2>3. QED BY <1>1, <2>1, <2>2, FlowUntouched, MeteredKept DEF Decoding
  <1>8. CASE DrainFlows(w) /\ session[w].active
    <2>1. PICK o : session' = [session EXCEPT ![w].observer = o]
      <3>1. PICK o : o = Drain(session[w].observer)
        OBVIOUS
      <3>2. QED BY <1>8, <3>1 DEF DrainFlows
    <2>2. worker'[w] = "lower"
      BY <1>1, <1>8 DEF DrainFlows, Go
    <2>3. QED BY <1>1, <2>1, <2>2, FlowUntouched, MeteredKept DEF Decoding
  <1>9. CASE InterfaceDown(w) \/ (DrainFlows(w) /\ ~session[w].active)
    <2>1. session'[w] = NoSession /\ worker'[w] \in {"uncount", "ended"}
      BY <1>1, <1>9 DEF InterfaceDown, DrainFlows, Close, Go
    <2>2. QED BY <2>1, NothingRecorded DEF InterfaceMetered, Decoding
  <1>10. \/ UNCHANGED session
         \/ StartCapture(w) \/ ReceiveChunk(w) \/ InterfaceUp(w)
         \/ DeliverPacket(w) \/ ExpireFlows(w) \/ DrainFlows(w)
         \/ InterfaceDown(w)
    BY DEF Work, StopAtTop, StartSession, LoadCredentials, Authenticate,
           Discover, StopStream, CountUp, ChunkDelivered, CountDown,
           SessionEnded, Wait, StreamEnds
  <1>11. QED
    BY <1>2, <1>3, <1>4, <1>5, <1>6, <1>7, <1>8, <1>9, <1>10


LEMMA LocalMeters ==
  ASSUME Record, NEW l \in Locals, l \in DOMAIN session, LocalMetered(l),
         LocalWork(l)
  PROVE  LocalMetered(l)'
  <1>1. PICK v, u : v = session[l] /\ u = session'[l]
    OBVIOUS
  <1>2. DOMAIN v = SessionNames /\ v.decoder \in Decoder
    BY <1>1 DEF LocalMetered
  <1>3. \/ u = v
        \/ \E o : u = [v EXCEPT !.observer = o]
        \/ \E m, o : u = [v EXCEPT !.delivered = m, !.observer = o]
        \/ u = NoSession
    <2>1. CASE CheckLocal(l)
      <3>1. PICK o : o = Drain(session[l].observer)
        OBVIOUS
      <3>2. \/ session' = session
            \/ session' = [session EXCEPT ![l].observer = o]
        BY <2>1, <3>1 DEF CheckLocal
      <3>3. QED BY <1>1, <3>2
    <2>2. CASE ReceiveLocal(l)
      <3>1. CASE UNCHANGED session
        BY <1>1, <3>1
      <3>2. CASE ~UNCHANGED session
        <4>1. PICK f \in cast.frames :
                session' = [session EXCEPT
                              ![l].delivered = @ + 1,
                              ![l].observer = HandleFrame(@, cast, f, now)]
          BY <2>2, <3>2 DEF ReceiveLocal
        <4>2. PICK m, o : /\ m = session[l].delivered + 1
                          /\ o = HandleFrame(session[l].observer, cast, f,
                                             now)
          OBVIOUS
        <4>3. session' = [session EXCEPT ![l].delivered = m,
                                         ![l].observer = o]
          BY <4>1, <4>2
        <4>4. u = [v EXCEPT !.delivered = m, !.observer = o]
          BY <1>1, <4>3
        <4>5. QED BY <4>4
      <3>3. QED BY <3>1, <3>2
    <2>3. CASE ExpireLocal(l)
      <3>1. PICK o : o = Expire(session[l].observer, now)
        OBVIOUS
      <3>2. session' = [session EXCEPT ![l].observer = o]
        BY <2>3, <3>1 DEF ExpireLocal
      <3>3. QED BY <1>1, <3>2
    <2>4. CASE LocalEnds(l)
      BY <1>1, <2>4 DEF LocalEnds, Close
    <2>5. CASE ReadFails(l)
      BY <1>1, <2>5 DEF ReadFails
    <2>6. QED BY <2>1, <2>2, <2>3, <2>4, <2>5 DEF LocalWork
  <1>4. CASE u = v \/ \E o : u = [v EXCEPT !.observer = o]
    BY <1>1, <1>2, <1>4 DEF LocalMetered, SessionNames
  <1>5. CASE \E m, o : u = [v EXCEPT !.delivered = m, !.observer = o]
    BY <1>1, <1>2, <1>5 DEF LocalMetered, SessionNames
  <1>6. CASE u = NoSession
    BY <1>1, <1>6, NothingRecorded DEF LocalMetered, Metered
  <1>7. QED BY <1>3, <1>4, <1>5, <1>6

LEMMA SendMeters ==
  ASSUME Record, DOMAIN session = Workers, Metering, NEW w \in Workers,
         Send(w) \/ SendFails(w)
  PROVE  Metering'
  <1>1. \E rest : session' = [session EXCEPT ![w].observer.out = rest]
    <2>1. CASE Send(w)
      <3>1. PICK rest : rest = Tail(session[w].observer.out)
        OBVIOUS
      <3>2. session' = [session EXCEPT ![w].observer.out = rest]
        BY <2>1, <3>1 DEF Send
      <3>3. QED BY <3>2
    <2>2. CASE SendFails(w)
      BY <2>2 DEF SendFails
    <2>3. QED BY <2>1, <2>2
  <1>2. /\ DOMAIN worker = Workers
        /\ worker' = worker \/ worker' = [worker EXCEPT ![w] = "drain"]
             \/ worker' = [worker EXCEPT ![w] = "stopped"]
    BY DEF Record, Send, SendFails, EndStream, Go
  <1>3. \A v \in Workers : /\ v # w => session'[v] = session[v]
                           /\ worker'[v] = worker[v]
                                \/ worker'[v] \in {"drain", "stopped"}
    BY <1>1, <1>2
  <1>4. ASSUME NEW v \in Workers, DOMAIN session[v] = SessionNames
        PROVE  SameFlow(session[v], session'[v])
    <2>1. CASE v = w
      BY <1>1, <1>4, <2>1, FlowUntouched
    <2>2. CASE v # w
      BY <1>3, <2>2 DEF SameFlow
    <2>3. QED BY <2>1, <2>2
  <1>5. ASSUME NEW v \in Interfaces PROVE InterfaceMetered(v)'
    <2>1. InterfaceMetered(v) /\ v \in Workers
      BY DEF Metering, Workers
    <2>2. SameFlow(session[v], session'[v])
      BY <1>4, <2>1 DEF InterfaceMetered, Metered
    <2>3. \/ worker'[v] = worker[v]
          \/ worker'[v] \in {"drain", "stopped"}
      BY <1>3, <2>1
    <2>4. /\ worker'[v] \in Decoding => worker[v] \in Decoding
          /\ worker'[v] \in {"stream", "expire"} => session[v].fresh = 0
      BY <2>1, <2>3 DEF Decoding, InterfaceMetered
    <2>5. QED BY <2>1, <2>2, <2>4, MeteredKept
  <1>6. ASSUME NEW l \in Locals PROVE LocalMetered(l)'
    <2>1. LocalMetered(l) /\ l \in Workers
      BY DEF Metering, Workers
    <2>2. SameFlow(session[l], session'[l])
      BY <1>4, <2>1 DEF LocalMetered
    <2>3. QED BY <2>1, <2>2 DEF LocalMetered, SameFlow
  <1>7. QED BY <1>5, <1>6 DEF Metering

LEMMA LocalOnly ==
  ASSUME Record, NEW l \in Locals, LocalWork(l)
  PROVE  \A v \in Workers \ {l} : worker'[v] = worker[v]
  <1>1. \E p : worker' = [worker EXCEPT ![l] = p]
    BY DEF LocalWork, CheckLocal, ReceiveLocal, ReadFails, ExpireLocal,
           LocalEnds, Go
  <1>2. QED BY <1>1 DEF Record

LEMMA MeteringInvariant ==
  ASSUME Observing, Record, Metering, [Next]_vars
  PROVE  Metering'
  <1>1. cast \in Casts /\ DOMAIN session = Workers
    BY DEF Observing
  <1>2. CASE \E w \in Interfaces \cap cast.workers : Work(w) \/ StreamEnds(w)
    <2>1. PICK w \in Interfaces : Work(w) \/ StreamEnds(w)
      BY <1>2
    <2>2. /\ Only(w)
          /\ \A v \in Workers \ {w} : worker'[v] = worker[v]
      BY <2>1, WorkMoves, WorkOnly
    <2>3. InterfaceMetered(w)'
      BY <1>1, <2>1, WorkMeters DEF Metering, Workers
    <2>4. \A v \in Workers \ {w} :
            session'[v] = session[v] /\ worker'[v] = worker[v]
      BY <2>2 DEF Only
    <2>5. \A v \in Interfaces : InterfaceMetered(v)'
      BY <2>3, <2>4 DEF Metering, InterfaceMetered, Workers
    <2>6. \A l \in Locals : LocalMetered(l)'
      BY <2>4, InterfacesAssumption DEF Metering, LocalMetered, Workers
    <2>7. QED BY <2>5, <2>6 DEF Metering
  <1>3. CASE \E l \in Locals \cap cast.workers : LocalWork(l)
    <2>1. PICK l \in Locals : LocalWork(l)
      BY <1>3
    <2>2. /\ Only(l)
          /\ \A v \in Workers \ {l} : worker'[v] = worker[v]
      BY <2>1, LocalMoves, LocalOnly
    <2>3. LocalMetered(l)'
      BY <1>1, <2>1, LocalMeters DEF Metering, Workers
    <2>4. \A v \in Workers \ {l} :
            session'[v] = session[v] /\ worker'[v] = worker[v]
      BY <2>2 DEF Only
    <2>5. \A v \in Interfaces : InterfaceMetered(v)'
      BY <2>4, InterfacesAssumption DEF Metering, InterfaceMetered, Workers
    <2>6. \A v \in Locals : LocalMetered(v)'
      BY <2>3, <2>4 DEF Metering, LocalMetered, Workers
    <2>7. QED BY <2>5, <2>6 DEF Metering
  <1>4. CASE \E w \in cast.workers : Send(w) \/ SendFails(w)
    BY <1>1, <1>4, CastFacts, SendMeters
  <1>5. CASE \/ Process \/ FingerprintTick \/ ScannerSends \/ Finish
             \/ ProcessorEnds \/ RouterFails \/ RouterRecovers
             \/ Tick \/ Shutdown \/ UNCHANGED vars
    <2>1. UNCHANGED <<session, worker>>
      BY <1>5 DEF Process, FingerprintTick, ScannerSends, Finish,
           ProcessorEnds, RouterFails, RouterRecovers, Tick, Shutdown,
           workers, vars
    <2>2. QED BY <2>1 DEF Metering, InterfaceMetered, LocalMetered
  <1>6. QED BY <1>2, <1>3, <1>4, <1>5 DEF Next

LEMMA MeteringAlways == Spec => []Metering
  <1>1. Init => Metering
    <2> SUFFICES ASSUME Init PROVE Metering
      OBVIOUS
    <2>1. /\ \A w \in Workers : session[w] = NoSession
          /\ \A w \in Interfaces : worker[w] \in {"absent", "top"}
      BY InterfacesAssumption DEF Init, Workers
    <2>2. \A w \in Interfaces : InterfaceMetered(w)
      BY <2>1, NothingRecorded DEF InterfaceMetered, Decoding, Workers
    <2>3. \A l \in Locals : LocalMetered(l)
      BY <2>1, NothingRecorded DEF LocalMetered, Metered, Workers
    <2>4. QED BY <2>2, <2>3 DEF Metering
  <1>2. IInv => Record
    BY DEF IInv
  <1>3. Observing /\ Record /\ Metering /\ [Next]_vars => Metering'
    BY MeteringInvariant
  <1>4. QED BY <1>1, <1>2, <1>3, ObservingAlways, Invariance, PTL DEF Spec

(* However the network cuts a stream into chunks, whatever its records and *)
(* its errors, a session that goes on has given out, or holds, exactly the *)
(* packets that are complete in what it has received, and the receive      *)
(* buffer is never full (fritzbox/pcap.rs `PcapStreamDecoder::push`).      *)
THEOREM PacketsCompleteAlways == Spec => []PacketsComplete
  <1>1. Metering => PacketsComplete
    <2> SUFFICES ASSUME Metering, NEW w \in Interfaces
                 PROVE  LET v == session[w]
                            whole == WholeRecords(v.stream, v.received)
                        IN /\ v.delivered + v.fresh <= whole
                           /\ worker[w] \in Decoding =>
                                v.delivered + v.fresh = whole
                           /\ v.decoder.buffer <= BufferCapacity
                           /\ v.decoder.error # "BufferLimit"
      BY DEF PacketsComplete, Decoding
    <2>1. PICK v : v = session[w]
      OBVIOUS
    <2>2. Metered(v) /\ (worker[w] \in Decoding => InStep(v))
      BY <2>1 DEF Metering, InterfaceMetered
    <2>3. InStep(v) =>
            v.delivered + v.fresh = WholeRecords(v.stream, v.received)
      BY <2>2, RestedHasTakenAll DEF InStep, Metered
    <2>4. QED BY <2>1, <2>2, <2>3 DEF Metered
  <1>2. QED BY <1>1, MeteringAlways, PTL

-----------------------------------------------------------------------------
(* The limits: the table of flows and the cache of claims keep to theirs   *)
(* in every sound observer; the registry and the channel in Limited.       *)

Limited ==
  /\ router \in [mode : {"working", "failing"}, outages : Nat]
  /\ shutdown \in BOOLEAN
  /\ IsSequence(channel) /\ Len(channel) <= ChannelSize
  /\ AtMost(DOMAIN devices, MaxDevices)
  /\ result \in [Interfaces -> Results]

LEMMA TouchLimited ==
  ASSUME NEW d, AtMost(DOMAIN d, MaxDevices), NEW key, NEW ip, NEW mac,
         NEW t
  PROVE  AtMost(DOMAIN Touch(d, key, ip, mac, t), MaxDevices)
  <1> DEFINE new == Touch(d, key, ip, mac, t)
  <1>1. MaxDevices \in Nat
    BY RegistryAssumption
  <1>2. CASE key \in DOMAIN d
    <2>1. \E e : new = [d EXCEPT ![key] = e]
      BY <1>2 DEF Touch
    <2>2. DOMAIN new = DOMAIN d
      BY <2>1
    <2>3. QED BY <2>2
  <1>3. CASE key \notin DOMAIN d
    <2>1. PICK tidy :
            tidy = IF Cardinality(DOMAIN d) >= MaxDevices
                   THEN Prune(d, t) ELSE d
      OBVIOUS
    <2>2. \/ Cardinality(DOMAIN tidy) >= MaxDevices /\ new = tidy
          \/ /\ ~(Cardinality(DOMAIN tidy) >= MaxDevices)
             /\ \E e : new = [k \in DOMAIN tidy \cup {key} |->
                                IF k = key THEN e ELSE tidy[k]]
      BY <1>3, <2>1 DEF Touch
    <2>3. DOMAIN tidy \subseteq DOMAIN d
      BY <2>1, KeptDomains
    <2>4. AtMost(DOMAIN tidy, MaxDevices)
      <3>1. PICK D, E : D = DOMAIN d /\ E = DOMAIN tidy
        OBVIOUS
      <3>2. AtMost(D, MaxDevices)
        BY <3>1
      <3>3. E \subseteq D
        BY <2>3, <3>1
      <3>4. AtMost(E, MaxDevices)
        BY <1>1, <3>2, <3>3, AtMostLess
      <3>5. QED BY <3>1, <3>4
    <2>5. PICK D, E : D = DOMAIN tidy /\ E = DOMAIN new
      OBVIOUS
    <2>6. AtMost(D, MaxDevices) /\ IsFiniteSet(D)
      BY <2>4, <2>5 DEF AtMost
    <2>7. CASE new = tidy
      <3>1. E = D
        BY <2>5, <2>7
      <3>2. QED BY <2>5, <2>6, <3>1
    <2>8. CASE /\ ~(Cardinality(DOMAIN tidy) >= MaxDevices)
               /\ DOMAIN new = DOMAIN tidy \cup {key}
      <3>1. ~(Cardinality(D) >= MaxDevices) /\ E = D \cup {key}
        BY <2>5, <2>8
      <3>2. AtMost(E, MaxDevices)
        BY <1>1, <2>6, <3>1, AtMostMore
      <3>3. QED BY <2>5, <3>2
    <2>9. QED BY <2>2, <2>7, <2>8
  <1>4. QED BY <1>2, <1>3

LEMMA ObserveLimited ==
  ASSUME NEW d, AtMost(DOMAIN d, MaxDevices), NEW o, NEW t
  PROVE  AtMost(DOMAIN ObserveDevice(d, o, t), MaxDevices)
  <1>1. CASE o.kind \notin AboutDevice
    BY <1>1 DEF ObserveDevice
  <1>2. CASE o.kind \in AboutDevice
    <2>1. PICK mac :
            LET touched == Touch(d, KeyOf(o), o.ip, mac, t) IN
            \/ ObserveDevice(d, o, t) = touched
            \/ \E e : ObserveDevice(d, o, t) =
                        [touched EXCEPT ![KeyOf(o)] = e]
      BY <1>2 DEF ObserveDevice
    <2>2. PICK touched : touched = Touch(d, KeyOf(o), o.ip, mac, t)
      OBVIOUS
    <2>3. DOMAIN ObserveDevice(d, o, t) = DOMAIN touched
      BY <2>1, <2>2
    <2>4. QED BY <2>2, <2>3, TouchLimited
  <1>3. QED BY <1>1, <1>2

LEMMA DevicesLimited ==
  ASSUME AtMost(DOMAIN devices, MaxDevices), [Next]_vars
  PROVE  AtMost(DOMAIN devices', MaxDevices)
  <1>1. CASE DOMAIN devices' \subseteq DOMAIN devices
    BY <1>1, AtMostLess, RegistryAssumption
  <1>2. CASE devices' = ObserveDevice(devices, Head(channel), now)
    BY <1>2, ObserveLimited
  <1>3. QED BY <1>1, <1>2, DevicesStep

LEMMA ChannelLimited ==
  ASSUME IsSequence(channel), Len(channel) <= ChannelSize, [Next]_vars
  PROVE  IsSequence(channel') /\ Len(channel') <= ChannelSize
  <1>1. ChannelSize \in Nat
    BY CaptureAssumption
  <1>2. PICK U, s : U = Range(channel) /\ s = channel
    OBVIOUS
  <1>3. s \in Seq(U) /\ Len(s) \in Nat /\ Len(s) <= ChannelSize
    BY <1>2 DEF IsSequence
  <1>4. CASE channel' = channel
    BY <1>4
  <1>5. CASE channel' = <<>>
    BY <1>1, <1>5, None
  <1>6. CASE channel # <<>> /\ channel' = Tail(channel)
    <2>1. Tail(s) \in Seq(U) /\ Len(Tail(s)) = Len(s) - 1
      BY <1>2, <1>3, <1>6
    <2>2. PICK u : u = Tail(s)
      OBVIOUS
    <2>3. IsSequence(u)
      BY <2>1, <2>2, SequenceOf
    <2>4. Len(u) <= ChannelSize
      BY <1>1, <1>3, <2>1, <2>2
    <2>5. QED BY <1>2, <1>6, <2>2, <2>3, <2>4
  <1>7. CASE /\ Len(channel) < ChannelSize
             /\ \E o : channel' = Append(channel, o)
    <2>1. PICK o : channel' = Append(channel, o)
      BY <1>7
    <2>2. s \in Seq(U \cup {o})
      BY <1>3
    <2>3. /\ Append(s, o) \in Seq(U \cup {o})
          /\ Len(Append(s, o)) = Len(s) + 1
      BY <2>2
    <2>4. Len(s) < ChannelSize
      BY <1>2, <1>7
    <2>5. PICK u : u = Append(s, o)
      OBVIOUS
    <2>6. IsSequence(u)
      BY <2>3, <2>5, SequenceOf
    <2>7. Len(u) <= ChannelSize
      BY <1>1, <1>3, <2>3, <2>4, <2>5
    <2>8. QED BY <1>2, <2>1, <2>5, <2>6, <2>7
  <1>8. QED BY <1>4, <1>5, <1>6, <1>7, ChannelStep

LEMMA WorldStep ==
  ASSUME [Next]_vars
  PROVE  \/ UNCHANGED <<router, shutdown>>
         \/ RouterFails \/ RouterRecovers
         \/ shutdown' = TRUE /\ UNCHANGED router
  <1>1. CASE \E w \in Interfaces \cap cast.workers : Work(w) \/ StreamEnds(w)
    <2>1. UNCHANGED world
      BY <1>1 DEF Work, StopAtTop, StartSession, LoadCredentials,
           Authenticate, Discover, StartCapture, ReceiveChunk, StopStream,
           InterfaceUp, CountUp, DeliverPacket, ChunkDelivered, ExpireFlows,
           DrainFlows, InterfaceDown, CountDown, SessionEnded, Wait,
           StreamEnds
    <2>2. QED BY <2>1 DEF world
  <1>2. CASE \E l \in Locals \cap cast.workers : LocalWork(l)
    BY <1>2 DEF LocalWork, CheckLocal, ReceiveLocal, ReadFails, ExpireLocal,
         LocalEnds, world
  <1>3. CASE \E w \in cast.workers : Send(w) \/ SendFails(w)
    BY <1>3 DEF Send, SendFails, world
  <1>4. CASE \/ Process \/ FingerprintTick \/ ScannerSends \/ Finish
             \/ ProcessorEnds \/ Tick \/ UNCHANGED vars
    BY <1>4 DEF Process, FingerprintTick, ScannerSends, Finish,
         ProcessorEnds, Tick, world, vars
  <1>5. CASE Shutdown
    BY <1>5 DEF Shutdown
  <1>6. QED BY <1>1, <1>2, <1>3, <1>4, <1>5 DEF Next

LEMMA WorldLimited ==
  ASSUME [Next]_vars, shutdown \in BOOLEAN,
         router \in [mode : {"working", "failing"}, outages : Nat]
  PROVE  /\ shutdown' \in BOOLEAN
         /\ router' \in [mode : {"working", "failing"}, outages : Nat]
  <1>1. CASE UNCHANGED <<router, shutdown>>
    BY <1>1
  <1>2. CASE RouterFails
    <2>1. /\ router' = [mode |-> "failing", outages |-> router.outages - 1]
          /\ router.outages > 0 /\ router.outages \in Nat
          /\ shutdown' = shutdown
      BY <1>2 DEF RouterFails
    <2>2. router.outages - 1 \in Nat
      BY <2>1
    <2>3. QED BY <2>1, <2>2
  <1>3. CASE RouterRecovers
    BY <1>3 DEF RouterRecovers
  <1>4. CASE shutdown' = TRUE /\ UNCHANGED router
    BY <1>4
  <1>5. QED BY <1>1, <1>2, <1>3, <1>4, WorldStep

LEMMA ResultStep ==
  ASSUME [Next]_vars
  PROVE  \/ result' = result
         \/ \E w, code : /\ code \in Results
                         /\ result' = [result EXCEPT ![w] = code]
  <1> DEFINE Comes == \/ result' = result
                      \/ \E w, code : /\ code \in Results
                                      /\ result' = [result EXCEPT
                                                      ![w] = code]
  <1>1. ASSUME NEW w, NEW code \in Results,
               Fails(w, code) \/ EndStream(w, code)
        PROVE  Comes
    BY <1>1 DEF Fails, EndStream
  <1>2. CASE \E w \in Interfaces \cap cast.workers : Work(w) \/ StreamEnds(w)
    <2>1. PICK w \in Interfaces : Work(w) \/ StreamEnds(w)
      BY <1>2
    <2>2. CASE \/ StartSession(w) \/ LoadCredentials(w)
      BY <2>2, <1>1 DEF StartSession, LoadCredentials, Results, AuthFailures
    <2>3. CASE Authenticate(w) \/ Discover(w) \/ StartCapture(w)
      <3> HIDE DEF Comes
      <3>1. {"authentication_failed", "interface_discovery_failed",
             "configured_interface_unavailable", "capture_endpoint_failed"}
              \subseteq Results
        BY DEF Results, AuthFailures
      <3>2. \/ result' = result
            \/ \E code \in Results : Fails(w, code)
        BY <2>3, <3>1 DEF Authenticate, Discover, StartCapture
      <3>3. QED BY <1>1, <3>2 DEF Comes
    <2>4. CASE ReceiveChunk(w) \/ StreamEnds(w) \/ StopStream(w)
      <3> HIDE DEF Comes
      <3>1. {"malformed_pcap", "unsupported_link_type", "stream_eof",
             "stream_error", "ok"} \subseteq Results
        BY DEF Results
      <3>2. \/ result' = result
            \/ \E code \in Results : EndStream(w, code)
        BY <2>4, <3>1 DEF ReceiveChunk, StreamEnds, StopStream
      <3>3. QED BY <1>1, <3>2 DEF Comes
    <2>5. CASE \/ StopAtTop(w) \/ InterfaceUp(w) \/ CountUp(w)
               \/ DeliverPacket(w) \/ ChunkDelivered(w) \/ ExpireFlows(w)
               \/ DrainFlows(w) \/ InterfaceDown(w) \/ CountDown(w)
               \/ SessionEnded(w) \/ Wait(w)
      BY <2>5 DEF StopAtTop, InterfaceUp, CountUp, DeliverPacket,
           ChunkDelivered, ExpireFlows, DrainFlows, InterfaceDown,
           CountDown, SessionEnded, Wait
    <2>6. QED BY <2>1, <2>2, <2>3, <2>4, <2>5 DEF Work
  <1>3. CASE \E l \in Locals \cap cast.workers : LocalWork(l)
    BY <1>3 DEF LocalWork, CheckLocal, ReceiveLocal, ReadFails, ExpireLocal,
         LocalEnds
  <1>4. CASE \E w \in cast.workers : Send(w) \/ SendFails(w)
    <2>1. "ok" \in Results
      BY DEF Results
    <2>2. \/ result' = result
          \/ \E w : EndStream(w, "ok")
      BY <1>4 DEF Send, SendFails
    <2> HIDE DEF Comes
    <2>3. QED BY <1>1, <2>1, <2>2 DEF Comes
  <1>5. CASE \/ Process \/ FingerprintTick \/ ScannerSends \/ Finish
             \/ ProcessorEnds \/ RouterFails \/ RouterRecovers
             \/ Tick \/ Shutdown \/ UNCHANGED vars
    BY <1>5 DEF Process, FingerprintTick, ScannerSends, Finish,
         ProcessorEnds, RouterFails, RouterRecovers, Tick, Shutdown,
         workers, vars
  <1>6. QED BY <1>2, <1>3, <1>4, <1>5 DEF Next

LEMMA LimitedAlways == Spec => []Limited
  <1>1. Init => Limited
    <2> SUFFICES ASSUME Init PROVE Limited
      OBVIOUS
    <2>1. router \in [mode : {"working", "failing"}, outages : Nat]
      <3>1. cast.outages \in Nat
        BY CastsAssumption DEF Init
      <3>2. QED BY <3>1 DEF Init
    <2>2. IsSequence(channel) /\ Len(channel) <= ChannelSize
      BY None, CaptureAssumption DEF Init
    <2>3. AtMost(DOMAIN devices, MaxDevices)
      <3>1. DOMAIN devices = {}
        BY DEF Init, Empty
      <3>2. QED BY <3>1, AtMostNone, RegistryAssumption
    <2>4. result \in [Interfaces -> Results]
      BY DEF Init, Results
    <2>5. QED BY <2>1, <2>2, <2>3, <2>4 DEF Limited, Init
  <1>2. Limited /\ [Next]_vars => Limited'
    <2> SUFFICES ASSUME Limited, [Next]_vars PROVE Limited'
      OBVIOUS
    <2>1. result' \in [Interfaces -> Results]
      BY ResultStep DEF Limited
    <2>2. QED
      BY <2>1, WorldLimited, ChannelLimited, DevicesLimited DEF Limited
  <1>3. QED BY <1>1, <1>2, PTL DEF Spec

(* Whatever happens, the state is of its type, and every table keeps to    *)
(* its limit: the flows of an observer, its cache of claims, the registry  *)
(* and the channel to the processor (flow.rs `FlowTable::observe`,         *)
(* observer.rs `Suppressor::allow`, registry.rs `touch`).                  *)
THEOREM TypeCorrect == Spec => []TypeOK
  <1>1. /\ IInv /\ Observing /\ Conserving /\ Metering /\ Limited
        => TypeOK
    <2> SUFFICES ASSUME IInv, Observing, Conserving, Metering, Limited
                 PROVE  TypeOK
      OBVIOUS
    <2>1. /\ cast \in Casts /\ router \in [mode : {"working", "failing"},
                                           outages : Nat]
          /\ shutdown \in BOOLEAN
          /\ processor \in {"running", "gone", "finished"}
          /\ Len(channel) <= ChannelSize
          /\ Cardinality(DOMAIN devices) <= MaxDevices
          /\ result \in [Interfaces -> Results]
      BY DEF Observing, Conserving, Limited, AtMost
    <2>2. /\ health.active \subseteq Interfaces
          /\ health.authenticated \in BOOLEAN /\ up \in Nat
          /\ worker \in [Interfaces \cup Locals -> Places]
      BY DEF IInv, Record, Records, Workers
    <2>3. ASSUME NEW w \in DOMAIN session
          PROVE  /\ session[w].decoder \in Decoder
                 /\ Cardinality(DOMAIN session[w].observer.flows) <= MaxFlows
                 /\ Cardinality(DOMAIN session[w].observer.seen)
                      <= MaxSuppressed
      <3>1. w \in Interfaces \cup Locals
        BY DEF Observing, Workers
      <3>2. session[w].decoder \in Decoder
        BY <3>1 DEF Metering, InterfaceMetered, Metered, LocalMetered
      <3>3. Sound(session[w].observer, cast, now)
        BY DEF Observing
      <3>4. QED BY <3>2, <3>3 DEF Sound, Claims, Windows, AtMost
    <2>4. QED BY <2>1, <2>2, <2>3 DEF TypeOK
  <1>2. QED
    BY <1>1, Invariance, ObservingAlways, ConservingAlways, MeteringAlways,
       LimitedAlways, PTL

=============================================================================
