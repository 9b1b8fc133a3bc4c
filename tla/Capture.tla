------------------------------- MODULE Capture -------------------------------
(***************************************************************************)
(* The capture workers and the processor they feed (runtime.rs             *)
(* `run_capture`, `run_fritzbox_capture`, `run_fritzbox_session`,          *)
(* `run_processor`, the client of sensor-capture fritzbox/, the health     *)
(* record of state.rs).                                                    *)
(*                                                                         *)
(* A local interface has a worker that reads frames.  A FRITZ!Box          *)
(* interface has one that logs in, discovers, opens a stream and decodes   *)
(* it, and after any end waits and starts over.  Each observes its frames  *)
(* and sends what it finds to the processor.  The FRITZ!Box workers share  *)
(* a health record and the counter of interfaces that are up; every update *)
(* of the record and of the counter is a step of its own.  Counters of the *)
(* record that only grow are left out, and so is the length of a pause     *)
(* (`retry_delay`): it ends.                                               *)
(***************************************************************************)
EXTENDS PcapStream, Observer

CONSTANTS
  Interfaces,  (* configured FRITZ!Box interfaces, one worker each         *)
  Locals,      (* local interfaces, one worker each                        *)
  LocalUp,     (* local interfaces that are up (`set_interfaces_up`)       *)
  Casts,       (* bounds of the model: the workers that run, the streams   *)
               (* a working router sends, those a failing one may send,    *)
               (* how often it starts to fail, the sizes of a chunk, the   *)
               (* frames there are and how many of them a local interface  *)
               (* reads, the policy, what a scan finds, the time that      *)
               (* passes, what may end                                     *)
  Answers,     (* what a discovery request may get: "failed", or the       *)
               (* elements of the page                                     *)
  ChannelSize  (* room in the observation channel                          *)

ASSUME InterfacesAssumption ==
  IsFiniteSet(Interfaces \cup Locals) /\ Interfaces \cap Locals = {}
ASSUME CastsAssumption ==
  \A c \in Casts :
    /\ c.workers \subseteq Interfaces \cup Locals
    /\ \A f \in c.frames : WellFormed(f)
    /\ Ordered(Hosts(c))
    /\ \A o \in c.scanned : o.packets = 0
    /\ \A s \in c.streams \cup c.broken : Recorded(s)
    /\ c.chunks \subseteq Nat /\ c.outages \in Nat
ASSUME CaptureAssumption == LocalUp \in Nat /\ ChannelSize \in Nat \ {0}

VARIABLES
  cast,       (* who takes part                                            *)
  router,     (* "working" or "failing", and the outages left              *)
  now,
  shutdown,   (* the watch the producers look at                           *)
  processor,  (* "running", "gone" early, or "finished" after the producers*)
  channel,    (* observations on their way to it                           *)
  devices,    (* its registry                                              *)
  owed,       (* history: flow packets of closed observers, less those     *)
              (* that have arrived                                         *)
  health,     (* the shared record                                         *)
  up,         (* interfaces_up                                             *)
  worker,     (* where each worker is                                      *)
  result,     (* how the last session ended                                *)
  session     (* the open stream and the observer of each worker           *)

vars == <<cast, router, now, shutdown, processor, channel, devices, owed,
          health, up, worker, result, session>>
world == <<cast, router, now, shutdown, processor, devices>>
sink == <<channel, owed>>

AuthFailures == {"authentication_failed", "credentials_unavailable"}
Results == AuthFailures \cup
  {"none", "ok", "invalid_address", "interface_discovery_failed",
   "configured_interface_unavailable", "capture_endpoint_failed",
   "stream_error", "stream_eof", "malformed_pcap", "unsupported_link_type"}

Places ==
  {"top", "load", "login", "discover", "connect", "stream", "deliver",
   "count", "expire", "drain", "lower", "uncount", "ended", "wait",
   "poll", "receive", "expire_local", "drained",
   "stopped", "failed", "absent"}

NoStream ==
  [magic |-> "none", version |-> 2, snaplen |-> 0, link |-> 0,
   records |-> <<>>]

(* received: bytes of the body; fresh: packets of the chunk in hand;       *)
(* delivered: packets the observer was given.                              *)
NoSession ==
  [stream |-> NoStream, decoder |-> NewDecoder, received |-> 0,
   fresh |-> 0, delivered |-> 0, active |-> FALSE, observer |-> NewObserver]

Init ==
  /\ cast \in Casts
  /\ router = [mode |-> "working", outages |-> cast.outages]
  /\ now = 0 /\ shutdown = FALSE
  /\ processor = "running" /\ channel = <<>> /\ devices = Empty
  /\ owed = 0
  /\ health = [state |-> "starting", active |-> {}, authenticated |-> FALSE]
  /\ up = LocalUp
  /\ worker = [w \in Interfaces \cup Locals |->
                 IF w \notin cast.workers THEN "absent"
                 ELSE IF w \in Locals THEN "poll" ELSE "top"]
  /\ result = [w \in Interfaces |-> "none"]
  /\ session = [w \in Interfaces \cup Locals |-> NoSession]

-----------------------------------------------------------------------------

(* What an element of a page names: a control or an option by its value, a *)
(* link or a handler by its parameter.  The actions of a form are not      *)
(* interfaces.                                                             *)
Actions == {"start", "stop"}
Candidates(e) ==
  {e.link} \cup
  {id \in {e.value} :
     \/ e.name \in {"start", "ifaceorminor", "json"}
     \/ e.name = "capture" /\ id \notin Actions
     \/ e.name = "option" /\ e.parent = "ifaceorminor"}

Available(e) == ~e.disabled /\ ~e.within_disabled

(* Listed twice, an interface is available when one of its entries is. *)
ParseInterfaces(page) ==
  LET listed(e) == Candidates(e) \ (Actions \cup {"none"}) IN
  {[id |-> i, available |->
      \E e \in Range(page) : i \in listed(e) /\ Available(e)] :
     i \in UNION {listed(e) : e \in Range(page)}}

(* The pages are asked in order until one lists an interface. *)
CaptureInterfaces(answers) ==
  LET listed(n) ==
        answers[n] # "failed" /\ ParseInterfaces(answers[n]) # {}
      found == {n \in DOMAIN answers : listed(n)}
  IN IF found = {} THEN {} ELSE ParseInterfaces(answers[Min(found)])

(* What four requests can come to. *)
Discoveries == {CaptureInterfaces(a) : a \in [1..4 -> Answers]}

Go(w, place) == worker' = [worker EXCEPT ![w] = place]

Fails(w, code) ==
  /\ router.mode = "failing"
  /\ result' = [result EXCEPT ![w] = code]
  /\ Go(w, "ended")

(* The loop of the worker: told to stop, or a new session. *)
StopAtTop(w) ==
  /\ worker[w] = "top" /\ shutdown
  /\ Go(w, "stopped")
  /\ UNCHANGED <<world, sink, health, up, result, session>>

StartSession(w) ==
  /\ worker[w] = "top" /\ ~shutdown
  /\ health' = [health EXCEPT !.state = "authenticating"]
  /\ result' = [result EXCEPT ![w] = "none"]
  /\ Go(w, "load")
  /\ UNCHANGED <<world, sink, up, session>>

(* The credential file is read again for every session. *)
LoadCredentials(w) ==
  /\ worker[w] = "load"
  /\ \/ cast.address /\ Go(w, "login") /\ UNCHANGED result
     \/ Fails(w, "credentials_unavailable")
     \/ /\ ~cast.address
        /\ result' = [result EXCEPT ![w] = "invalid_address"]
        /\ Go(w, "ended")
  /\ UNCHANGED <<world, sink, health, up, session>>

Authenticate(w) ==
  /\ worker[w] = "login"
  /\ \/ /\ health' = [health EXCEPT !.authenticated = TRUE,
                                    !.state = "discovering"]
        /\ Go(w, "discover") /\ UNCHANGED result
     \/ Fails(w, "authentication_failed") /\ UNCHANGED health
  /\ UNCHANGED <<world, sink, up, session>>

Discover(w) ==
  /\ worker[w] = "discover"
  /\ \E found \in Discoveries :
       \/ /\ [id |-> w, available |-> TRUE] \in found
          /\ health' = [health EXCEPT !.state = "connecting"]
          /\ Go(w, "connect") /\ UNCHANGED result
       \/ /\ found = {}
          /\ Fails(w, "interface_discovery_failed") /\ UNCHANGED health
       \/ /\ found # {} /\ [id |-> w, available |-> TRUE] \notin found
          /\ Fails(w, "configured_interface_unavailable")
          /\ UNCHANGED health
  /\ UNCHANGED <<world, sink, up, session>>

StartCapture(w) ==
  /\ worker[w] = "connect"
  /\ \/ /\ \E s \in cast.streams \cup
             (IF router.mode = "failing" THEN cast.broken ELSE {}) :
             session' = [session EXCEPT ![w] = [NoSession EXCEPT !.stream = s]]
        /\ Go(w, "stream") /\ UNCHANGED result
     \/ Fails(w, "capture_endpoint_failed") /\ UNCHANGED session
  /\ UNCHANGED <<world, sink, health, up>>

-----------------------------------------------------------------------------
(* The stream. *)

EndStream(w, code) ==
  /\ result' = [result EXCEPT ![w] = code]
  /\ Go(w, "drain")

Outbox(w) == session[w].observer.out
AllSent(w) == Outbox(w) = <<>>

(* A chunk is decoded.  Its packets come out only when all of it decodes,  *)
(* and a link type that is not Ethernet ends the session.                  *)
ReceiveChunk(w) ==
  /\ worker[w] = "stream" /\ AllSent(w)
  /\ \E size \in cast.chunks :
       LET v == session[w]
           n == Min({size, StreamLength(v.stream) - v.received})
           d == Push(v.stream, v.decoder, n)
       IN /\ n > 0
          /\ session' = [session EXCEPT ![w].decoder = d,
                           ![w].received = @ + n,
                           ![w].fresh = IF d.error = "none"
                                        THEN d.taken - v.decoder.taken ELSE 0]
          /\ \/ d.error # "none" /\ EndStream(w, "malformed_pcap")
             \/ /\ d.error = "none" /\ d.known /\ v.stream.link # Ethernet
                /\ EndStream(w, "unsupported_link_type")
             \/ /\ d.error = "none" /\ ~(d.known /\ v.stream.link # Ethernet)
                /\ Go(w, "deliver") /\ UNCHANGED result
  /\ UNCHANGED <<world, sink, health, up>>

(* The body ends, breaks, or stays silent for longer than the read timeout. *)
StreamEnds(w) ==
  /\ worker[w] = "stream" /\ AllSent(w)
  /\ router.mode = "failing" \/ session[w].stream \notin cast.streams
  /\ \E code \in {"stream_eof", "stream_error"} : EndStream(w, code)
  /\ UNCHANGED <<world, sink, health, up, session>>

StopStream(w) ==
  /\ worker[w] = "stream" /\ AllSent(w) /\ shutdown
  /\ EndStream(w, "ok")
  /\ UNCHANGED <<world, sink, health, up, session>>

(* `fritzbox_interface_up`, before the first packet: the record ... *)
InterfaceUp(w) ==
  /\ worker[w] = "deliver" /\ session[w].fresh > 0 /\ ~session[w].active
  /\ session' = [session EXCEPT ![w].active = TRUE]
  /\ health' = [state |-> "capturing", active |-> health.active \cup {w},
                authenticated |-> TRUE]
  /\ Go(w, "count")
  /\ UNCHANGED <<world, sink, up, result>>

(* ... then the counter. *)
CountUp(w) ==
  /\ worker[w] = "count"
  /\ up' = up + 1
  /\ Go(w, "deliver")
  /\ UNCHANGED <<world, sink, health, result, session>>

DeliverPacket(w) ==
  /\ worker[w] = "deliver" /\ AllSent(w)
  /\ session[w].fresh > 0 /\ session[w].active
  /\ \E f \in cast.frames :
       session' = [session EXCEPT ![w].fresh = @ - 1, ![w].delivered = @ + 1,
                     ![w].observer = HandleFrame(@, cast, f, now)]
  /\ UNCHANGED <<world, sink, health, up, worker, result>>

ChunkDelivered(w) ==
  /\ worker[w] = "deliver" /\ session[w].fresh = 0 /\ AllSent(w)
  /\ Go(w, "expire")
  /\ UNCHANGED <<world, sink, health, up, result, session>>

(* Flow windows that have expired are sent after every chunk. *)
ExpireFlows(w) ==
  /\ worker[w] = "expire"
  /\ session' = [session EXCEPT ![w].observer = Expire(@, now)]
  /\ Go(w, "stream")
  /\ UNCHANGED <<world, sink, health, up, result>>

(* A session's end is its observer's end. *)
Close(w) ==
  LET ob == session[w].observer IN
  /\ owed' = IF processor = "gone" THEN 0
             ELSE owed + ob.passed - ob.skipped
  /\ session' = [session EXCEPT ![w] = NoSession]
  /\ UNCHANGED channel

(* Slip: the interface is not reported down. *)
DrainAndLeave(w) ==
  /\ worker[w] = "drain"
  /\ Close(w) /\ Go(w, "ended")
  /\ UNCHANGED <<world, health, up, result>>

(* However it ended, the open flows are sent ... *)
DrainFlows(w) ==
  /\ worker[w] = "drain"
  /\ IF session[w].active
     THEN /\ session' = [session EXCEPT ![w].observer = Drain(@)]
          /\ Go(w, "lower") /\ UNCHANGED sink
     ELSE Close(w) /\ Go(w, "ended")
  /\ UNCHANGED <<world, health, up, result>>

(* ... and the interface is reported down: `fritzbox_interface_down`. *)
InterfaceDown(w) ==
  /\ worker[w] = "lower" /\ AllSent(w)
  /\ LET rest == health.active \ {w} IN
     /\ health' = [health EXCEPT !.active = rest,
                     !.authenticated = @ /\ rest # {}]
     /\ Go(w, IF rest # health.active THEN "uncount" ELSE "ended")
  /\ Close(w)
  /\ UNCHANGED <<world, up, result>>

CountDown(w) ==
  /\ worker[w] = "uncount"
  /\ up' = Max({up - 1, 0})
  /\ Go(w, "ended")
  /\ UNCHANGED <<world, sink, health, result, session>>

(* Slip: the record says backoff whoever still captures. *)
SessionEndedForAll(w) ==
  /\ worker[w] = "ended"
  /\ \/ shutdown /\ Go(w, "stopped") /\ UNCHANGED health
     \/ /\ ~shutdown /\ Go(w, "wait")
        /\ health' = [health EXCEPT !.state = "backoff"]
  /\ UNCHANGED <<world, sink, up, result, session>>

(* Slip: credentials that were refused once are not tried again. *)
WaitUnlessRefused(w) ==
  /\ worker[w] = "wait"
  /\ Go(w, IF shutdown \/ result[w] \in AuthFailures THEN "stopped"
           ELSE "top")
  /\ UNCHANGED <<world, sink, health, up, result, session>>

(* After a session: over, or a pause.  Only a record without an active     *)
(* interface says so.                                                      *)
SessionEnded(w) ==
  /\ worker[w] = "ended"
  /\ \/ shutdown /\ Go(w, "stopped") /\ UNCHANGED health
     \/ /\ ~shutdown /\ Go(w, "wait")
        /\ health' = [health EXCEPT
             !.state = IF health.active = {} THEN "backoff" ELSE @]
  /\ UNCHANGED <<world, sink, up, result, session>>

Wait(w) ==
  /\ worker[w] = "wait"
  /\ Go(w, IF shutdown THEN "stopped" ELSE "top")
  /\ UNCHANGED <<world, sink, health, up, result, session>>

-----------------------------------------------------------------------------
(* A local interface: look whether to stop, read a frame or time out, send *)
(* what has expired.                                                       *)

CheckLocal(l) ==
  /\ worker[l] = "poll" /\ AllSent(l)
  /\ IF shutdown
     THEN /\ session' = [session EXCEPT ![l].observer = Drain(@)]
          /\ Go(l, "drained")
     ELSE Go(l, "receive") /\ UNCHANGED session
  /\ UNCHANGED <<world, sink, health, up, result>>

ReceiveLocal(l) ==
  /\ worker[l] = "receive"
  /\ \/ UNCHANGED session
     \/ /\ session[l].delivered < cast.reads
        /\ \E f \in cast.frames :
             session' = [session EXCEPT ![l].delivered = @ + 1,
                           ![l].observer = HandleFrame(@, cast, f, now)]
  /\ Go(l, "expire_local")
  /\ UNCHANGED <<world, sink, health, up, result>>

(* A read error ends the worker; its open flows are not sent. *)
ReadFails(l) ==
  /\ worker[l] = "receive" /\ cast.readError
  /\ Go(l, "failed")
  /\ UNCHANGED <<world, sink, health, up, result, session>>

ExpireLocal(l) ==
  /\ worker[l] = "expire_local" /\ AllSent(l)
  /\ session' = [session EXCEPT ![l].observer = Expire(@, now)]
  /\ Go(l, "poll")
  /\ UNCHANGED <<world, sink, health, up, result>>

LocalEnds(l) ==
  /\ worker[l] = "drained" /\ AllSent(l)
  /\ Close(l) /\ Go(l, "stopped")
  /\ UNCHANGED <<world, health, up, result>>

-----------------------------------------------------------------------------
(* The channel and the processor. *)

Send(w) ==
  /\ ~AllSent(w) /\ processor = "running" /\ Len(channel) < ChannelSize
  /\ channel' = Append(channel, Head(Outbox(w)))
  /\ session' = [session EXCEPT ![w].observer.out = Tail(@)]
  /\ UNCHANGED <<world, owed, health, up, worker, result>>

(* Nobody receives: the rest is dropped, and a worker that was not already *)
(* at its end ends.                                                        *)
SendFails(w) ==
  /\ ~AllSent(w) /\ processor # "running"
  /\ session' = [session EXCEPT ![w].observer.out = <<>>]
  /\ \/ w \in Locals /\ Go(w, "stopped") /\ UNCHANGED result
     \/ worker[w] \in {"deliver", "stream"} /\ EndStream(w, "ok")
     \/ worker[w] = "lower" /\ UNCHANGED <<worker, result>>
  /\ UNCHANGED <<world, sink, health, up>>

workers == <<health, up, worker, result, session>>

Process ==
  /\ processor = "running" /\ channel # <<>>
  /\ LET o == Head(channel) IN
     /\ devices' = ObserveDevice(devices, o, now)
     /\ owed' = owed - o.packets
  /\ channel' = Tail(channel)
  /\ UNCHANGED <<cast, router, now, shutdown, processor, workers>>

FingerprintTick ==
  /\ processor = "running"
  /\ devices' = EvaluateDirty(Prune(devices, now))
  /\ UNCHANGED <<cast, router, now, shutdown, processor, sink, workers>>

(* The active scanner is another producer. *)
ScannerSends ==
  /\ processor = "running" /\ Len(channel) < ChannelSize /\ ~shutdown
  /\ \E o \in cast.scanned : channel' = Append(channel, o)
  /\ UNCHANGED <<world, owed, workers>>

(* The last sender is gone: what is known is evaluated once more. *)
Finish ==
  /\ processor = "running" /\ channel = <<>>
  /\ \A w \in DOMAIN worker : worker[w] \in {"stopped", "failed", "absent"}
  /\ processor' = "finished"
  /\ devices' = EvaluateDirty(devices)
  /\ UNCHANGED <<cast, router, now, shutdown, sink, workers>>

(* Its own receiver is gone. *)
ProcessorEnds ==
  /\ cast.stops /\ processor = "running"
  /\ processor' = "gone" /\ channel' = <<>>
  /\ UNCHANGED <<cast, router, now, shutdown, devices, owed, workers>>

-----------------------------------------------------------------------------
(* The surroundings: the router, the clock, the supervisor. *)

RouterFails ==
  /\ router.mode = "working" /\ router.outages > 0
  /\ router' = [mode |-> "failing", outages |-> router.outages - 1]
  /\ UNCHANGED <<cast, now, shutdown, processor, devices, sink, workers>>

RouterRecovers ==
  /\ router.mode = "failing"
  /\ router' = [router EXCEPT !.mode = "working"]
  /\ UNCHANGED <<cast, now, shutdown, processor, devices, sink, workers>>

Tick ==
  /\ now < cast.ticks
  /\ now' = now + 1
  /\ UNCHANGED <<cast, router, shutdown, processor, devices, sink, workers>>

Shutdown ==
  /\ cast.stops /\ ~shutdown
  /\ shutdown' = TRUE
  /\ UNCHANGED <<cast, router, now, processor, devices, sink, workers>>

Work(w) ==
  \/ StopAtTop(w) \/ StartSession(w) \/ LoadCredentials(w)
  \/ Authenticate(w) \/ Discover(w) \/ StartCapture(w)
  \/ ReceiveChunk(w) \/ StopStream(w)
  \/ InterfaceUp(w) \/ CountUp(w) \/ DeliverPacket(w) \/ ChunkDelivered(w)
  \/ ExpireFlows(w) \/ DrainFlows(w) \/ InterfaceDown(w) \/ CountDown(w)
  \/ SessionEnded(w) \/ Wait(w)

LocalWork(l) ==
  \/ CheckLocal(l) \/ ReceiveLocal(l) \/ ReadFails(l) \/ ExpireLocal(l)
  \/ LocalEnds(l)

Next ==
  \/ \E w \in Interfaces \cap cast.workers : Work(w) \/ StreamEnds(w)
  \/ \E l \in Locals \cap cast.workers : LocalWork(l)
  \/ \E w \in cast.workers : Send(w) \/ SendFails(w)
  \/ Process \/ FingerprintTick \/ ScannerSends \/ Finish \/ ProcessorEnds
  \/ RouterFails \/ RouterRecovers \/ Tick \/ Shutdown

Spec == Init /\ [][Next]_vars

(* Steps of a worker end: requests by their timeouts, pauses by the clock. *)
(* A router that works goes on sending, and the processor takes what is    *)
(* sent.                                                                   *)
Fairness ==
  /\ \A w \in Interfaces :
       WF_vars(w \in cast.workers
                 /\ (Work(w) \/ StreamEnds(w) \/ Send(w) \/ SendFails(w)))
  /\ WF_vars(Process)

FairSpec == Spec /\ Fairness

-----------------------------------------------------------------------------
(* Properties. *)

TypeOK ==
  /\ cast \in Casts
  /\ router \in [mode : {"working", "failing"}, outages : Nat]
  /\ shutdown \in BOOLEAN
  /\ processor \in {"running", "gone", "finished"}
  /\ Len(channel) <= ChannelSize
  /\ Cardinality(DOMAIN devices) <= MaxDevices
  /\ health.active \subseteq Interfaces
  /\ health.authenticated \in BOOLEAN
  /\ up \in Nat
  /\ worker \in [Interfaces \cup Locals -> Places]
  /\ result \in [Interfaces -> Results]
  /\ \A w \in DOMAIN session :
       /\ session[w].decoder \in Decoder
       /\ Cardinality(DOMAIN session[w].observer.flows) <= MaxFlows
       /\ Cardinality(DOMAIN session[w].observer.seen) <= MaxSuppressed

(* However the network cuts the stream into chunks, a session that goes on *)
(* has given out, or holds, exactly the packets that are complete in what  *)
(* it has received; and the receive buffer suffices for every stream: its  *)
(* limit is an error that never comes (`PcapStreamDecoder::push`).         *)
PacketsComplete ==
  \A w \in Interfaces :
    LET v == session[w]
        whole == WholeRecords(v.stream, v.received)
    IN /\ v.delivered + v.fresh <= whole
       /\ worker[w] \in {"stream", "deliver", "count", "expire"} =>
            v.delivered + v.fresh = whole
       /\ v.decoder.buffer <= BufferCapacity
       /\ v.decoder.error # "BufferLimit"

(* The counter the readiness looks at is the local interfaces and the      *)
(* remote ones of the health record, but for the workers between their two *)
(* updates; and an interface is in the record exactly while the session of *)
(* its worker is open and has delivered.                                   *)
UpMatchesActive ==
  /\ up + Cardinality({w \in Interfaces : worker[w] = "count"})
       = LocalUp + Cardinality(health.active)
           + Cardinality({w \in Interfaces : worker[w] = "uncount"})
  /\ health.active = {w \in Interfaces : session[w].active}

(* One worker that fails does not make the shared record deny what another *)
(* one achieves: while an interface captures it says authenticated, and    *)
(* never that it waits for a retry.                                        *)
StatusTruthful ==
  health.active # {} =>
    health.authenticated /\ health.state \notin {"starting", "backoff"}

(* Any outage is recovered from: once the router works for good, every     *)
(* interface captures, unless the sensor ends.                             *)
Recovers ==
  <>[](router.mode = "working") =>
     \/ <>[](health.active = Interfaces \cap cast.workers)
     \/ <>(shutdown \/ processor # "running") \/ ~cast.address

(* The packets that observations, or flow windows, stand for. *)
Packets(f) == SumFunction([x \in DOMAIN f |-> f[x].packets])

(* Every packet that counted towards a flow is in an open window, on its   *)
(* way, or has arrived, exactly once, through expiry, reconnects and the   *)
(* end (a worker that a read error ends keeps its open windows for good);  *)
(* and the two directions of a conversation never become two flows.        *)
FlowsConserved ==
  /\ \/ processor = "gone"
     \/ owed + SumFunction([w \in DOMAIN session |->
                              session[w].observer.passed
                                - session[w].observer.skipped])
        = Packets(channel)
            + SumFunction([w \in DOMAIN session |->
                             Packets(session[w].observer.out)
                               + Packets(session[w].observer.flows)])
  /\ \A w \in DOMAIN session :
       \A k, m \in DOMAIN session[w].observer.flows :
         Conversation(k) = Conversation(m) => k = m

(* An observer repeats a claim only after SuppressFor, or when a full      *)
(* cache was emptied since; and it withholds one only while it has told    *)
(* that claim, not longer ago.                                             *)
ClaimsPaced ==
  [][\A w \in cast.workers :
       LET old == session[w].observer
           new == session'[w].observer
       IN new # NewObserver =>
            /\ \A key \in DOMAIN old.told :
                 new.told[key] # old.told[key] =>
                   \/ new.told[key] - old.told[key] >= SuppressFor
                   \/ new.cleared >= old.told[key]
            /\ \A key \in DOMAIN new.seen :
                 key \in DOMAIN new.told /\ new.seen[key] = new.told[key]
    ]_vars

(* Nothing is said of an address the operator excluded: no observation on  *)
(* its way names one, and no device is known by one, but for what DHCP     *)
(* says (`handle_dhcp` looks at no address).                               *)
ExcludedHidden ==
  /\ \A n \in DOMAIN channel :
       channel[n].by # "dhcp" => Addresses(channel[n]) \cap cast.excluded = {}
  /\ \A k \in DOMAIN devices :
       k[1] = "ip" => k[2] \notin cast.excluded

(* The operator's exclusion as the comment of `exclude_clients` has it:    *)
(* traffic of these clients is not looked at at all.                       *)
ExcludedUnseen ==
  \A n \in DOMAIN channel : Addresses(channel[n]) \cap cast.excluded = {}

(* What the registry knows of a device and has not marked is not stronger  *)
(* than what was told of it: no signal that would raise a fingerprint is   *)
(* forgotten, and in the end none is left.                                 *)
FingerprintsTold ==
  \A k \in DOMAIN devices :
    LET f == Evaluate(devices[k].signals) IN
    /\ ~devices[k].dirty =>
         ~f.reported \/ f.confidence <= devices[k].confidence
    /\ processor = "finished" => ~devices[k].dirty

=============================================================================
