------------------------------ MODULE Scanner -------------------------------
(***************************************************************************)
(* Active discovery (crates/sensor-active): sweeps over the hosts of the   *)
(* policy, each probe paid with a token of one bucket.  What a sweep finds *)
(* and counts is left out; a probe is answered or not.                     *)
(*                                                                         *)
(* Time goes in ticks, TokenTicks of them for one token at a rate of one   *)
(* per second: the bucket gains `rate` units in a tick, a probe costs      *)
(* TokenTicks units.                                                       *)
(***************************************************************************)
EXTENDS Policy, Sequences

CONSTANTS
  TokenTicks, (* resolution of the clock: ticks of a second               *)
  Remembered  (* bound of the model: probes that are remembered           *)

ASSUME ScannerAssumption ==
  TokenTicks \in Nat \ {0} /\ Remembered \in Nat \ {0}

VARIABLES
  policy,  (* what the daemon runs with                                   *)
  sweep,   (* where the sweep is, at which host, and what is left to do   *)
  bucket,  (* the tokens, and the ticks since they were refilled          *)
  probes,  (* the last probes, each with the ticks since it was sent      *)
  late     (* probes sent since the shutdown was announced, two at most   *)

scannerVars == <<policy, sweep, bucket, probes, late>>

Capacity == policy.rate * TokenTicks

NoIp == [family |-> 0, bits |-> 0]

NoSweep ==
  [at |-> "idle", hosts |-> {}, ip |-> NoIp, communities |-> {}, ports |-> {}]

FullBucket(rate) == [units |-> rate * TokenTicks, since |-> 0]

ScannerInit ==
  /\ policy = Off /\ sweep = NoSweep /\ bucket = FullBucket(1)
  /\ probes = <<>> /\ late = 0

Least(a, b) == IF a < b THEN a ELSE b

-----------------------------------------------------------------------------
(* The bucket. *)

(* Slip: tokens are saved up without limit. *)
RefilledUnlimited(b) == b.units + b.since * policy.rate

Refilled(b) == Least(b.units + b.since * policy.rate, Capacity)

(* A token that is there is taken; else `acquire` sleeps and tries again,  *)
(* whatever is announced meanwhile.                                        *)
Acquire ==
  /\ Refilled(bucket) >= TokenTicks
  /\ bucket' = [units |-> Refilled(bucket) - TokenTicks, since |-> 0]

-----------------------------------------------------------------------------
(* A sweep. *)

(* Networks that are too large are skipped. *)
Targets ==
  {ip \in UNION {Hosts(cidr) : cidr \in policy.targets} :
     MayProbe(policy, ip)}

StartSweep ==
  /\ sweep.at = "idle" /\ policy.targets # {}
  /\ sweep' = [NoSweep EXCEPT !.at = "host", !.hosts = Targets]
  /\ UNCHANGED <<policy, bucket, probes, late>>

(* In the order of the addresses; asked once more whether the host may be  *)
(* probed. *)
TakeHost ==
  \E ip \in sweep.hosts :
    /\ \A other \in sweep.hosts : ip.bits <= other.bits
    /\ sweep' =
         IF MayProbe(policy, ip)
           THEN [at |-> IF policy.icmp THEN "icmp" ELSE "community",
                 hosts |-> sweep.hosts \ {ip}, ip |-> ip,
                 communities |-> policy.communities, ports |-> policy.ports]
           ELSE [sweep EXCEPT !.hosts = @ \ {ip}]

(* The end is looked for before every host. *)
NextHost(stopping) ==
  /\ sweep.at = "host"
  /\ IF sweep.hosts = {} \/ stopping THEN sweep' = NoSweep ELSE TakeHost
  /\ UNCHANGED <<policy, bucket, probes, late>>

(* Slip: nobody looks at the shutdown between two probes of a host. *)
GoOnAnyway(stopping) == TRUE

(* The shutdown is looked at before a token is asked for, not after. *)
GoesOn(stopping) == ~stopping

NextCommunity(stopping) ==
  /\ sweep.at = "community"
  /\ sweep' = [sweep EXCEPT !.at =
                 IF sweep.communities # {} /\ GoesOn(stopping)
                   THEN "snmp" ELSE "port"]
  /\ UNCHANGED <<policy, bucket, probes, late>>

NextPort(stopping) ==
  /\ sweep.at = "port"
  /\ sweep' = [sweep EXCEPT !.at =
                 IF sweep.ports # {} /\ GoesOn(stopping)
                   THEN "connect" ELSE "host"]
  /\ UNCHANGED <<policy, bucket, probes, late>>

(* Sending a probe: a token first. *)
Send(kind, with, stopping) ==
  /\ Acquire
  /\ probes' = LET all == Append(probes, [kind |-> kind, with |-> with,
                                         ip |-> sweep.ip, age |-> 0])
               IN IF Len(all) > Remembered THEN Tail(all) ELSE all
  /\ late' = IF stopping THEN Least(late + 1, 2) ELSE 0
  /\ UNCHANGED policy

IcmpEcho(stopping) ==
  /\ sweep.at = "icmp"
  /\ Send("icmp", {}, stopping)
  /\ sweep' = [sweep EXCEPT !.at = "community"]

(* One community after the other, until one answers. *)
GetSystem(stopping) ==
  /\ sweep.at = "snmp"
  /\ \E community \in sweep.communities :
       /\ Send("snmp", {community}, stopping)
       /\ \E answered \in BOOLEAN :
            sweep' = [sweep EXCEPT !.at = "community",
                        !.communities = IF answered THEN {}
                                        ELSE @ \ {community}]

(* A connection, and what the service says when banners are wanted. *)
TcpProbe(stopping) ==
  /\ sweep.at = "connect"
  /\ \E port \in sweep.ports :
       /\ Send(IF policy.banner THEN "banner" ELSE "connect", {port},
               stopping)
       /\ sweep' = [sweep EXCEPT !.at = "port", !.ports = @ \ {port}]

SweepStep(stopping) ==
  \/ NextHost(stopping) \/ NextCommunity(stopping) \/ NextPort(stopping)
  \/ IcmpEcho(stopping) \/ GetSystem(stopping) \/ TcpProbe(stopping)

-----------------------------------------------------------------------------
(* Time.  A bucket that has been left alone until it is full twice over    *)
(* stays as it is; the oldest probe is forgotten after Horizon ticks.      *)
Horizon == Remembered * TokenTicks

Tick ==
  /\ \/ probes # <<>>
     \/ bucket.since < 2 * TokenTicks
  /\ \A i \in DOMAIN probes : probes[i].age < Horizon
  /\ bucket' = [bucket EXCEPT !.since = Least(@ + 1, 2 * TokenTicks)]
  /\ probes' = [i \in DOMAIN probes |-> [probes[i] EXCEPT !.age = @ + 1]]
  /\ UNCHANGED <<policy, sweep, late>>

Forget ==
  /\ probes # <<>> /\ Head(probes).age >= Horizon
  /\ probes' = Tail(probes)
  /\ UNCHANGED <<policy, sweep, bucket, late>>

=============================================================================
