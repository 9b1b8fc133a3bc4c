------------------------------ MODULE MC_Host -------------------------------
(***************************************************************************)
(* Host with addresses of three bits, and five casts: setup with an        *)
(* operator, setup without one, sweeps under every mode, all of them at    *)
(* once on one file, and enrolment.  The decisions of Policy, Visibility,  *)
(* Setup and Diagnose are checked against references over small inputs.    *)
(***************************************************************************)
EXTENDS Host, Diagnose, Probe

MCAllowedPorts == {22}
MCBadCommunities == {"", "control"}

-----------------------------------------------------------------------------
(* Settings. *)

Net(bits, prefix) == [family |-> 4, bits |-> bits, prefix |-> prefix]
Https == [scheme |-> "https", host |-> "public"]
Http(host) == [scheme |-> "http", host |-> host]

(* The upper half of the addresses but one quarter of it; hosts 5, and 6   *)
(* of which is excluded. *)
Scanning(mode) ==
  [Defaults EXCEPT
     !.mode = mode,
     !.active = [enabled |-> TRUE, acknowledged |-> TRUE,
                 targets |-> {Net(5, 1)}, exclude |-> {Net(6, NoPrefix)},
                 rate |-> 1, icmp |-> TRUE, tcp_connect |-> TRUE,
                 ports |-> {22, 23}, banner |-> TRUE, snmp |-> TRUE,
                 communities |-> {"public"}]]

(* Two targets of two addresses, one of them excluded but for an address,  *)
(* and nothing but connections. *)
Connecting ==
  [Scanning("active") EXCEPT
     !.active.targets = {Net(0, 2), Net(4, 2)},
     !.active.exclude = {Net(4, 3), Net(2, 2)},
     !.active.icmp = FALSE, !.active.snmp = FALSE,
     !.active.banner = FALSE, !.active.rate = 2]

Asking == [Scanning("active") EXCEPT
  !.active.tcp_connect = FALSE, !.active.icmp = FALSE,
  !.active.communities = {"public", "private"}]

(* One host, which is asked with two communities, until that is withdrawn. *)
Single == [Asking EXCEPT !.active.targets = {Net(5, NoPrefix)}]
Withdrawn == [Single EXCEPT !.active.enabled = FALSE]

Insecure == [Scanning("balanced") EXCEPT
  !.promiscuous = FALSE, !.backend.api = Http("public"),
  !.backend.ingest = Http("public")]

Exceeding == [Scanning("active") EXCEPT !.exceeded = {"flow_window"}]

Attached == [Scanning("active") EXCEPT
  !.deployment = [edition |-> "homelab", profile |-> "span",
                  vantage |-> "mirror_port", gateway |-> {1},
                  lan |-> {Net(0, 1)}]]

(* Valid as long as the router's capture is off. *)
Slow == [Attached EXCEPT !.fritzbox.timeouts = FALSE]

-----------------------------------------------------------------------------
(* The machine, the operator and the backend. *)

Answers ==
  [interactive |-> TRUE, edition |-> {}, profile |-> {}, vantage |-> {},
   interfaces |-> {}, gateway |-> {}, lan |-> {}, probe_gateway |-> FALSE,
   profiles |-> {"fritzbox", "span"}, hosts |-> {"", "private", "LOCALHOST"},
   address |-> "router", dry_run |-> FALSE]

Unattended == [Answers EXCEPT !.interactive = FALSE]

Probing == [Unattended EXCEPT !.probe_gateway = TRUE, !.edition = {"homelab"}]

(* A network of more bits than an address has is refused. *)
Told == [Unattended EXCEPT !.profile = {"opnsense"}, !.vantage = {"gateway"},
           !.interfaces = {"eth0"}, !.gateway = {2}, !.lan = {Net(0, 4)}]

Wired == [Told EXCEPT !.lan = {Net(0, 1)}]

Machine ==
  [detected |-> [interface |-> {"eth0"}, gateway |-> {1},
                 lan |-> {Net(0, 1)}],
   gateway |-> [tr064 |-> TRUE, page |-> {}],
   available |-> {"eth0"},
   router |-> [login |-> TRUE,
               capture |-> [starts |-> TRUE, decodes |-> TRUE,
                            packets |-> 1, link |-> "ethernet"],
               offered |-> {"lan", "wan"},
               available |-> [lan |-> TRUE, wan |-> FALSE]]]

(* A newer version that would widen everything, and a stop. *)
Widen ==
  [NoRemote EXCEPT !.version = 1,
     !.active = [targets |-> {Net(0, 0)}, exclude |-> {}, rate |-> 9],
     !.privacy = [dns_observation |-> FALSE]]
Pause == [NoRemote EXCEPT !.enabled = {FALSE}]

(* The answer a request gets, or none. *)
Answer(body, content) ==
  [arrived |-> TRUE, status |-> 200, body |-> body, content |-> content]
Lost == [Answer("empty", NoRemote) EXCEPT !.arrived = FALSE]
Refused == [Answer("content", Widen) EXCEPT !.status = 403]

NoBudget ==
  [edits |-> 0, setups |-> 0, enrolments |-> 0, resets |-> 0,
   starts |-> 0, outages |-> 0]

Base ==
  [budget |-> NoBudget, first |-> {Defaults}, documents |-> {},
   args |-> {}, host |-> Machine, identity |-> "whole",
   answers |-> {Answer("empty", NoRemote)}]

Interactive ==
  [Base EXCEPT
     !.budget = [NoBudget EXCEPT !.setups = 1, !.edits = 1, !.outages = 1],
     !.first = {Insecure, Attached}, !.documents = {Exceeding, Slow},
     !.args = {Answers}]

Quiet ==
  [Base EXCEPT
     !.budget = [NoBudget EXCEPT !.setups = 2, !.edits = 2, !.outages = 1],
     !.first = {Defaults, Insecure},
     !.documents = {Attached, Exceeding},
     !.args = {Unattended, Probing, Told}]

Sweeping ==
  [Base EXCEPT
     !.budget = [NoBudget EXCEPT !.starts = 1],
     !.first = {Scanning(mode) :
                  mode \in {"passive_only", "balanced", "active"}}
               \cup {Connecting, Asking},
     !.answers = {Answer("empty", NoRemote), Answer("content", Widen),
                  Answer("content", Pause), Lost, Refused}]

Together ==
  [Base EXCEPT
     !.budget = [NoBudget EXCEPT !.starts = 1, !.setups = 1, !.edits = 1],
     !.first = {Single}, !.documents = {Withdrawn},
     !.args = {Wired}]

Enrolling ==
  [Base EXCEPT
     !.budget = [NoBudget EXCEPT !.enrolments = 2, !.resets = 1,
                                 !.outages = 1, !.starts = 1],
     !.identity = "absent",
     !.answers = {Answer("content", NoRemote), Refused}]

MCCasts == {Interactive, Quiet, Sweeping, Together, Enrolling}

-----------------------------------------------------------------------------
(* References. *)

Texts ==
  {[family |-> 4, bits |-> b, prefix |-> p] :
     b \in 0..(2^Width - 1), p \in {NoPrefix} \cup 0..Width}
Addresses == [family : {4, 6}, bits : 0..(2^Width - 1)]

(* A network holds the addresses that agree with it in the first bits. *)
ASSUME ContainsAgrees ==
  \A text \in Texts, ip \in Addresses :
    LET rest == 2^(IF text.prefix = NoPrefix THEN 0 ELSE Width - text.prefix)
    IN CidrContains(Parse(text), ip)
         <=> /\ ip.family = text.family
             /\ ip.bits \div rest = text.bits \div rest

(* The hosts are the addresses of the network but the first and the last,  *)
(* which are hosts only where there is no third. *)
ASSUME HostsAreInside ==
  \A text \in Texts :
    LET cidr == Parse(text)
        all == {ip \in Addresses : CidrContains(cidr, ip)}
        end == {ip \in all : \/ \A other \in all : ip.bits <= other.bits
                            \/ \A other \in all : ip.bits >= other.bits}
    IN Hosts(cidr) = IF ~Walkable(cidr) THEN {}
                     ELSE IF Cardinality(all) <= 2 THEN all ELSE all \ end

(* More switches, promiscuous mode and a place that sees more take nothing *)
(* away from what the report says is seen.                                 *)
Rank(vantage) ==
  [lan_host |-> 0, gateway |-> 1,
   mirror_port |-> 2, network_tap |-> 2][vantage]

Views ==
  {[Defaults EXCEPT !.passive = [m \in DOMAIN @ |-> m \in on],
                    !.privacy.dns_observation = dns,
                    !.promiscuous = promiscuous,
                    !.deployment.vantage = vantage] :
     on \in SUBSET {"arp", "dhcp", "dns", "flows"},
     dns \in BOOLEAN, promiscuous \in BOOLEAN, vantage \in Vantages}

Below(a, b) ==
  /\ \A m \in DOMAIN a.passive : a.passive[m] => b.passive[m]
  /\ a.privacy.dns_observation => b.privacy.dns_observation
  /\ a.promiscuous => b.promiscuous
  /\ Rank(EffectiveVantage(a)) <= Rank(EffectiveVantage(b))

ASSUME VisibilityMonotone ==
  \A a, b \in Views :
    Below(a, b) =>
      LET less == VisibilityReport(a)
          more == VisibilityReport(b)
      IN \A line \in DOMAIN less : less[line] <= more[line]

(* Setup without a terminal on a file that does not load writes the        *)
(* default of a setting nobody was asked about.                            *)
ASSUME UnaskedOverwritten ==
  ~Valid(Insecure) /\
  \A plan \in Plans(Defaults, Unattended, Machine) :
    UpdateDocument(plan, Insecure).promiscuous # Insecure.promiscuous

(* Credentials are read as they were stored, but for characters of more    *)
(* than one byte. *)
ASSUME CredentialsRoundTrip ==
  \A text \in UNION {[1..n -> {"plain", "percent", "break", "umlaut"}] :
                       n \in 0..3} :
    Unescape(Escape(text)) = text
      <=> \A i \in DOMAIN text : text[i] # "umlaut"

(* The URLs made from a name pass the validation, but for one whose case   *)
(* differs. *)
ASSUME UrlsAccepted ==
  \A host \in {"localhost", "127.0.0.1", "::1", "private", "public"} :
    Valid(Preview([PlanOf(Defaults) EXCEPT
                     !.backend = BackendUrlsForHost(host)], Defaults))

(* Of two gateways the one with the lower metric, of its networks the      *)
(* narrowest. *)
Route(default, metric, gateway, interface, prefix) ==
  [default |-> default, metric |-> metric, gateway |-> gateway,
   interface |-> interface, net |-> Net(4, prefix)]

ASSUME BestRoute ==
  DetectVantagePoint(
    <<Route(TRUE, 20, {9}, "wlan0", 0), Route(FALSE, 0, {}, "eth0", 1),
      Route(TRUE, 10, {5}, "eth0", 0), Route(FALSE, 0, {}, "eth0", 2),
      Route(FALSE, 0, {5}, "eth0", 3)>>)
    = [interface |-> {"eth0"}, gateway |-> {5}, lan |-> {Net(4, 2)}]

(* For every status the uploader knows one thing to do: go on, try again,  *)
(* stop, or drop the batch, which it does for no status that a proxy or a  *)
(* rollout sends. *)
ASSUME AnswersClassified ==
  \A status \in 100..599 :
    LET error == Classify(status) IN
    /\ Cardinality({next \in {"on", "again", "stop", "drop"} :
                      CASE next = "on" -> error = "none"
                        [] next = "again" -> IsRetryable(error)
                        [] next = "stop" -> IsTerminal(error)
                        [] next = "drop" -> error = "bad_request"}) = 1
    /\ status \in {404, 405, 408, 409, 425, 429} \cup 300..399 \cup 500..599
         => IsRetryable(error)

(* A batch is taken for sent only when the backend said so. *)
ASSUME SentOnlyWhenTaken ==
  \A answer \in [arrived : BOOLEAN, status : {200, 302, 400, 401, 503},
                 body : {"empty", "garbage", "content"}, content : {1}] :
    Upload(answer, 2).error = "none"
      <=> Upload(answer, 2).taken # {}

-----------------------------------------------------------------------------
(* The probes. *)

(* A length is read as it was written, and what is cut off is not read. *)
ASSUME LengthsRoundTrip ==
  \A n \in {0, 1, 127, 128, 255, 256, 300} :
    LET value == [i \in 1..n |-> i % 256]
        bytes == Tlv(4, value) \o <<9>>
    IN /\ ReadAny(bytes) =
            [ok |-> TRUE, tag |-> 4, value |-> value, rest |-> <<9>>]
       /\ \A k \in 0..4 : ~ReadAny(SubSeq(bytes, 1, Len(bytes) - 2 - k)).ok

ASSUME IntegersRoundTrip ==
  \A n \in {0, 1, 127, 128, 255, 256, 65536, 16777215, -1, -129} :
    ReadInteger(Integer(n)).n = n

Said(column) == Tlv(4, <<65, column>>)
Reply(kind, id, columns) ==
  Message(kind, <<112>>, id,
          FlattenSeq([i \in DOMAIN columns |->
                        Varbind(Oid(columns[i]), Said(columns[i]))]))

(* Only a whole response to this request, with at most the four variables  *)
(* it asked for, is an answer. *)
ASSUME OnlyAnswersParse ==
  LET parsed(bytes) == ParseResponse(bytes, <<112>>, 7)
      whole == Reply(162, 7, Oids)
  IN /\ parsed(whole)
          = {[i \in DOMAIN Oids |-> {<<65, Oids[i]>>}]}
     /\ parsed(Reply(162, 7, <<>>)) = {<<>>}
     /\ parsed(Reply(162, 7, <<5>>)) = {[i \in {3} |-> {<<65, 5>>}]}
     /\ \A bytes \in {Reply(160, 7, Oids), Reply(162, 8, Oids),
                      Reply(162, 7, <<1, 2, 5, 6, 1>>),
                      Reply(162, 7, <<3>>), BuildGetRequest(<<112>>, 7)}
                     \cup {SubSeq(whole, 1, k) : k \in 0..(Len(whole) - 1)} :
          parsed(bytes) = {}
     /\ ParseResponse(whole, <<113>>, 7) = {}

(* A packet with its checksum sums up to nothing; a request is no reply,   *)
(* with and without the header of the IP packet.                           *)
ASSUME EchoChecked ==
  \A id \in {0, 1, 255, 65535},
     payload \in {<<>>, <<84, 82>>, <<255, 255, 1>>} :
    LET request == BuildEchoRequest(id, 1, payload)
        header == <<69>> \o [i \in 1..19 |-> 0]
    IN /\ InternetChecksum(request) = 0
       /\ ~IsEchoReply(request) /\ ~IsEchoReply(header \o request)
       /\ LET reply == [request EXCEPT ![1] = 0]
          IN IsEchoReply(reply) /\ IsEchoReply(header \o reply)

(* A banner comes from an open port. *)
ASSUME BannerOnlyWhenOpen ==
  \A outcome \in {"accepted", "refused", "timeout"}, said \in {<<>>, <<83>>} :
    TcpBanner(outcome, said).banner # {}
      => PortState(outcome) = "open" /\ said # <<>>

-----------------------------------------------------------------------------
(* The diagnosis. *)

Healthy ==
  [config |-> Attached, present |-> TRUE, others |-> FALSE,
   group_writes |-> FALSE, user |-> TRUE, unit |-> TRUE,
   state_dir |-> "writable", wal |-> "writable", file_caps |-> {},
   ambient |-> {"CAP_NET_RAW", "CAP_NET_ADMIN"},
   found |-> [eth0 |-> [loopback |-> FALSE, up |-> TRUE, opens |-> TRUE],
              lo |-> [loopback |-> TRUE, up |-> TRUE, opens |-> TRUE]],
   router |-> "reached", advertised |-> {"lan"}, wal_over |-> FALSE,
   disk_full |-> FALSE, resolves |-> TRUE, answers |-> TRUE, admin |-> "up"]

(* Everything that keeps the daemon from capturing or storing is an error: *)
(* one thing at a time is wrong here.                                      *)
Blocked ==
  {[Healthy EXCEPT !.config = Exceeding],
   [Healthy EXCEPT !.config.promiscuous = FALSE],
   [Healthy EXCEPT !.state_dir = "locked"],
   [Healthy EXCEPT !.ambient = {"CAP_NET_ADMIN"}],
   [Healthy EXCEPT !.file_caps = {"CAP_NET_ADMIN"}],
   [Healthy EXCEPT !.unit = FALSE],
   [Healthy EXCEPT !.config.interfaces = {"eth1"}],
   [Healthy EXCEPT !.config.interfaces = {"lo"}],
   [Healthy EXCEPT !.found["eth0"].opens = FALSE],
   [Healthy EXCEPT !.config.fritzbox.enabled = TRUE,
                   !.config.fritzbox.interfaces = {"wan"}],
   [Healthy EXCEPT !.wal_over = TRUE],
   [Healthy EXCEPT !.disk_full = TRUE]}

ASSUME BlockersFound ==
  \A host \in Blocked : ExitCode(Diagnosis(host)) = 2

(* No interface that can capture: nothing is reported, although the daemon *)
(* does not start then.                                                    *)
ASSUME NoInterfaceUnseen ==
  ExitCode(Diagnosis([Healthy EXCEPT !.found["eth0"].up = FALSE])) = 1

=============================================================================
