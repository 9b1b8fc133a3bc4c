------------------------------- MODULE Client -------------------------------
(***************************************************************************)
(* What the backend's answers mean to the sensor                           *)
(* (crates/sensor-transport/src/client.rs, error.rs).  An answer arrives   *)
(* or not, and has a status and a body: empty, garbage, or content.        *)
(***************************************************************************)
EXTENDS Policy

(* By what is to be done, not by the status. *)
Classify(status) ==
  CASE status \in 200..299 -> "none"
    [] status \in {401, 403} -> "unauthorized"
    [] status = 410 -> "revoked"
    [] status = 429 -> "rate_limited"
    [] status \in {404, 405, 408, 409, 425} -> "routing"
    [] status \in 400..499 \ {401, 403, 404, 405, 408, 409, 410, 425, 429} ->
         "bad_request"
    [] OTHER -> "server"

IsRetryable(error) ==
  error \in {"network", "server", "rate_limited", "routing"}
IsTerminal(error) == error \in {"unauthorized", "revoked"}

Failure(answer) ==
  IF answer.arrived THEN Classify(answer.status) ELSE "network"

(* An empty answer takes the whole batch; one that cannot be read is the   *)
(* server's fault, although the batch may have been taken.                 *)
Upload(answer, sent) ==
  CASE Failure(answer) # "none" -> [error |-> Failure(answer), taken |-> {}]
    [] answer.body = "empty" -> [error |-> "none", taken |-> {sent}]
    [] answer.body = "garbage" -> [error |-> "server", taken |-> {}]
    [] OTHER -> [error |-> "none", taken |-> {answer.content}]

(* No settings, or those of the answer; an empty one holds nothing.  *)
FetchConfig(answer) ==
  CASE Failure(answer) # "none" \/ answer.body = "garbage" -> {}
    [] answer.body = "empty" -> {NoRemote}
    [] OTHER -> {answer.content}

Enrolled(answer) ==
  answer.arrived /\ answer.status \in 200..299 /\ answer.body = "content"

=============================================================================
