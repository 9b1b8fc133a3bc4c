----------------------------- MODULE MC_Daemon ------------------------------
(***************************************************************************)
(* A small daemon for TLC: few producers at a time share the channels, few  *)
(* tasks at a time may panic.                                              *)
(***************************************************************************)
EXTENDS Daemon

CONSTANTS eth, wan

Local == {eth}
Remote == {wan}

With(tasks, prone) == [producers |-> tasks, panics |-> prone]

Several == {
  With({eth, wan}, {}),
  With({eth, "heartbeat"}, {}),
  With({eth, "sweep"}, {"sweep"}),
  With({eth, "poll"}, {}),
  With({eth}, {"processor"}),
  With({eth}, {"uploader"}),
  With({eth}, {eth, "admin"})}

(* Only a router is captured. *)
RouterOnly == {With({wan}, {})}

=============================================================================
