---------------------------- MODULE MC_Uploader -----------------------------
(***************************************************************************)
(* A small uploader for TLC: events of two priorities, batches of two.     *)
(***************************************************************************)
EXTENDS Uploader

TwoSenders == {"critical", "bulk"}

(* The first bulk record was written by a version with another format. *)
OldRecord == {<<"bulk", 0>>}

=============================================================================
