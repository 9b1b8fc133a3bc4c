-------------------------- MODULE MC_SegmentedLog ---------------------------
(***************************************************************************)
(* A log of a few records for TLC.                                         *)
(***************************************************************************)
EXTENDS SegmentedLog

=============================================================================
