---------------------------- MODULE DurableQueue ----------------------------
(***************************************************************************)
(* What one write-ahead log promises to its user, without segments, files  *)
(* or counters (the contract in the comments of                            *)
(* crates/sensor-buffer/src/log.rs, lines 1-21, 182-204 and 273-291).      *)
(*                                                                         *)
(* Records are numbered as they are appended.  Those below head are gone   *)
(* (confirmed or discarded), those from head to tail are delivered in      *)
(* order until they are confirmed.  A stop of the process or of the        *)
(* machine loses at most a suffix of the records that were not synced yet, *)
(* and may bring confirmed records back, never one below saved.            *)
(***************************************************************************)
EXTENDS Integers

VARIABLES
  head,    (* first record that is neither confirmed nor discarded         *)
  tail,    (* number of records appended                                   *)
  synced,  (* leading records that survive a power loss                    *)
  saved    (* a restart delivers no record below this one again            *)

qvars == <<head, tail, synced, saved>>

Init == head = 0 /\ tail = 0 /\ synced = 0 /\ saved = 0

(* One record more; earlier ones may be synced on the way. *)
Append ==
  /\ tail' = tail + 1
  /\ synced' \in {synced, tail}
  /\ UNCHANGED <<head, saved>>

Sync ==
  /\ synced' = tail
  /\ UNCHANGED <<head, tail, saved>>

(* The oldest records are confirmed, or given up by retention; either only *)
(* concerns synced records, and may fail to reach the disk.                *)
Release ==
  /\ head' > head
  /\ head' <= synced
  /\ saved' \in {saved, head'}
  /\ UNCHANGED <<tail, synced>>

(* A later try to record where the log now begins. *)
Persist ==
  /\ saved' = head
  /\ UNCHANGED <<head, tail, synced>>

Crash ==
  /\ tail' \in synced..tail
  /\ head' \in saved..head
  /\ synced' \in synced..tail'
  /\ UNCHANGED saved

Next == Append \/ Sync \/ Release \/ Persist \/ Crash

Spec == Init /\ [][Next]_qvars

(* Nothing is confirmed, discarded or recorded that a crash could still    *)
(* take away.                                                              *)
QueueInv ==
  /\ head \in Nat /\ tail \in Nat /\ synced \in Nat /\ saved \in Nat
  /\ saved <= head /\ head <= synced /\ synced <= tail

=============================================================================
