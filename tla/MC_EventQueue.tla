--------------------------- MODULE MC_EventQueue ----------------------------
(***************************************************************************)
(* Configurations of the event queue for TLC.                              *)
(***************************************************************************)
EXTENDS EventQueue

(* One byte per segment: the limit is raised from 3 to 6 bytes. *)
SmallConfig == {[maxDiskBytes |-> 3, segmentBytes |-> 1]}

(* The operator shrinks buffer.segment_bytes and buffer.max_disk_bytes.    *)
ShrinkingConfig == {[maxDiskBytes |-> 24, segmentBytes |-> 4],
                    [maxDiskBytes |-> 2, segmentBytes |-> 1]}

UnitSizes == [p \in Priority |-> {1}]

FourRecords == [p \in Priority |-> IF p = "bulk" THEN 0 ELSE 4]

(* Two of the large critical events fill that queue, six of the others do. *)
MixedSizes == [p \in Priority |-> IF p = "critical" THEN {1, 3} ELSE {1}]

FewRecords == [p \in Priority |-> 2]

=============================================================================
