-------------------------- MODULE MCSnapshotWarmer --------------------------
(* Instances of SnapshotWarmer for TLC. *)
EXTENDS SnapshotWarmer, TLC

CONSTANTS i1, i2, a, b

\* A fork switch: another block of the same height.
Switching == << [block |-> 2, hash |-> a], [block |-> 2, hash |-> b] >>
=============================================================================
