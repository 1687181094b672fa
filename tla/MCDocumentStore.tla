-------------------------- MODULE MCDocumentStore --------------------------
(* Instances of DocumentStore for TLC. *)
EXTENDS DocumentStore, TLC

CONSTANTS a1, a2, e1, e2, e3, p1, p2
=============================================================================
