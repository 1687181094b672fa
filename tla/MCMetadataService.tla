------------------------- MODULE MCMetadataService -------------------------
(* Instances of MetadataService for TLC. *)
EXTENDS MetadataService, TLC

CONSTANTS h1, h2, u1, b1, r1, r2

OneAnchor == {[hash |-> h1, url |-> u1]}

\* The refresh window and the first back-off are the same minute.
Windows == <<1, 2>>
=============================================================================
