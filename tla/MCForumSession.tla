--------------------------- MODULE MCForumSession ---------------------------
(* Instances of ForumSession for TLC. *)
EXTENDS ForumSession, TLC

Symmetry == Permutations(Wallet) \cup Permutations(Calls)
=============================================================================
