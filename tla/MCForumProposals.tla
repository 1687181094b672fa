-------------------------- MODULE MCForumProposals --------------------------
(***************************************************************************)
(* Instances of ForumProposals for TLC: model values for ids, hashes and   *)
(* requests, interchangeable within each kind.                             *)
(***************************************************************************)
EXTENDS ForumProposals, TLC

Symmetry == Permutations(Proposals) \cup Permutations(Contents)
              \cup Permutations(TxHashes) \cup Permutations(Requests)
=============================================================================
