---------------------------- MODULE MCForumPolls ----------------------------
(***************************************************************************)
(* Instances of ForumPolls for TLC.                                        *)
(***************************************************************************)
EXTENDS ForumPolls, TLC

Symmetry ==
  Permutations(Proposals) \cup Permutations(Polls)
    \cup Permutations(Users) \cup Permutations(Requests)
=============================================================================
