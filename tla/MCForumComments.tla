-------------------------- MODULE MCForumComments --------------------------
(* Instances of ForumComments for TLC. *)
EXTENDS ForumComments, TLC

CONSTANTS p1, p2, u1, u2, r1, r2, r3, c1, c2, c3, i1, i2

Symmetry ==
  Permutations(Proposals) \cup Permutations(Users) \cup Permutations(Requests)
    \cup Permutations(Comments) \cup Permutations(Reports)
=============================================================================
