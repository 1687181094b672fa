---------------------------- MODULE MCForumVotes ----------------------------
(* Instances of ForumVotes for TLC. *)
EXTENDS ForumVotes, TLC
=============================================================================
