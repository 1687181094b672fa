----------------------------- MODULE Discussion -----------------------------
(***************************************************************************)
(* What readers of the forum's comments are promised: a comment appears    *)
(* under an open proposal, and with it the proposal's number of comments   *)
(* grows, in one step; a reply appears under a comment of its proposal;    *)
(* each user may have flagged a comment or not; and closing a proposal     *)
(* takes its comments and their flags, at once, for good, and no other.    *)
(***************************************************************************)
EXTENDS Naturals

CONSTANTS Proposals, Comments, Users, None

VARIABLES open,  \* proposals that exist
          size,  \* the number of comments each shows
          post,  \* every comment: whether it is there, where, and below which
          flags  \* the pairs of a comment and a user who has reported it

vars == <<open, size, post, flags>>

Below(p) == {c \in Comments : post[c].phase = "live" /\ post[c].proposal = p}

Init ==
  /\ open = Proposals
  /\ size = [p \in Proposals |-> 0]
  /\ post = [c \in Comments |-> [phase |-> "unused", proposal |-> None, parent |-> None]]
  /\ flags = {}

Post(p, c, parent) ==
  /\ p \in open /\ post[c].phase = "unused"
  /\ parent = None \/ parent \in Below(p)
  /\ post' = [post EXCEPT ![c] = [phase |-> "live", proposal |-> p, parent |-> parent]]
  /\ size' = [size EXCEPT ![p] = @ + 1]
  /\ UNCHANGED <<open, flags>>

Flag(c, u) ==
  /\ post[c].phase = "live" /\ <<c, u>> \notin flags
  /\ flags' = flags \cup {<<c, u>>}
  /\ UNCHANGED <<open, size, post>>

Unflag(flag) ==
  /\ flags' = flags \ {flag}
  /\ UNCHANGED <<open, size, post>>

Close(p) ==
  /\ p \in open
  /\ open' = open \ {p}
  /\ size' = [size EXCEPT ![p] = 0]
  /\ post' = [c \in Comments |->
       IF c \in Below(p) THEN [post[c] EXCEPT !.phase = "gone"] ELSE post[c]]
  /\ flags' = {x \in flags : x[1] \notin Below(p)}

Next ==
  \/ \E p \in Proposals : Close(p)
  \/ \E p \in Proposals, c \in Comments, parent \in Comments \cup {None} : Post(p, c, parent)
  \/ \E c \in Comments, u \in Users : Flag(c, u)
  \/ \E flag \in flags : Unflag(flag)

Spec == Init /\ [][Next]_vars
=============================================================================
