------------------------------- MODULE Ballot -------------------------------
(***************************************************************************)
(* What voters of the forum are promised, for the likes of a proposal and  *)
(* for a poll alike: while a ballot is open each voter has one vote and    *)
(* may change its side, the tally is at every moment the count of the      *)
(* votes, a closed ballot never changes or opens again, and a discarded    *)
(* one takes its votes with it.                                            *)
(***************************************************************************)
EXTENDS Naturals, FiniteSets

CONSTANTS Ballots, Voters

VARIABLES phase,  \* of each ballot
          vote,   \* of each voter on each ballot
          yes, no \* the published tallies

vars == <<phase, vote, yes, no>>

Votes == {"none", "yes", "no"}
Other(side) == IF side = "yes" THEN "no" ELSE "yes"
Count(box, side) == Cardinality({v \in Voters : box[v] = side})

Init ==
  /\ phase \in [Ballots -> {"unused", "open"}]
  /\ vote = [b \in Ballots |-> [v \in Voters |-> "none"]]
  /\ yes = [b \in Ballots |-> 0]
  /\ no = [b \in Ballots |-> 0]

\* The tally follows the votes in the same step.
Record(b, box) ==
  /\ vote' = [vote EXCEPT ![b] = box]
  /\ yes' = [yes EXCEPT ![b] = Count(box, "yes")]
  /\ no' = [no EXCEPT ![b] = Count(box, "no")]

Enter(b, from, to) == phase[b] \in from /\ phase' = [phase EXCEPT ![b] = to]

Open(b) == Enter(b, {"unused"}, "open") /\ UNCHANGED <<vote, yes, no>>
Close(b) == Enter(b, {"open"}, "closed") /\ UNCHANGED <<vote, yes, no>>

Cast(b, v, side) ==
  /\ phase[b] = "open" /\ vote[b][v] = "none"
  /\ Record(b, [vote[b] EXCEPT ![v] = side])
  /\ UNCHANGED phase

Change(b, v) ==
  /\ phase[b] = "open" /\ vote[b][v] # "none"
  /\ Record(b, [vote[b] EXCEPT ![v] = Other(@)])
  /\ UNCHANGED phase

\* All the ballots of one removed proposal go together.
Discard(B) ==
  /\ \A b \in B : phase[b] \in {"open", "closed"}
  /\ phase' = [b \in Ballots |-> IF b \in B THEN "gone" ELSE phase[b]]
  /\ vote' = [b \in Ballots |-> IF b \in B THEN [v \in Voters |-> "none"] ELSE vote[b]]
  /\ yes' = [b \in Ballots |-> IF b \in B THEN 0 ELSE yes[b]]
  /\ no' = [b \in Ballots |-> IF b \in B THEN 0 ELSE no[b]]

Next ==
  \/ \E b \in Ballots : Open(b) \/ Close(b)
  \/ \E b \in Ballots, v \in Voters, side \in {"yes", "no"} : Cast(b, v, side)
  \/ \E b \in Ballots, v \in Voters : Change(b, v)
  \/ \E B \in SUBSET Ballots : Discard(B)

Spec == Init /\ [][Next]_vars
=============================================================================
