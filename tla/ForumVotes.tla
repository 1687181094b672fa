----------------------------- MODULE ForumVotes -----------------------------
(***************************************************************************)
(* Likes and dislikes of proposals in govtool-pdf-backend:                 *)
(* ProposalVotesService.create and update, and the cascade of              *)
(* ProposalsService.remove, run by concurrent requests.                    *)
(*                                                                         *)
(* One step is one SQL statement at READ COMMITTED, except that the last   *)
(* UPDATE of a transaction and its COMMIT are one step: between them the   *)
(* row is locked and what was written is invisible.  The row locks are     *)
(* Postgres's: an INSERT of a vote takes a key share of the proposal its   *)
(* foreign key names, which an UPDATE of the counters does not conflict    *)
(* with and a DELETE does.                                                 *)
(*                                                                         *)
(* A vote is named by its (proposal, user): the pair is unique and ids of  *)
(* proposals are never handed out twice.                                   *)
(***************************************************************************)
EXTENDS Naturals, FiniteSets

CONSTANTS Proposals, Users, Requests, None

ASSUME VotesAssumption ==
  /\ None \notin Proposals \cup Users \cup Requests
  /\ IsFiniteSet(Users)

VARIABLES proposals,       \* committed proposals
          vote,            \* the committed vote of each user on each proposal
          likes, dislikes, \* the counters in the proposal's row
          keyShare,        \* requests holding a key share of each proposal row
          rowLock,         \* the request deleting each proposal row
          voteLock,        \* the request that has written each vote row
          at,              \* the next statement of each request
          target           \* its proposal, user and side

tables == <<proposals, vote, likes, dislikes>>
locks  == <<keyShare, rowLock, voteLock>>
vars   == <<tables, locks, at, target>>

Sides == {"yes", "no"}
Other(side) == IF side = "yes" THEN "no" ELSE "yes"
Votes == Sides \cup {"none"}
Targets == [proposal : Proposals \cup {None}, user : Users \cup {None}, side : Votes]
NoTarget == [proposal |-> None, user |-> None, side |-> "none"]
Statements == {"idle", "insert", "count", "flip", "recount", "delete", "cascade"}

TypeOK ==
  /\ proposals \subseteq Proposals
  /\ vote \in [Proposals -> [Users -> Votes]]
  /\ likes \in [Proposals -> Nat] /\ dislikes \in [Proposals -> Nat]
  /\ keyShare \in [Proposals -> SUBSET Requests]
  /\ rowLock \in [Proposals -> Requests \cup {None}]
  /\ voteLock \in [Proposals -> [Users -> Requests \cup {None}]]
  /\ at \in [Requests -> Statements]
  /\ target \in [Requests -> Targets]

Init ==
  /\ proposals = Proposals
  /\ vote = [p \in Proposals |-> [u \in Users |-> "none"]]
  /\ likes = [p \in Proposals |-> 0] /\ dislikes = [p \in Proposals |-> 0]
  /\ keyShare = [p \in Proposals |-> {}]
  /\ rowLock = [p \in Proposals |-> None]
  /\ voteLock = [p \in Proposals |-> [u \in Users |-> None]]
  /\ at = [r \in Requests |-> "idle"]
  /\ target = [r \in Requests |-> NoTarget]

P(r) == target[r].proposal
U(r) == target[r].user
Side(r) == target[r].side

Goto(r, stmt) == at' = [at EXCEPT ![r] = stmt]

Start(r, stmt, t) ==
  /\ at[r] = "idle"
  /\ Goto(r, stmt)
  /\ target' = [target EXCEPT ![r] = t]
  /\ UNCHANGED <<tables, locks>>

\* The transaction is over, by COMMIT or ROLLBACK: its locks go.
Finish(r) ==
  /\ Goto(r, "idle")
  /\ target' = [target EXCEPT ![r] = NoTarget]
  /\ keyShare' = [p \in Proposals |-> keyShare[p] \ {r}]
  /\ rowLock' = [p \in Proposals |-> IF rowLock[p] = r THEN None ELSE rowLock[p]]
  /\ voteLock' = [p \in Proposals |-> [u \in Users |->
                    IF voteLock[p][u] = r THEN None ELSE voteLock[p][u]]]

Rollback(r) == Finish(r) /\ UNCHANGED tables

VoteRowFree(r) == voteLock[P(r)][U(r)] \in {r, None}

-----------------------------------------------------------------------------
\* create()

\* The proposal exists and the caller has no vote on it, as far as the two
\* reads before the transaction can tell.
VoteFind(r, p, u, side) ==
  /\ p \in proposals /\ vote[p][u] = "none"
  /\ Start(r, "insert", [proposal |-> p, user |-> u, side |-> side])

\* Mutant: the vote has no foreign key to its proposal.
VoteInsertNoForeignKey(r) ==
  /\ at[r] = "insert"
  /\ VoteRowFree(r) /\ rowLock[P(r)] = None
  /\ IF vote[P(r)][U(r)] = "none"
     THEN /\ voteLock' = [voteLock EXCEPT ![P(r)][U(r)] = r]
          /\ keyShare' = [keyShare EXCEPT ![P(r)] = @ \cup {r}]
          /\ Goto(r, "count")
          /\ UNCHANGED <<tables, rowLock, target>>
     ELSE Rollback(r)

\* INSERT: waits for another insert of the same pair, and for a delete of the
\* proposal; then the unique index or the foreign key may refuse it.
VoteInsert(r) ==
  /\ at[r] = "insert"
  /\ VoteRowFree(r) /\ rowLock[P(r)] = None
  /\ IF vote[P(r)][U(r)] = "none" /\ P(r) \in proposals
     THEN /\ voteLock' = [voteLock EXCEPT ![P(r)][U(r)] = r]
          /\ keyShare' = [keyShare EXCEPT ![P(r)] = @ \cup {r}]
          /\ Goto(r, "count")
          /\ UNCHANGED <<tables, rowLock, target>>
     ELSE Rollback(r)

\* likes = likes + 1, evaluated on the row's latest version, and COMMIT.
VoteCount(r) ==
  LET p == P(r)
  IN  /\ at[r] = "count"
      /\ rowLock[p] = None
      /\ vote' = [vote EXCEPT ![p][U(r)] = Side(r)]
      /\ likes' = IF Side(r) = "yes" THEN [likes EXCEPT ![p] = @ + 1] ELSE likes
      /\ dislikes' = IF Side(r) = "no" THEN [dislikes EXCEPT ![p] = @ + 1] ELSE dislikes
      /\ Finish(r)
      /\ UNCHANGED proposals

-----------------------------------------------------------------------------
\* update()

FlipFind(r, p, u, side) ==
  /\ vote[p][u] # "none"
  /\ Start(r, "flip", [proposal |-> p, user |-> u, side |-> side])

\* Mutant: a count of 0 is retried instead of refused.
FlipVoteRetries(r) ==
  /\ at[r] = "flip"
  /\ VoteRowFree(r)
  /\ vote[P(r)][U(r)] = Other(Side(r))
  /\ voteLock' = [voteLock EXCEPT ![P(r)][U(r)] = r]
  /\ Goto(r, "recount")
  /\ UNCHANGED <<tables, keyShare, rowLock, target>>

\* UPDATE ... WHERE vote_result is the other side: waits for the row, and a
\* count of 0 (flipped or removed meanwhile) rolls back.
FlipVote(r) ==
  /\ at[r] = "flip"
  /\ VoteRowFree(r)
  /\ IF vote[P(r)][U(r)] = Other(Side(r))
     THEN /\ voteLock' = [voteLock EXCEPT ![P(r)][U(r)] = r]
          /\ Goto(r, "recount")
          /\ UNCHANGED <<tables, keyShare, rowLock, target>>
     ELSE Rollback(r)

\* GREATEST(n - 1, 0)
Decrement(n) == IF n > 0 THEN n - 1 ELSE 0

\* Mutant: the side flipped away from keeps its count.
FlipCountOneSide(r) ==
  LET p == P(r)
  IN  /\ at[r] = "recount"
      /\ rowLock[p] = None
      /\ vote' = [vote EXCEPT ![p][U(r)] = Side(r)]
      /\ likes' = IF Side(r) = "yes" THEN [likes EXCEPT ![p] = @ + 1] ELSE likes
      /\ dislikes' = IF Side(r) = "no" THEN [dislikes EXCEPT ![p] = @ + 1] ELSE dislikes
      /\ Finish(r)
      /\ UNCHANGED proposals

\* Both counters in one UPDATE of the proposal, and COMMIT.
FlipCount(r) ==
  LET p == P(r)
  IN  /\ at[r] = "recount"
      /\ rowLock[p] = None
      /\ vote' = [vote EXCEPT ![p][U(r)] = Side(r)]
      /\ IF Side(r) = "yes"
         THEN /\ likes' = [likes EXCEPT ![p] = @ + 1]
              /\ dislikes' = [dislikes EXCEPT ![p] = Decrement(@)]
         ELSE /\ dislikes' = [dislikes EXCEPT ![p] = @ + 1]
              /\ likes' = [likes EXCEPT ![p] = Decrement(@)]
      /\ Finish(r)
      /\ UNCHANGED proposals

-----------------------------------------------------------------------------
\* remove(), from its DELETE on

RemoveFind(r, p) ==
  /\ p \in proposals
  /\ Start(r, "delete", [proposal |-> p, user |-> None, side |-> "none"])

DeleteProposal(r) ==
  /\ at[r] = "delete"
  /\ rowLock[P(r)] = None /\ keyShare[P(r)] = {}
  /\ IF P(r) \in proposals
     THEN /\ rowLock' = [rowLock EXCEPT ![P(r)] = r]
          /\ Goto(r, "cascade")
          /\ UNCHANGED <<tables, keyShare, voteLock, target>>
     ELSE Rollback(r)

\* The cascade waits for every vote row somebody has written, and COMMIT.
CascadeVotes(r) ==
  LET p == P(r)
  IN  /\ at[r] = "cascade"
      /\ \A u \in Users : voteLock[p][u] = None
      /\ proposals' = proposals \ {p}
      /\ vote' = [vote EXCEPT ![p] = [u \in Users |-> "none"]]
      /\ likes' = [likes EXCEPT ![p] = 0] /\ dislikes' = [dislikes EXCEPT ![p] = 0]
      /\ Finish(r)

-----------------------------------------------------------------------------
\* A flip holds the vote and wants the proposal; the cascade holds the
\* proposal and wants the vote.
Deadlocked(q, r) ==
  /\ at[q] = "recount" /\ at[r] = "cascade"
  /\ rowLock[P(q)] = r

\* Postgres looks for a cycle of waiters after deadlock_timeout and rolls one
\* of them back.
BreakDeadlock(r) ==
  /\ \E q \in Requests : Deadlocked(q, r) \/ Deadlocked(r, q)
  /\ Rollback(r)

\* The request dies before its next statement: its transaction rolls back.
Abort(r) == at[r] # "idle" /\ Rollback(r)

Step(r) ==
  VoteInsert(r) \/ VoteCount(r) \/ FlipVote(r) \/ FlipCount(r)
    \/ DeleteProposal(r) \/ CascadeVotes(r)

Next ==
  \/ \E r \in Requests, p \in Proposals, u \in Users, side \in Sides :
       VoteFind(r, p, u, side) \/ FlipFind(r, p, u, side)
  \/ \E r \in Requests, p \in Proposals : RemoveFind(r, p)
  \/ \E r \in Requests : Step(r) \/ BreakDeadlock(r) \/ Abort(r)

Spec == Init /\ [][Next]_vars

\* A statement that can run does, and the deadlock detector runs.  Nothing
\* else, a crash in particular, is owed.
Fairness == \A r \in Requests : WF_vars(Step(r)) /\ WF_vars(BreakDeadlock(r))

FairSpec == Spec /\ Fairness

-----------------------------------------------------------------------------
Tally(p, side) == Cardinality({u \in Users : vote[p][u] = side})

\* SPEC 8 (delta 19): counters change in the transaction of the row change and
\* never by read-modify-write, so at every commit they equal the votes stored,
\* whatever double submissions, flips, removals and crashes interleave.
CountersMatchVotes ==
  \A p \in Proposals : likes[p] = Tally(p, "yes") /\ dislikes[p] = Tally(p, "no")

\* No vote outlives its proposal: an insert that read the proposal before the
\* removal is refused by the foreign key.
VotesGoWithProposal ==
  \A p \in Proposals \ proposals : \A u \in Users : vote[p][u] = "none"

\* Who holds a lock is at a statement that needs it, and what it read under the
\* lock still holds.
LockDiscipline ==
  /\ \A r \in Requests, p \in Proposals :
       /\ r \in keyShare[p] <=> at[r] = "count" /\ P(r) = p
       /\ rowLock[p] = r <=> at[r] = "cascade" /\ P(r) = p
       /\ \A u \in Users :
            voteLock[p][u] = r <=> at[r] \in {"count", "recount"} /\ P(r) = p /\ U(r) = u
  /\ \A p \in Proposals : rowLock[p] # None => keyShare[p] = {}
  /\ \A r \in Requests : at[r] # "idle" => P(r) \in Proposals
  /\ \A r \in Requests : at[r] \in {"insert", "count", "flip", "recount"} =>
                             U(r) \in Users /\ Side(r) \in Sides

HeldRowsAreCurrent ==
  \A r \in Requests :
    /\ at[r] \in {"count", "recount", "cascade"} => P(r) \in proposals
    /\ at[r] = "count" => vote[P(r)][U(r)] = "none"
    /\ at[r] = "recount" => vote[P(r)][U(r)] = Other(Side(r))

IInv ==
  TypeOK /\ LockDiscipline /\ HeldRowsAreCurrent /\ CountersMatchVotes /\ VotesGoWithProposal

\* Every request is answered once no more arrive, although update and remove
\* take the locks of a vote and of its proposal in opposite orders.
RequestsDrain ==
  <>[][\A r \in Requests : at[r] = "idle" => at'[r] = "idle"]_vars
    => <>[](\A r \in Requests : at[r] = "idle")

Promised == INSTANCE Ballot WITH
  Ballots <- Proposals, Voters <- Users,
  phase <- [p \in Proposals |-> IF p \in proposals THEN "open" ELSE "gone"],
  yes <- likes, no <- dislikes

\* The likes of a proposal are an open ballot until it is removed.
ImplementsBallot == Promised!Spec
=============================================================================
