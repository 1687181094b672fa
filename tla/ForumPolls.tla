----------------------------- MODULE ForumPolls -----------------------------
(***************************************************************************)
(* Polls of proposals in govtool-pdf-backend: PollsService.create, close,  *)
(* createVote and updateVote, and the cascade of ProposalsService.remove,  *)
(* run by concurrent requests.                                             *)
(*                                                                         *)
(* One step is one SQL statement at READ COMMITTED, except that the last   *)
(* UPDATE of a transaction and its COMMIT are one step.  create and close  *)
(* write with one statement that commits by itself.  A vote's INSERT takes *)
(* a key share of its poll, which an UPDATE of the poll does not conflict  *)
(* with and a DELETE does.  Abstracted: who owns the proposal (a request   *)
(* refused for that has changed nothing) and the dates.                    *)
(***************************************************************************)
EXTENDS Naturals, FiniteSets

CONSTANTS Proposals,
          Polls,     \* ids the polls sequence can hand out: the model's bound
          Users, Requests, None

ASSUME PollsAssumption ==
  /\ None \notin Proposals \cup Polls \cup Users \cup Requests
  /\ IsFiniteSet(Users)

VARIABLES proposals, \* committed proposals
          of,        \* the proposal of each poll
          phase,     \* of each poll: open is is_active, gone is deleted
          vote,      \* the committed vote of each user on each poll
          yes, no,   \* the counters in the poll's row
          rowLock,   \* the request deleting each proposal row
          pollLock,  \* the request deleting each poll row
          keyShare,  \* requests holding a key share of each poll row
          voteLock,  \* the request that has written each poll vote row
          at,        \* the next statement of each request
          target     \* its proposal, poll, user and side

tables == <<proposals, of, phase, vote, yes, no>>
locks  == <<rowLock, pollLock, keyShare, voteLock>>
vars   == <<tables, locks, at, target>>

Sides == {"yes", "no"}
Other(side) == IF side = "yes" THEN "no" ELSE "yes"
Votes == Sides \cup {"none"}
Phases == {"unused", "open", "closed", "gone"}
Statements == {"idle", "create", "close", "vote", "bump", "flip", "rebump",
               "delete", "cascade", "cascadeVotes"}

Targets == [proposal : Proposals \cup {None}, poll : Polls \cup {None},
            user : Users \cup {None}, side : Votes]
NoTarget == [proposal |-> None, poll |-> None, user |-> None, side |-> "none"]

TypeOK ==
  /\ proposals \subseteq Proposals
  /\ of \in [Polls -> Proposals \cup {None}]
  /\ phase \in [Polls -> Phases]
  /\ vote \in [Polls -> [Users -> Votes]]
  /\ yes \in [Polls -> Nat] /\ no \in [Polls -> Nat]
  /\ rowLock \in [Proposals -> Requests \cup {None}]
  /\ pollLock \in [Polls -> Requests \cup {None}]
  /\ keyShare \in [Polls -> SUBSET Requests]
  /\ voteLock \in [Polls -> [Users -> Requests \cup {None}]]
  /\ at \in [Requests -> Statements]
  /\ target \in [Requests -> Targets]

P(r) == target[r].proposal
B(r) == target[r].poll
U(r) == target[r].user
Side(r) == target[r].side

Exists(b) == phase[b] \in {"open", "closed"}
PollsOf(p) == {b \in Polls : of[b] = p /\ Exists(b)}
ActivePoll(p) == \E b \in PollsOf(p) : phase[b] = "open"

Init ==
  /\ proposals = Proposals
  /\ of = [b \in Polls |-> None]
  /\ phase = [b \in Polls |-> "unused"]
  /\ vote = [b \in Polls |-> [u \in Users |-> "none"]]
  /\ yes = [b \in Polls |-> 0] /\ no = [b \in Polls |-> 0]
  /\ rowLock = [p \in Proposals |-> None]
  /\ pollLock = [b \in Polls |-> None]
  /\ keyShare = [b \in Polls |-> {}]
  /\ voteLock = [b \in Polls |-> [u \in Users |-> None]]
  /\ at = [r \in Requests |-> "idle"]
  /\ target = [r \in Requests |-> NoTarget]

Goto(r, stmt) == at' = [at EXCEPT ![r] = stmt]

Start(r, stmt, t) ==
  /\ at[r] = "idle"
  /\ Goto(r, stmt)
  /\ target' = [target EXCEPT ![r] = t]
  /\ UNCHANGED <<tables, locks>>

\* The transaction is over, by COMMIT or ROLLBACK: its locks go.
Finish(r) ==
  /\ Goto(r, "idle")
  /\ target' = [target EXCEPT ![r] = NoTarget]
  /\ rowLock' = [p \in Proposals |-> IF rowLock[p] = r THEN None ELSE rowLock[p]]
  /\ pollLock' = [b \in Polls |-> IF pollLock[b] = r THEN None ELSE pollLock[b]]
  /\ keyShare' = [b \in Polls |-> keyShare[b] \ {r}]
  /\ voteLock' = [b \in Polls |-> [u \in Users |->
                    IF voteLock[b][u] = r THEN None ELSE voteLock[b][u]]]

Rollback(r) == Finish(r) /\ UNCHANGED tables

VoteRowFree(r) == voteLock[B(r)][U(r)] \in {r, None}

-----------------------------------------------------------------------------
\* create()

CreateFind(r, p) ==
  /\ p \in proposals /\ ~ActivePoll(p)
  /\ Start(r, "create", [NoTarget EXCEPT !.proposal = p])

\* Mutant: no unique index of the active polls.
CreateInsertNoIndex(r, b) ==
  /\ at[r] = "create"
  /\ phase[b] = "unused" /\ rowLock[P(r)] = None
  /\ IF P(r) \in proposals
     THEN /\ of' = [of EXCEPT ![b] = P(r)]
          /\ phase' = [phase EXCEPT ![b] = "open"]
          /\ Finish(r)
          /\ UNCHANGED <<proposals, vote, yes, no>>
     ELSE Rollback(r)

\* Mutant: no foreign key to the proposal.
CreateInsertNoForeignKey(r, b) ==
  /\ at[r] = "create"
  /\ phase[b] = "unused" /\ rowLock[P(r)] = None
  /\ IF ~ActivePoll(P(r))
     THEN /\ of' = [of EXCEPT ![b] = P(r)]
          /\ phase' = [phase EXCEPT ![b] = "open"]
          /\ Finish(r)
          /\ UNCHANGED <<proposals, vote, yes, no>>
     ELSE Rollback(r)

\* INSERT, committing by itself: it waits for a delete of the proposal, then
\* the foreign key or the partial unique index may refuse it.
CreateInsert(r, b) ==
  /\ at[r] = "create"
  /\ phase[b] = "unused" /\ rowLock[P(r)] = None
  /\ IF P(r) \in proposals /\ ~ActivePoll(P(r))
     THEN /\ of' = [of EXCEPT ![b] = P(r)]
          /\ phase' = [phase EXCEPT ![b] = "open"]
          /\ Finish(r)
          /\ UNCHANGED <<proposals, vote, yes, no>>
     ELSE Rollback(r)

-----------------------------------------------------------------------------
\* close()

CloseFind(r, b) ==
  /\ Exists(b)
  /\ Start(r, "close", [NoTarget EXCEPT !.poll = b])

\* The UPDATE says nothing of is_active: closing twice is closing once.
CloseUpdate(r) ==
  LET b == B(r)
  IN  /\ at[r] = "close"
      /\ pollLock[b] = None
      /\ phase' = IF Exists(b) THEN [phase EXCEPT ![b] = "closed"] ELSE phase
      /\ Finish(r)
      /\ UNCHANGED <<proposals, of, vote, yes, no>>

-----------------------------------------------------------------------------
\* createVote()

VoteFind(r, b, u, side) ==
  /\ phase[b] = "open" /\ vote[b][u] = "none"
  /\ Start(r, "vote", [NoTarget EXCEPT !.poll = b, !.user = u, !.side = side])

\* INSERT: waits for another insert of the same pair and for a delete of the
\* poll; it does not look at is_active.
VoteInsert(r) ==
  LET b == B(r)
  IN  /\ at[r] = "vote"
      /\ VoteRowFree(r) /\ pollLock[b] = None
      /\ IF vote[b][U(r)] = "none" /\ Exists(b)
         THEN /\ voteLock' = [voteLock EXCEPT ![b][U(r)] = r]
              /\ keyShare' = [keyShare EXCEPT ![b] = @ \cup {r}]
              /\ Goto(r, "bump")
              /\ UNCHANGED <<tables, rowLock, pollLock, target>>
         ELSE Rollback(r)

\* Mutant: the poll was active when it was read, so it is not asked again.
BumpAnyway(b) == Exists(b)

\* The WHERE of bumpPoll, evaluated on the row's latest version.
Counts(b) == phase[b] = "open"

\* bumpPoll(flip = false) and COMMIT; no row updated rolls back.
VoteBump(r) ==
  LET b == B(r)
  IN  /\ at[r] = "bump"
      /\ pollLock[b] = None
      /\ IF Counts(b)
         THEN /\ vote' = [vote EXCEPT ![b][U(r)] = Side(r)]
              /\ yes' = IF Side(r) = "yes" THEN [yes EXCEPT ![b] = @ + 1] ELSE yes
              /\ no' = IF Side(r) = "no" THEN [no EXCEPT ![b] = @ + 1] ELSE no
              /\ Finish(r)
              /\ UNCHANGED <<proposals, of, phase>>
         ELSE Rollback(r)

-----------------------------------------------------------------------------
\* updateVote()

FlipFind(r, b, u, side) ==
  /\ vote[b][u] # "none"
  /\ Start(r, "flip", [NoTarget EXCEPT !.poll = b, !.user = u, !.side = side])

\* The WHERE of updateMany, after the wait for the row.
Flippable(r) == vote[B(r)][U(r)] = Other(Side(r))

\* Mutant: a count of 0 is retried instead of refused.
FlipVoteRetries(r) ==
  /\ at[r] = "flip"
  /\ VoteRowFree(r)
  /\ Flippable(r)
  /\ voteLock' = [voteLock EXCEPT ![B(r)][U(r)] = r]
  /\ Goto(r, "rebump")
  /\ UNCHANGED <<tables, rowLock, pollLock, keyShare, target>>

FlipVote(r) ==
  /\ at[r] = "flip"
  /\ VoteRowFree(r)
  /\ IF Flippable(r)
     THEN /\ voteLock' = [voteLock EXCEPT ![B(r)][U(r)] = r]
          /\ Goto(r, "rebump")
          /\ UNCHANGED <<tables, rowLock, pollLock, keyShare, target>>
     ELSE Rollback(r)

\* GREATEST(n - 1, 0)
Decrement(n) == IF n > 0 THEN n - 1 ELSE 0

\* bumpPoll(flip = true) and COMMIT; no row updated rolls back.
FlipBump(r) ==
  LET b == B(r)
  IN  /\ at[r] = "rebump"
      /\ pollLock[b] = None
      /\ IF Counts(b)
         THEN /\ vote' = [vote EXCEPT ![b][U(r)] = Side(r)]
              /\ IF Side(r) = "yes"
                 THEN /\ yes' = [yes EXCEPT ![b] = @ + 1]
                      /\ no' = [no EXCEPT ![b] = Decrement(@)]
                 ELSE /\ no' = [no EXCEPT ![b] = @ + 1]
                      /\ yes' = [yes EXCEPT ![b] = Decrement(@)]
              /\ Finish(r)
              /\ UNCHANGED <<proposals, of, phase>>
         ELSE Rollback(r)

-----------------------------------------------------------------------------
\* remove(), from its DELETE on

RemoveFind(r, p) ==
  /\ p \in proposals
  /\ Start(r, "delete", [NoTarget EXCEPT !.proposal = p])

DeleteProposal(r) ==
  /\ at[r] = "delete"
  /\ rowLock[P(r)] = None
  /\ IF P(r) \in proposals
     THEN /\ rowLock' = [rowLock EXCEPT ![P(r)] = r]
          /\ Goto(r, "cascade")
          /\ UNCHANGED <<tables, pollLock, keyShare, voteLock, target>>
     ELSE Rollback(r)

\* The cascade takes the polls one by one.  A request waits for one poll only,
\* so taking them in one step differs by delays alone.
CascadePolls(r) ==
  /\ at[r] = "cascade"
  /\ \A b \in PollsOf(P(r)) : keyShare[b] = {}
  /\ pollLock' = [b \in Polls |-> IF b \in PollsOf(P(r)) THEN r ELSE pollLock[b]]
  /\ Goto(r, "cascadeVotes")
  /\ UNCHANGED <<tables, rowLock, keyShare, voteLock, target>>

\* It waits for every vote row somebody has written, and COMMIT.
CascadeVotes(r) ==
  LET gone == PollsOf(P(r))
  IN  /\ at[r] = "cascadeVotes"
      /\ \A b \in gone, u \in Users : voteLock[b][u] = None
      /\ proposals' = proposals \ {P(r)}
      /\ phase' = [b \in Polls |-> IF b \in gone THEN "gone" ELSE phase[b]]
      /\ vote' = [b \in Polls |-> IF b \in gone THEN [u \in Users |-> "none"] ELSE vote[b]]
      /\ yes' = [b \in Polls |-> IF b \in gone THEN 0 ELSE yes[b]]
      /\ no' = [b \in Polls |-> IF b \in gone THEN 0 ELSE no[b]]
      /\ Finish(r)
      /\ UNCHANGED of

-----------------------------------------------------------------------------
\* A flip holds the vote and wants the poll; the cascade holds the poll and
\* wants the vote.
Deadlocked(q, r) ==
  /\ at[q] = "rebump" /\ at[r] = "cascadeVotes"
  /\ pollLock[B(q)] = r

\* Postgres looks for a cycle of waiters after deadlock_timeout and rolls one
\* of them back.
BreakDeadlock(r) ==
  /\ \E q \in Requests : Deadlocked(q, r) \/ Deadlocked(r, q)
  /\ Rollback(r)

\* The request dies before its next statement: its transaction rolls back.
Abort(r) == at[r] # "idle" /\ Rollback(r)

Create(r) == \E b \in Polls : CreateInsert(r, b)

Step(r) ==
  CloseUpdate(r) \/ VoteInsert(r) \/ VoteBump(r) \/ FlipVote(r) \/ FlipBump(r)
    \/ DeleteProposal(r) \/ CascadePolls(r) \/ CascadeVotes(r)

Next ==
  \/ \E r \in Requests, p \in Proposals : CreateFind(r, p) \/ RemoveFind(r, p)
  \/ \E r \in Requests, b \in Polls : CloseFind(r, b)
  \/ \E r \in Requests, b \in Polls, u \in Users, side \in Sides :
       VoteFind(r, b, u, side) \/ FlipFind(r, b, u, side)
  \/ \E r \in Requests :
       Create(r) \/ Step(r) \/ BreakDeadlock(r) \/ Abort(r)

Spec == Init /\ [][Next]_vars

-----------------------------------------------------------------------------
Tally(b, side) == Cardinality({u \in Users : vote[b][u] = side})

\* Comment in create(): "the partial unique index settles a race between two
\* creates".
OneActivePoll ==
  \A b, c \in Polls : phase[b] = "open" /\ phase[c] = "open" /\ of[b] = of[c] => b = c

\* SPEC 8 (delta 19): at every commit the counters of a poll equal the votes
\* stored, whatever votes, flips, closings and removals interleave.
CountersMatchVotes ==
  \A b \in Polls : yes[b] = Tally(b, "yes") /\ no[b] = Tally(b, "no")

\* No poll outlives its proposal: an insert that read the proposal before the
\* removal is refused by the foreign key.
PollsGoWithProposal == \A b \in Polls : Exists(b) => of[b] \in proposals

\* Comment in createVote(): "Only active polls take votes, checked again under
\* the row lock".  From the closing on the result of a poll is final: a vote or
\* a flip that was under way when the poll closed is not counted.
ClosedPollIsFinal ==
  [][\A b \in Polls : phase[b] = "closed" =>
       \/ phase'[b] = "gone"
       \/ phase'[b] = "closed" /\ <<vote[b], yes[b], no[b]>>' = <<vote[b], yes[b], no[b]>>]_vars

\* Who holds a lock is at a statement that needs it.
LockDiscipline ==
  /\ \A r \in Requests, b \in Polls :
       /\ r \in keyShare[b] <=> at[r] = "bump" /\ B(r) = b
       /\ pollLock[b] = r <=> at[r] = "cascadeVotes" /\ b \in PollsOf(P(r))
       /\ \A u \in Users :
            voteLock[b][u] = r <=> at[r] \in {"bump", "rebump"} /\ B(r) = b /\ U(r) = u
  /\ \A r \in Requests, p \in Proposals :
       rowLock[p] = r <=> at[r] \in {"cascade", "cascadeVotes"} /\ P(r) = p
  /\ \A b \in Polls : pollLock[b] # None => keyShare[b] = {}
  /\ \A r \in Requests :
       /\ at[r] \in {"create", "delete", "cascade", "cascadeVotes"} => P(r) \in Proposals
       /\ at[r] \in {"close", "vote", "bump", "flip", "rebump"} => B(r) \in Polls
       /\ at[r] \in {"vote", "bump", "flip", "rebump"} => U(r) \in Users /\ Side(r) \in Sides

\* What a request read under its lock still holds.
HeldRowsAreCurrent ==
  \A r \in Requests :
    /\ at[r] \in {"cascade", "cascadeVotes"} => P(r) \in proposals
    /\ at[r] = "bump" => vote[B(r)][U(r)] = "none" /\ Exists(B(r))
    /\ at[r] = "rebump" => vote[B(r)][U(r)] = Other(Side(r))

OnlyExistingPollsHaveVotes ==
  \A b \in Polls : ~Exists(b) => \A u \in Users : vote[b][u] = "none"

IInv ==
  /\ TypeOK
  /\ LockDiscipline
  /\ HeldRowsAreCurrent
  /\ OnlyExistingPollsHaveVotes
  /\ OneActivePoll
  /\ CountersMatchVotes
  /\ PollsGoWithProposal

Working == {r \in Requests : at[r] \notin {"idle", "create"}}

\* The next statement of r waits for nobody, by the guards of its steps, or r is
\* in a cycle the detector breaks.
CanRun(r) ==
  \/ at[r] \in {"close", "bump", "rebump"} /\ pollLock[B(r)] = None
  \/ at[r] = "vote" /\ VoteRowFree(r) /\ pollLock[B(r)] = None
  \/ at[r] = "flip" /\ VoteRowFree(r)
  \/ at[r] = "delete" /\ rowLock[P(r)] = None
  \/ at[r] = "cascade" /\ \A b \in PollsOf(P(r)) : keyShare[b] = {}
  \/ at[r] = "cascadeVotes" /\ \A b \in PollsOf(P(r)), u \in Users : voteLock[b][u] = None
  \/ \E q \in Requests : Deadlocked(q, r) \/ Deadlocked(r, q)

\* Of the requests under way one can always run, or the deadlock detector ends
\* it, although updateVote and remove take the locks of a vote and of its poll
\* in opposite orders.  A create waits for nobody that waits; the ids it needs
\* are bounded here and not in the database.
SomeRequestRuns ==
  /\ \A r \in Working : CanRun(r) => ENABLED (Step(r) \/ BreakDeadlock(r))
  /\ Working # {} => \E r \in Working : CanRun(r)

Promised == INSTANCE Ballot WITH Ballots <- Polls, Voters <- Users

\* Polls are ballots: no vote counts before the poll opens, twice, or after it
\* closed, and a removed proposal takes its polls all at once.
ImplementsBallot == Promised!Spec
=============================================================================
