-------------------------- MODULE ForumPollsProofs --------------------------
(***************************************************************************)
(* The safety of ForumPolls for every set of proposals, polls, users and   *)
(* requests, and its refinement of Ballot.                                 *)
(***************************************************************************)
EXTENDS ForumPolls, FiniteSetTheorems, TLAPS

-----------------------------------------------------------------------------
\* What one vote does to a count of votes.

\* One voter comes to a side, the others stay: its count goes up by one.
LEMMA OneMore ==
  ASSUME NEW V, IsFiniteSet(V), NEW u \in V, NEW s, NEW f, NEW g,
         \A v \in V \ {u} : g[v] = f[v], f[u] # s, g[u] = s
  PROVE  /\ Cardinality({v \in V : f[v] = s}) \in Nat
         /\ Cardinality({v \in V : g[v] = s}) = Cardinality({v \in V : f[v] = s}) + 1
<1> DEFINE F == {v \in V : f[v] = s}
           G == {v \in V : g[v] = s}
<1>1. IsFiniteSet(F)
  BY FS_Subset
<1>2. G = F \cup {u} /\ u \notin F
  OBVIOUS
<1>3. Cardinality(F) \in Nat
  BY <1>1, FS_CardinalityType
<1>4. Cardinality(F \cup {u}) = Cardinality(F) + 1
  BY <1>1, <1>2, FS_AddElement
<1> QED
  BY <1>2, <1>3, <1>4

\* One voter leaves a side: its count was one more.
LEMMA OneLess ==
  ASSUME NEW V, IsFiniteSet(V), NEW u \in V, NEW s, NEW f, NEW g,
         \A v \in V \ {u} : g[v] = f[v], f[u] = s, g[u] # s
  PROVE  /\ Cardinality({v \in V : g[v] = s}) \in Nat
         /\ Cardinality({v \in V : f[v] = s}) = Cardinality({v \in V : g[v] = s}) + 1
<1>1. \A v \in V \ {u} : f[v] = g[v]
  OBVIOUS
<1> QED
  BY <1>1, OneMore

\* Nobody comes to a side or leaves it.
LEMMA AsMany ==
  ASSUME NEW V, NEW s, NEW f, NEW g, \A v \in V : f[v] = s <=> g[v] = s
  PROVE  Cardinality({v \in V : g[v] = s}) = Cardinality({v \in V : f[v] = s})
<1>1. {v \in V : g[v] = s} = {v \in V : f[v] = s}
  OBVIOUS
<1> QED
  BY <1>1

\* Nobody has voted for a side.
LEMMA NoVotes ==
  ASSUME NEW V, NEW s, NEW f, \A v \in V : f[v] # s
  PROVE  Cardinality({v \in V : f[v] = s}) = 0
<1>1. {v \in V : f[v] = s} = {}
  OBVIOUS
<1> QED
  BY <1>1, FS_EmptySet

-----------------------------------------------------------------------------
Session ==
  /\ rowLock \in [Proposals -> Requests \cup {None}]
  /\ pollLock \in [Polls -> Requests \cup {None}]
  /\ keyShare \in [Polls -> SUBSET Requests]
  /\ voteLock \in [Polls -> [Users -> Requests \cup {None}]]
  /\ at \in [Requests -> Statements]
  /\ target \in [Requests -> Targets]

Tables ==
  /\ proposals \subseteq Proposals
  /\ of \in [Polls -> Proposals \cup {None}]
  /\ phase \in [Polls -> Phases]
  /\ vote \in [Polls -> [Users -> Votes]]
  /\ yes \in [Polls -> Nat] /\ no \in [Polls -> Nat]

\* What the tables promise by themselves.
TablesAgree ==
  OnlyExistingPollsHaveVotes /\ OneActivePoll /\ CountersMatchVotes /\ PollsGoWithProposal

LEMMA Parts ==
  IInv <=> Tables /\ Session /\ LockDiscipline /\ HeldRowsAreCurrent /\ TablesAgree
BY DEF IInv, TypeOK, Tables, Session, TablesAgree

LEMMA InitIInv == Init => IInv
<1> SUFFICES ASSUME Init PROVE IInv
  OBVIOUS
<1> USE DEF Init
<1>1. Tables /\ Session
  BY DEF Tables, Session, Phases, Votes, Statements, Targets, NoTarget, Sides
<1>2. LockDiscipline /\ HeldRowsAreCurrent
  BY PollsAssumption DEF LockDiscipline, HeldRowsAreCurrent
<1>3. OnlyExistingPollsHaveVotes /\ OneActivePoll /\ PollsGoWithProposal
  BY DEF OnlyExistingPollsHaveVotes, OneActivePoll, PollsGoWithProposal, Exists
<1>4. CountersMatchVotes
  <2>1. ASSUME NEW b \in Polls, NEW side \in Sides
        PROVE  Tally(b, side) = 0
    <3>1. \A u \in Users : vote[b][u] # side
      BY DEF Sides
    <3> QED
      BY <3>1, NoVotes DEF Tally
  <2> QED
    BY <2>1 DEF CountersMatchVotes, Sides
<1> QED
  BY <1>1, <1>2, <1>3, <1>4, Parts DEF TablesAgree

-----------------------------------------------------------------------------
(***************************************************************************)
(* Tables that no step changed, and the end of a transaction.              *)
(***************************************************************************)
LEMMA TablesKept ==
  ASSUME Tables, TablesAgree, UNCHANGED tables
  PROVE  Tables' /\ TablesAgree'
<1>1. Tables' /\ OnlyExistingPollsHaveVotes' /\ OneActivePoll' /\ PollsGoWithProposal'
  BY DEF Tables, TablesAgree, tables, OnlyExistingPollsHaveVotes, OneActivePoll,
         PollsGoWithProposal, Exists
<1>2. CountersMatchVotes'
  BY DEF TablesAgree, tables, CountersMatchVotes, Tally
<1> QED
  BY <1>1, <1>2 DEF TablesAgree

\* The polls a removal has locked are still the polls of its proposal.
TakenPollsStay(r) ==
  \A q \in Requests \ {r}, b \in Polls : at[q] = "cascadeVotes" =>
    (of'[b] = P(q) /\ phase'[b] \in {"open", "closed"} <=> b \in PollsOf(P(q)))

\* The end of a transaction leaves the locks of the others as they were.
LEMMA FinishSession ==
  ASSUME Session, LockDiscipline, NEW r \in Requests, Finish(r), TakenPollsStay(r)
  PROVE  Session' /\ LockDiscipline'
<1>1. Session'
  BY PollsAssumption DEF Session, Finish, Goto, Statements, Targets, NoTarget, Votes
<1>2. /\ at' = [at EXCEPT ![r] = "idle"]
      /\ target' = [target EXCEPT ![r] = NoTarget]
  BY DEF Finish, Goto
<1>3. ASSUME NEW q \in Requests, NEW b \in Polls
      PROVE  /\ q \in keyShare'[b] <=> at'[q] = "bump" /\ B(q)' = b
             /\ pollLock'[b] = q <=> at'[q] = "cascadeVotes" /\ (b \in PollsOf(P(q)))'
             /\ \A u \in Users : voteLock'[b][u] = q <=>
                  at'[q] \in {"bump", "rebump"} /\ B(q)' = b /\ U(q)' = u
  <2>1. CASE q = r
    BY <1>2, <2>1, PollsAssumption DEF Session, Finish
  <2>2. CASE q # r
    <3>1. at'[q] = at[q] /\ target'[q] = target[q]
      BY <1>2, <2>2 DEF Session
    <3>2. pollLock'[b] = q <=> at'[q] = "cascadeVotes" /\ (b \in PollsOf(P(q)))'
      <4>1. pollLock'[b] = q <=> pollLock[b] = q
        BY <2>2, PollsAssumption DEF Finish
      <4>2. pollLock[b] = q <=> at[q] = "cascadeVotes" /\ b \in PollsOf(P(q))
        BY DEF LockDiscipline
      <4>3. at[q] = "cascadeVotes" => (b \in PollsOf(P(q)) <=> (b \in PollsOf(P(q)))')
        BY <2>2, <3>1 DEF TakenPollsStay, PollsOf, Exists, P
      <4> QED
        BY <3>1, <4>1, <4>2, <4>3
    <3> QED
      BY <2>2, <3>1, <3>2, PollsAssumption DEF Session, Finish, LockDiscipline, B, U
  <2> QED
    BY <2>1, <2>2
<1>4. ASSUME NEW q \in Requests, NEW p \in Proposals
      PROVE  rowLock'[p] = q <=> at'[q] \in {"cascade", "cascadeVotes"} /\ P(q)' = p
  <2>1. CASE q = r
    BY <1>2, <2>1, PollsAssumption DEF Session, Finish
  <2>2. CASE q # r
    BY <1>2, <2>2, PollsAssumption DEF Session, Finish, LockDiscipline, P
  <2> QED
    BY <2>1, <2>2
<1>5. ASSUME NEW b \in Polls, pollLock'[b] # None
      PROVE  keyShare'[b] = {}
  BY <1>5 DEF Finish, LockDiscipline
<1>6. ASSUME NEW q \in Requests
      PROVE  /\ at'[q] \in {"create", "delete", "cascade", "cascadeVotes"} => P(q)' \in Proposals
             /\ at'[q] \in {"close", "vote", "bump", "flip", "rebump"} => B(q)' \in Polls
             /\ at'[q] \in {"vote", "bump", "flip", "rebump"} =>
                  U(q)' \in Users /\ Side(q)' \in Sides
  BY <1>2 DEF Session, LockDiscipline, P, B, U, Side
<1> QED
  BY <1>1, <1>3, <1>4, <1>5, <1>6 DEF LockDiscipline

LEMMA RollbackIInv ==
  ASSUME IInv, NEW r \in Requests, Rollback(r)
  PROVE  IInv'
<1>1. Tables /\ Session /\ LockDiscipline /\ HeldRowsAreCurrent /\ TablesAgree
  BY Parts
<1>2. Finish(r) /\ UNCHANGED tables
  BY DEF Rollback
<1>3. TakenPollsStay(r)
  BY <1>2 DEF TakenPollsStay, tables, PollsOf, Exists
<1>4. Session' /\ LockDiscipline'
  BY <1>1, <1>2, <1>3, FinishSession
<1>5. HeldRowsAreCurrent'
  BY <1>1, <1>2
     DEF HeldRowsAreCurrent, Finish, Goto, Session, tables, P, B, U, Side, Exists
<1> QED
  BY <1>1, <1>2, <1>4, <1>5, TablesKept DEF IInv, TypeOK, Tables, Session, TablesAgree

-----------------------------------------------------------------------------
(***************************************************************************)
(* A request that goes to a statement without changing a table.            *)
(***************************************************************************)
\* A request that has read without a lock knows nothing yet.
LEMMA StartIInv ==
  ASSUME IInv, NEW r \in Requests,
         NEW stmt \in {"create", "close", "vote", "flip", "delete"},
         NEW t \in Targets,
         stmt \in {"create", "delete"} => t.proposal \in Proposals,
         stmt \in {"close", "vote", "flip"} => t.poll \in Polls,
         stmt \in {"vote", "flip"} => t.user \in Users /\ t.side \in Sides,
         Start(r, stmt, t)
  PROVE  IInv'
<1>1. Tables /\ Session /\ LockDiscipline /\ HeldRowsAreCurrent /\ TablesAgree
  BY Parts
<1>2. /\ at[r] = "idle" /\ at' = [at EXCEPT ![r] = stmt]
      /\ target' = [target EXCEPT ![r] = t]
      /\ UNCHANGED <<tables, locks>>
  BY DEF Start, Goto
<1>3. Session'
  BY <1>1, <1>2 DEF Session, locks, Statements
<1>4. LockDiscipline'
  <2>1. ASSUME NEW q \in Requests, NEW b \in Polls
        PROVE  /\ q \in keyShare'[b] <=> at'[q] = "bump" /\ B(q)' = b
               /\ pollLock'[b] = q <=> at'[q] = "cascadeVotes" /\ (b \in PollsOf(P(q)))'
               /\ \A u \in Users : voteLock'[b][u] = q <=>
                    at'[q] \in {"bump", "rebump"} /\ B(q)' = b /\ U(q)' = u
    <3>1. CASE q = r
      BY <1>1, <1>2, <3>1 DEF Session, LockDiscipline, locks
    <3>2. CASE q # r
      BY <1>1, <1>2, <3>2
         DEF Session, LockDiscipline, locks, tables, P, B, U, PollsOf, Exists
    <3> QED
      BY <3>1, <3>2
  <2>2. ASSUME NEW q \in Requests, NEW p \in Proposals
        PROVE  rowLock'[p] = q <=> at'[q] \in {"cascade", "cascadeVotes"} /\ P(q)' = p
    BY <1>1, <1>2 DEF Session, LockDiscipline, locks, P
  <2>3. ASSUME NEW q \in Requests
        PROVE  /\ at'[q] \in {"create", "delete", "cascade", "cascadeVotes"} => P(q)' \in Proposals
               /\ at'[q] \in {"close", "vote", "bump", "flip", "rebump"} => B(q)' \in Polls
               /\ at'[q] \in {"vote", "bump", "flip", "rebump"} =>
                    U(q)' \in Users /\ Side(q)' \in Sides
    BY <1>1, <1>2 DEF Session, LockDiscipline, P, B, U, Side
  <2> QED
    BY <1>1, <1>2, <2>1, <2>2, <2>3 DEF LockDiscipline, locks
<1>5. HeldRowsAreCurrent'
  BY <1>1, <1>2 DEF HeldRowsAreCurrent, Session, tables, P, B, U, Side, Exists
<1> QED
  BY <1>1, <1>2, <1>3, <1>4, <1>5, TablesKept DEF IInv, TypeOK, Tables, Session, TablesAgree

\* What a locking statement of r has to show of the locks of every request.
Held(q) ==
  /\ \A b \in Polls :
       /\ q \in keyShare[b] <=> at[q] = "bump" /\ B(q) = b
       /\ pollLock[b] = q <=> at[q] = "cascadeVotes" /\ b \in PollsOf(P(q))
       /\ \A u \in Users :
            voteLock[b][u] = q <=> at[q] \in {"bump", "rebump"} /\ B(q) = b /\ U(q) = u
  /\ \A p \in Proposals :
       rowLock[p] = q <=> at[q] \in {"cascade", "cascadeVotes"} /\ P(q) = p
  /\ at[q] \in {"create", "delete", "cascade", "cascadeVotes"} => P(q) \in Proposals
  /\ at[q] \in {"close", "vote", "bump", "flip", "rebump"} => B(q) \in Polls
  /\ at[q] \in {"vote", "bump", "flip", "rebump"} => U(q) \in Users /\ Side(q) \in Sides

LEMMA DisciplineParts ==
  LockDiscipline <=> /\ \A q \in Requests : Held(q)
                     /\ \A b \in Polls : pollLock[b] # None => keyShare[b] = {}
BY DEF LockDiscipline, Held

LEMMA VoteInsertIInv ==
  ASSUME IInv, NEW r \in Requests, VoteInsert(r)
  PROVE  IInv'
<1>1. Tables /\ Session /\ LockDiscipline /\ HeldRowsAreCurrent /\ TablesAgree
  BY Parts
<1>2. at[r] = "vote" /\ VoteRowFree(r) /\ pollLock[B(r)] = None
  BY DEF VoteInsert
<1>3. PICK c \in Polls, v \in Users : c = B(r) /\ v = U(r)
  BY <1>1, <1>2 DEF LockDiscipline
<1>4. CASE Rollback(r)
  BY <1>4, RollbackIInv
<1>5. CASE /\ vote[c][v] = "none" /\ Exists(c)
           /\ voteLock' = [voteLock EXCEPT ![c][v] = r]
           /\ keyShare' = [keyShare EXCEPT ![c] = @ \cup {r}]
           /\ Goto(r, "bump")
           /\ UNCHANGED <<tables, rowLock, pollLock, target>>
  <2>1. at' = [at EXCEPT ![r] = "bump"]
    BY <1>5 DEF Goto
  <2>2. Session'
    BY <1>1, <1>5, <2>1 DEF Session, Statements
  <2>3. voteLock[c][v] = None
    BY <1>1, <1>2, <1>3 DEF VoteRowFree, LockDiscipline, Session
  <2>4. ASSUME NEW q \in Requests PROVE Held(q)'
    <3>1. Held(q)
      BY <1>1, DisciplineParts
    <3>2. CASE q = r
      BY <1>1, <1>2, <1>3, <1>5, <2>1, <3>1, <3>2 DEF Held, Session, P, B, U, Side
    <3>3. CASE q # r
      <4>1. at'[q] = at[q] /\ target' = target
        BY <1>1, <1>5, <2>1, <3>3 DEF Session
      <4>2. ASSUME NEW b \in Polls
            PROVE  (q \in keyShare'[b] <=> q \in keyShare[b])
                   /\ \A u \in Users : voteLock'[b][u] = q <=> voteLock[b][u] = q
        BY <1>1, <1>5, <2>3, <3>3, PollsAssumption DEF Session
      <4> QED
        BY <1>5, <3>1, <4>1, <4>2 DEF Held, tables, P, B, U, Side, PollsOf, Exists
    <3> QED
      BY <3>2, <3>3
  <2>5. \A b \in Polls : pollLock'[b] # None => keyShare'[b] = {}
    BY <1>1, <1>2, <1>3, <1>5 DEF LockDiscipline, Session
  <2>6. LockDiscipline'
    BY <2>4, <2>5 DEF LockDiscipline, Held
  <2>7. HeldRowsAreCurrent'
    BY <1>1, <1>3, <1>5, <2>1
       DEF HeldRowsAreCurrent, Session, tables, P, B, U, Side, Exists
  <2> QED
    BY <1>1, <1>5, <2>2, <2>6, <2>7, TablesKept DEF IInv, TypeOK, Tables, Session, TablesAgree
<1> QED
  BY <1>3, <1>4, <1>5 DEF VoteInsert

LEMMA FlipVoteIInv ==
  ASSUME IInv, NEW r \in Requests, FlipVote(r)
  PROVE  IInv'
<1>1. Tables /\ Session /\ LockDiscipline /\ HeldRowsAreCurrent /\ TablesAgree
  BY Parts
<1>2. at[r] = "flip" /\ VoteRowFree(r)
  BY DEF FlipVote
<1>3. PICK c \in Polls, v \in Users : c = B(r) /\ v = U(r)
  BY <1>1, <1>2 DEF LockDiscipline
<1>4. CASE Rollback(r)
  BY <1>4, RollbackIInv
<1>5. CASE /\ Flippable(r)
           /\ voteLock' = [voteLock EXCEPT ![c][v] = r]
           /\ Goto(r, "rebump")
           /\ UNCHANGED <<tables, rowLock, pollLock, keyShare, target>>
  <2>1. at' = [at EXCEPT ![r] = "rebump"]
    BY <1>5 DEF Goto
  <2>2. Session'
    BY <1>1, <1>5, <2>1 DEF Session, Statements
  <2>3. voteLock[c][v] = None
    BY <1>1, <1>2, <1>3 DEF VoteRowFree, LockDiscipline, Session
  <2>4. ASSUME NEW q \in Requests PROVE Held(q)'
    <3>1. Held(q)
      BY <1>1, DisciplineParts
    <3>2. CASE q = r
      BY <1>1, <1>2, <1>3, <1>5, <2>1, <3>1, <3>2 DEF Held, Session, P, B, U, Side
    <3>3. CASE q # r
      <4>1. at'[q] = at[q] /\ target' = target
        BY <1>1, <1>5, <2>1, <3>3 DEF Session
      <4>2. ASSUME NEW b \in Polls
            PROVE  \A u \in Users : voteLock'[b][u] = q <=> voteLock[b][u] = q
        BY <1>1, <1>5, <2>3, <3>3, PollsAssumption DEF Session
      <4> QED
        BY <1>5, <3>1, <4>1, <4>2 DEF Held, tables, P, B, U, Side, PollsOf, Exists
    <3> QED
      BY <3>2, <3>3
  <2>5. LockDiscipline'
    BY <1>1, <1>5, <2>4 DEF LockDiscipline, Held
  <2>6. HeldRowsAreCurrent'
    BY <1>1, <1>3, <1>5, <2>1
       DEF HeldRowsAreCurrent, Flippable, Session, tables, P, B, U, Side, Exists
  <2> QED
    BY <1>1, <1>5, <2>2, <2>5, <2>6, TablesKept DEF IInv, TypeOK, Tables, Session, TablesAgree
<1> QED
  BY <1>3, <1>4, <1>5 DEF FlipVote

LEMMA DeleteProposalIInv ==
  ASSUME IInv, NEW r \in Requests, DeleteProposal(r)
  PROVE  IInv'
<1>1. Tables /\ Session /\ LockDiscipline /\ HeldRowsAreCurrent /\ TablesAgree
  BY Parts
<1>2. at[r] = "delete" /\ rowLock[P(r)] = None
  BY DEF DeleteProposal
<1>3. PICK p \in Proposals : p = P(r)
  BY <1>1, <1>2 DEF LockDiscipline
<1>4. CASE Rollback(r)
  BY <1>4, RollbackIInv
<1>5. CASE /\ p \in proposals
           /\ rowLock' = [rowLock EXCEPT ![p] = r]
           /\ Goto(r, "cascade")
           /\ UNCHANGED <<tables, pollLock, keyShare, voteLock, target>>
  <2>1. at' = [at EXCEPT ![r] = "cascade"]
    BY <1>5 DEF Goto
  <2>2. Session'
    BY <1>1, <1>5, <2>1 DEF Session, Statements
  <2>3. ASSUME NEW q \in Requests PROVE Held(q)'
    <3>1. Held(q)
      BY <1>1, DisciplineParts
    <3>2. CASE q = r
      BY <1>1, <1>2, <1>3, <1>5, <2>1, <3>1, <3>2 DEF Held, Session, P, B, U, Side
    <3>3. CASE q # r
      <4>1. at'[q] = at[q] /\ target' = target
        BY <1>1, <1>5, <2>1, <3>3 DEF Session
      <4>2. \A o \in Proposals : rowLock'[o] = q <=> rowLock[o] = q
        BY <1>1, <1>2, <1>3, <1>5, <3>3, PollsAssumption DEF Session
      <4> QED
        BY <1>5, <3>1, <4>1, <4>2 DEF Held, tables, P, B, U, Side, PollsOf, Exists
    <3> QED
      BY <3>2, <3>3
  <2>4. LockDiscipline'
    BY <1>1, <1>5, <2>3 DEF LockDiscipline, Held
  <2>5. HeldRowsAreCurrent'
    BY <1>1, <1>3, <1>5, <2>1
       DEF HeldRowsAreCurrent, Session, tables, P, B, U, Side, Exists
  <2> QED
    BY <1>1, <1>5, <2>2, <2>4, <2>5, TablesKept DEF IInv, TypeOK, Tables, Session, TablesAgree
<1> QED
  BY <1>3, <1>4, <1>5 DEF DeleteProposal

\* Nobody else holds a poll of a proposal whose row is held.
LEMMA CascadePollsIInv ==
  ASSUME IInv, NEW r \in Requests, CascadePolls(r)
  PROVE  IInv'
<1>1. Tables /\ Session /\ LockDiscipline /\ HeldRowsAreCurrent /\ TablesAgree
  BY Parts
<1>2. /\ at[r] = "cascade"
      /\ \A b \in PollsOf(P(r)) : keyShare[b] = {}
      /\ pollLock' = [b \in Polls |-> IF b \in PollsOf(P(r)) THEN r ELSE pollLock[b]]
      /\ at' = [at EXCEPT ![r] = "cascadeVotes"]
      /\ UNCHANGED <<tables, rowLock, keyShare, voteLock, target>>
  BY DEF CascadePolls, Goto
<1>3. PICK p \in Proposals : p = P(r) /\ rowLock[p] = r
  BY <1>1, <1>2 DEF LockDiscipline
<1>4. Session'
  BY <1>1, <1>2 DEF Session, Statements
<1>5. ASSUME NEW q \in Requests PROVE Held(q)'
  <2>1. Held(q)
    BY <1>1, DisciplineParts
  <2>2. CASE q = r
    <3>1. at'[q] = "cascadeVotes" /\ target' = target
      BY <1>1, <1>2, <2>2 DEF Session
    <3>2. \A b \in Polls : pollLock'[b] = q <=> b \in PollsOf(P(q))
      BY <1>2, <2>1, <2>2 DEF Held
    <3> QED
      BY <1>2, <2>1, <2>2, <3>1, <3>2 DEF Held, tables, P, B, U, Side, PollsOf, Exists
  <2>3. CASE q # r
    <3>1. at'[q] = at[q] /\ target' = target
      BY <1>1, <1>2, <2>3 DEF Session
    <3>2. \A b \in Polls : pollLock'[b] = q <=> pollLock[b] = q
      <4>1. ASSUME NEW b \in Polls, pollLock[b] = q PROVE b \notin PollsOf(P(r))
        <5>1. at[q] = "cascadeVotes" /\ b \in PollsOf(P(q))
          BY <2>1, <4>1 DEF Held
        <5>2. P(q) \in Proposals /\ rowLock[P(q)] = q
          BY <2>1, <5>1 DEF Held
        <5> QED
          BY <1>3, <2>3, <5>1, <5>2 DEF PollsOf
      <4> QED
        BY <1>2, <2>3, <4>1
    <3> QED
      BY <1>2, <2>1, <3>1, <3>2 DEF Held, tables, P, B, U, Side, PollsOf, Exists
  <2> QED
    BY <2>2, <2>3
<1>6. \A b \in Polls : pollLock'[b] # None => keyShare'[b] = {}
  BY <1>1, <1>2 DEF LockDiscipline
<1>7. LockDiscipline'
  BY <1>5, <1>6 DEF LockDiscipline, Held
<1>8. HeldRowsAreCurrent'
  BY <1>1, <1>2 DEF HeldRowsAreCurrent, Session, tables, P, B, U, Side, Exists
<1> QED
  BY <1>1, <1>2, <1>4, <1>7, <1>8, TablesKept DEF IInv, TypeOK, Tables, Session, TablesAgree

-----------------------------------------------------------------------------
(***************************************************************************)
(* The statements that write the tables.                                   *)
(***************************************************************************)
\* An unused id is of no poll, so no removal has taken it.
LEMMA CreateInsertIInv ==
  ASSUME IInv, NEW r \in Requests, NEW b \in Polls, CreateInsert(r, b)
  PROVE  IInv'
<1>1. Tables /\ Session /\ LockDiscipline /\ HeldRowsAreCurrent /\ TablesAgree
  BY Parts
<1>2. at[r] = "create" /\ phase[b] = "unused" /\ rowLock[P(r)] = None
  BY DEF CreateInsert
<1>3. PICK p \in Proposals : p = P(r)
  BY <1>1, <1>2 DEF LockDiscipline
<1>4. CASE Rollback(r)
  BY <1>4, RollbackIInv
<1>5. CASE /\ p \in proposals /\ ~ActivePoll(p)
           /\ of' = [of EXCEPT ![b] = p]
           /\ phase' = [phase EXCEPT ![b] = "open"]
           /\ Finish(r)
           /\ UNCHANGED <<proposals, vote, yes, no>>
  <2>1. Tables'
    BY <1>1, <1>5 DEF Tables, Phases
  <2>2. TakenPollsStay(r)
    <3>1. ASSUME NEW q \in Requests \ {r}, at[q] = "cascadeVotes"
          PROVE  P(q) # p
      BY <1>1, <1>2, <1>3, <3>1, PollsAssumption DEF LockDiscipline
    <3> QED
      BY <1>1, <1>2, <1>5, <3>1 DEF TakenPollsStay, PollsOf, Exists, Tables
  <2>3. Session' /\ LockDiscipline'
    BY <1>1, <1>5, <2>2, FinishSession
  <2>4. HeldRowsAreCurrent'
    BY <1>1, <1>5
       DEF HeldRowsAreCurrent, Finish, Goto, Session, Tables, P, B, U, Side, Exists
  <2>5. OnlyExistingPollsHaveVotes'
    BY <1>1, <1>2, <1>5 DEF TablesAgree, Tables, OnlyExistingPollsHaveVotes, Exists
  <2>6. OneActivePoll'
    BY <1>1, <1>2, <1>5
       DEF TablesAgree, Tables, OneActivePoll, ActivePoll, PollsOf, Exists
  <2>7. CountersMatchVotes'
    BY <1>1, <1>5 DEF TablesAgree, CountersMatchVotes, Tally
  <2>8. PollsGoWithProposal'
    BY <1>1, <1>2, <1>5 DEF TablesAgree, Tables, PollsGoWithProposal, Exists
  <2> QED
    BY <2>1, <2>3, <2>4, <2>5, <2>6, <2>7, <2>8
       DEF IInv, TypeOK, Tables, Session
<1> QED
  BY <1>3, <1>4, <1>5 DEF CreateInsert

LEMMA CloseUpdateIInv ==
  ASSUME IInv, NEW r \in Requests, CloseUpdate(r)
  PROVE  IInv'
<1>1. Tables /\ Session /\ LockDiscipline /\ HeldRowsAreCurrent /\ TablesAgree
  BY Parts
<1>2. PICK c \in Polls : c = B(r)
  BY <1>1 DEF LockDiscipline, CloseUpdate
<1>3. /\ phase' = IF Exists(c) THEN [phase EXCEPT ![c] = "closed"] ELSE phase
      /\ Finish(r)
      /\ UNCHANGED <<proposals, of, vote, yes, no>>
  BY <1>2 DEF CloseUpdate
<1>4. Tables'
  BY <1>1, <1>3 DEF Tables, Phases
<1>5. \A b \in Polls : Exists(b)' <=> Exists(b)
  BY <1>1, <1>3 DEF Tables, Exists
<1>6. \A b \in Polls : phase'[b] = "open" => phase[b] = "open"
  BY <1>1, <1>3 DEF Tables
<1>7. TakenPollsStay(r)
  BY <1>3, <1>5 DEF TakenPollsStay, PollsOf, Exists
<1>8. Session' /\ LockDiscipline'
  BY <1>1, <1>3, <1>7, FinishSession
<1>9. HeldRowsAreCurrent'
  <2>1. ASSUME NEW q \in Requests, at'[q] # "idle"
        PROVE  at'[q] = at[q] /\ target'[q] = target[q]
    BY <1>1, <1>3, <2>1 DEF Finish, Goto, Session
  <2>2. ASSUME NEW q \in Requests, at[q] = "bump" PROVE B(q) \in Polls
    BY <1>1, <2>2 DEF LockDiscipline
  <2> QED
    BY <1>1, <1>3, <1>5, <2>1, <2>2 DEF HeldRowsAreCurrent, P, B, U, Side, Exists
<1>10. OnlyExistingPollsHaveVotes' /\ PollsGoWithProposal'
  BY <1>1, <1>3, <1>5
     DEF TablesAgree, OnlyExistingPollsHaveVotes, PollsGoWithProposal, Exists
<1>11. OneActivePoll'
  BY <1>1, <1>3, <1>6 DEF TablesAgree, OneActivePoll
<1>12. CountersMatchVotes'
  BY <1>1, <1>3 DEF TablesAgree, CountersMatchVotes, Tally
<1> QED
  BY <1>4, <1>8, <1>9, <1>10, <1>11, <1>12 DEF IInv, TypeOK, Tables, Session

\* Writing the vote it holds the lock of, a request disturbs nobody else's.
LEMMA WriteVote ==
  ASSUME IInv, NEW r \in Requests, at[r] \in {"bump", "rebump"},
         NEW c, NEW v, c = B(r), v = U(r),
         vote' = [vote EXCEPT ![c][v] = Side(r)],
         yes' \in [Polls -> Nat], no' \in [Polls -> Nat],
         Finish(r), UNCHANGED <<proposals, of, phase>>
  PROVE  /\ c \in Polls /\ v \in Users /\ Side(r) \in Sides /\ Exists(c)
         /\ Tables' /\ Session' /\ LockDiscipline' /\ HeldRowsAreCurrent'
         /\ OnlyExistingPollsHaveVotes' /\ OneActivePoll' /\ PollsGoWithProposal'
<1>1. Tables /\ Session /\ LockDiscipline /\ HeldRowsAreCurrent /\ TablesAgree
  BY Parts
<1>2. c \in Polls /\ v \in Users /\ Side(r) \in Sides
  BY <1>1 DEF LockDiscipline
<1>3. Exists(c)
  BY <1>1, <1>2 DEF HeldRowsAreCurrent, TablesAgree, OnlyExistingPollsHaveVotes, Other, Sides
<1>4. Tables'
  BY <1>1, <1>2 DEF Tables, Votes
<1>5. TakenPollsStay(r)
  BY DEF TakenPollsStay, PollsOf, Exists
<1>6. Session' /\ LockDiscipline'
  BY <1>1, <1>5, FinishSession
<1>7. HeldRowsAreCurrent'
  <2>1. ASSUME NEW q \in Requests, at'[q] # "idle"
        PROVE  q # r /\ at'[q] = at[q] /\ target'[q] = target[q]
    BY <1>1, <2>1 DEF Finish, Goto, Session
  <2>2. ASSUME NEW q \in Requests, at'[q] \in {"bump", "rebump"}
        PROVE  vote'[B(q)][U(q)] = vote[B(q)][U(q)]
    <3>1. q # r /\ at[q] \in {"bump", "rebump"}
      BY <2>1, <2>2
    <3>2. B(q) \in Polls /\ U(q) \in Users
      BY <1>1, <3>1 DEF LockDiscipline
    <3>3. voteLock[B(q)][U(q)] = q /\ voteLock[c][v] = r
      BY <1>1, <1>2, <3>1, <3>2 DEF LockDiscipline
    <3> QED
      BY <1>1, <1>2, <3>1, <3>2, <3>3 DEF Tables
  <2> QED
    BY <1>1, <2>1, <2>2 DEF HeldRowsAreCurrent, P, B, U, Side, Exists
<1>8. OnlyExistingPollsHaveVotes'
  BY <1>1, <1>2, <1>3 DEF TablesAgree, Tables, OnlyExistingPollsHaveVotes, Exists
<1>9. OneActivePoll' /\ PollsGoWithProposal'
  BY <1>1 DEF TablesAgree, OneActivePoll, PollsGoWithProposal, Exists
<1> QED
  BY <1>2, <1>3, <1>4, <1>6, <1>7, <1>8, <1>9

LEMMA VoteBumpIInv ==
  ASSUME IInv, NEW r \in Requests, VoteBump(r)
  PROVE  IInv'
<1>1. Tables /\ LockDiscipline /\ HeldRowsAreCurrent /\ CountersMatchVotes
      /\ IsFiniteSet(Users)
  BY Parts, PollsAssumption DEF TablesAgree
<1>2. at[r] = "bump"
  BY DEF VoteBump
<1>3. CASE Rollback(r)
  BY <1>3, RollbackIInv
<1>4. CASE /\ vote' = [vote EXCEPT ![B(r)][U(r)] = Side(r)]
           /\ yes' = IF Side(r) = "yes" THEN [yes EXCEPT ![B(r)] = @ + 1] ELSE yes
           /\ no' = IF Side(r) = "no" THEN [no EXCEPT ![B(r)] = @ + 1] ELSE no
           /\ Finish(r) /\ UNCHANGED <<proposals, of, phase>>
  <2>1. PICK o \in Polls, w \in Users, s \in Sides : o = B(r) /\ w = U(r) /\ s = Side(r)
    BY <1>1, <1>2 DEF LockDiscipline
  <2>2. yes' \in [Polls -> Nat] /\ no' \in [Polls -> Nat]
    BY <1>1, <1>4, <2>1 DEF Tables, Sides
  <2>3. /\ Tables' /\ Session' /\ LockDiscipline' /\ HeldRowsAreCurrent'
        /\ OnlyExistingPollsHaveVotes' /\ OneActivePoll' /\ PollsGoWithProposal'
    BY <1>2, <1>4, <2>2, WriteVote
  <2>4. /\ \A x \in Users \ {w} : vote'[o][x] = vote[o][x]
        /\ vote[o][w] = "none" /\ vote'[o][w] = s
        /\ \A q \in Polls : q # o => vote'[q] = vote[q]
    BY <1>1, <1>2, <1>4, <2>1 DEF Tables, HeldRowsAreCurrent
  <2>5. /\ Tally(o, s) \in Nat
        /\ Cardinality({x \in Users : vote'[o][x] = s}) = Tally(o, s) + 1
    <3>1. vote[o][w] # s
      BY <2>4 DEF Sides
    <3> QED
      BY <1>1, <2>4, <3>1, OneMore DEF Tally
  <2>6. ASSUME NEW t \in Sides, t # s
        PROVE  Cardinality({x \in Users : vote'[o][x] = t}) = Tally(o, t)
    <3>1. \A x \in Users : vote[o][x] = t <=> vote'[o][x] = t
      BY <2>4, <2>6 DEF Sides
    <3> QED
      BY <3>1, AsMany DEF Tally
  <2>7. ASSUME NEW q \in Polls
        PROVE  yes'[q] = Tally(q, "yes")' /\ no'[q] = Tally(q, "no")'
    <3>1. yes[q] = Tally(q, "yes") /\ no[q] = Tally(q, "no")
      BY <1>1 DEF CountersMatchVotes
    <3>2. CASE q # o
      BY <1>1, <1>4, <2>1, <2>4, <3>1, <3>2 DEF Tally, Tables
    <3>3. CASE q = o /\ s = "yes"
      BY <1>1, <1>4, <2>1, <2>5, <2>6, <3>1, <3>3 DEF Tally, Tables, Sides
    <3>4. CASE q = o /\ s = "no"
      BY <1>1, <1>4, <2>1, <2>5, <2>6, <3>1, <3>4 DEF Tally, Tables, Sides
    <3> QED
      BY <3>2, <3>3, <3>4 DEF Sides
  <2>8. CountersMatchVotes'
    BY <2>7 DEF CountersMatchVotes
  <2> QED
    BY <2>3, <2>8 DEF IInv, TypeOK, Tables, Session
<1> QED
  BY <1>3, <1>4 DEF VoteBump

LEMMA FlipBumpIInv ==
  ASSUME IInv, NEW r \in Requests, FlipBump(r)
  PROVE  IInv'
<1>1. Tables /\ LockDiscipline /\ HeldRowsAreCurrent /\ CountersMatchVotes
      /\ IsFiniteSet(Users)
  BY Parts, PollsAssumption DEF TablesAgree
<1>2. at[r] = "rebump"
  BY DEF FlipBump
<1>3. CASE Rollback(r)
  BY <1>3, RollbackIInv
<1>4. CASE /\ vote' = [vote EXCEPT ![B(r)][U(r)] = Side(r)]
           /\ IF Side(r) = "yes"
              THEN /\ yes' = [yes EXCEPT ![B(r)] = @ + 1]
                   /\ no' = [no EXCEPT ![B(r)] = Decrement(@)]
              ELSE /\ no' = [no EXCEPT ![B(r)] = @ + 1]
                   /\ yes' = [yes EXCEPT ![B(r)] = Decrement(@)]
           /\ Finish(r) /\ UNCHANGED <<proposals, of, phase>>
  <2>1. PICK o \in Polls, w \in Users, s \in Sides, t \in Sides :
          o = B(r) /\ w = U(r) /\ s = Side(r) /\ t = Other(Side(r)) /\ s # t
    BY <1>1, <1>2 DEF LockDiscipline, Other, Sides
  <2>2. yes' \in [Polls -> Nat] /\ no' \in [Polls -> Nat]
    BY <1>1, <1>4, <2>1 DEF Tables, Decrement
  <2>3. /\ Tables' /\ Session' /\ LockDiscipline' /\ HeldRowsAreCurrent'
        /\ OnlyExistingPollsHaveVotes' /\ OneActivePoll' /\ PollsGoWithProposal'
    BY <1>2, <1>4, <2>2, WriteVote
  <2>4. /\ \A x \in Users \ {w} : vote'[o][x] = vote[o][x]
        /\ vote[o][w] = t /\ vote'[o][w] = s
        /\ \A q \in Polls : q # o => vote'[q] = vote[q]
    BY <1>1, <1>2, <1>4, <2>1 DEF Tables, HeldRowsAreCurrent
  <2>5. /\ Tally(o, s) \in Nat
        /\ Cardinality({x \in Users : vote'[o][x] = s}) = Tally(o, s) + 1
    BY <1>1, <2>1, <2>4, OneMore DEF Tally
  <2>6. /\ Cardinality({x \in Users : vote'[o][x] = t}) \in Nat
        /\ Tally(o, t) = Cardinality({x \in Users : vote'[o][x] = t}) + 1
    BY <1>1, <2>1, <2>4, OneLess DEF Tally
  <2>7. ASSUME NEW q \in Polls
        PROVE  yes'[q] = Tally(q, "yes")' /\ no'[q] = Tally(q, "no")'
    <3>1. yes[q] = Tally(q, "yes") /\ no[q] = Tally(q, "no")
      BY <1>1 DEF CountersMatchVotes
    <3>2. CASE q # o
      BY <1>1, <1>4, <2>1, <2>4, <3>1, <3>2 DEF Tally, Tables
    <3>3. CASE q = o /\ s = "yes"
      <4>1. t = "no" /\ yes'[o] = yes[o] + 1 /\ no'[o] = Decrement(no[o])
        BY <1>1, <1>4, <2>1, <3>3 DEF Tables, Sides
      <4>2. no'[o] = Cardinality({x \in Users : vote'[o][x] = t})
        BY <2>6, <3>1, <3>3, <4>1 DEF Decrement
      <4> QED
        BY <2>5, <3>1, <3>3, <4>1, <4>2 DEF Tally
    <3>4. CASE q = o /\ s = "no"
      <4>1. t = "yes" /\ no'[o] = no[o] + 1 /\ yes'[o] = Decrement(yes[o])
        BY <1>1, <1>4, <2>1, <3>4 DEF Tables, Sides
      <4>2. yes'[o] = Cardinality({x \in Users : vote'[o][x] = t})
        BY <2>6, <3>1, <3>4, <4>1 DEF Decrement
      <4> QED
        BY <2>5, <3>1, <3>4, <4>1, <4>2 DEF Tally
    <3> QED
      BY <3>2, <3>3, <3>4 DEF Sides
  <2>8. CountersMatchVotes'
    BY <2>7 DEF CountersMatchVotes
  <2> QED
    BY <2>3, <2>8 DEF IInv, TypeOK, Tables, Session
<1> QED
  BY <1>3, <1>4 DEF FlipBump

\* A removal holds its polls: nobody is about to count a vote on one of them,
\* and nobody holds a vote of one.
LEMMA CascadeVotesIInv ==
  ASSUME IInv, NEW r \in Requests, CascadeVotes(r)
  PROVE  IInv'
<1> DEFINE gone == PollsOf(P(r))
<1>1. Tables /\ Session /\ LockDiscipline /\ HeldRowsAreCurrent /\ TablesAgree
  BY Parts
<1>2. /\ at[r] = "cascadeVotes"
      /\ \A b \in gone, u \in Users : voteLock[b][u] = None
      /\ proposals' = proposals \ {P(r)}
      /\ phase' = [b \in Polls |-> IF b \in gone THEN "gone" ELSE phase[b]]
      /\ vote' = [b \in Polls |-> IF b \in gone THEN [u \in Users |-> "none"] ELSE vote[b]]
      /\ yes' = [b \in Polls |-> IF b \in gone THEN 0 ELSE yes[b]]
      /\ no' = [b \in Polls |-> IF b \in gone THEN 0 ELSE no[b]]
      /\ Finish(r) /\ UNCHANGED of
  BY DEF CascadeVotes
<1>3. P(r) \in Proposals /\ rowLock[P(r)] = r
  BY <1>1, <1>2 DEF LockDiscipline
<1>4. \A b \in gone : b \in Polls /\ of[b] = P(r)
  BY DEF PollsOf
<1>5. \A b \in Polls \ gone : of[b] = P(r) => phase[b] \in {"unused", "gone"}
  BY <1>1 DEF PollsOf, Exists, Tables, Phases
<1> HIDE DEF gone
<1>6. Tables'
  BY <1>1, <1>2 DEF Tables, Phases, Votes
<1>7. ASSUME NEW q \in Requests \ {r}, at[q] \in {"cascade", "cascadeVotes"}
      PROVE  P(q) # P(r)
  BY <1>1, <1>3, <1>7 DEF LockDiscipline
<1>8. TakenPollsStay(r)
  BY <1>2, <1>4, <1>7 DEF TakenPollsStay, PollsOf, Exists
<1>9. Session' /\ LockDiscipline'
  BY <1>1, <1>2, <1>8, FinishSession
<1>10. HeldRowsAreCurrent'
  <2>1. ASSUME NEW q \in Requests, at'[q] # "idle"
        PROVE  q # r /\ at'[q] = at[q] /\ target'[q] = target[q]
    BY <1>1, <1>2, <2>1 DEF Finish, Goto, Session
  <2>2. ASSUME NEW q \in Requests, at'[q] \in {"bump", "rebump"}
        PROVE  B(q) \in Polls /\ B(q) \notin gone
    <3>1. q # r /\ at[q] \in {"bump", "rebump"}
      BY <2>1, <2>2
    <3>2. B(q) \in Polls /\ U(q) \in Users /\ voteLock[B(q)][U(q)] = q
      BY <1>1, <3>1 DEF LockDiscipline
    <3> QED
      BY <1>2, <3>2, PollsAssumption
  <2> QED
    BY <1>1, <1>2, <1>7, <2>1, <2>2 DEF HeldRowsAreCurrent, P, B, U, Side, Exists
<1>11. OnlyExistingPollsHaveVotes'
  BY <1>1, <1>2 DEF TablesAgree, OnlyExistingPollsHaveVotes, Exists
<1>12. OneActivePoll'
  BY <1>1, <1>2 DEF TablesAgree, OneActivePoll
<1>13. PollsGoWithProposal'
  BY <1>1, <1>2, <1>5 DEF TablesAgree, PollsGoWithProposal, Exists
<1>14. CountersMatchVotes'
  <2>1. ASSUME NEW b \in Polls
        PROVE  yes'[b] = Tally(b, "yes")' /\ no'[b] = Tally(b, "no")'
    <3>1. CASE b \notin gone
      BY <1>1, <1>2, <3>1 DEF TablesAgree, CountersMatchVotes, Tally
    <3>2. CASE b \in gone
      <4>1. yes'[b] = 0 /\ no'[b] = 0 /\ \A x \in Users : vote'[b][x] = "none"
        BY <1>2, <3>2
      <4>2. \A x \in Users : vote'[b][x] # "yes"
        BY <4>1
      <4>3. \A x \in Users : vote'[b][x] # "no"
        BY <4>1
      <4>4. Cardinality({x \in Users : vote'[b][x] = "yes"}) = 0
        BY <4>2, NoVotes
      <4>5. Cardinality({x \in Users : vote'[b][x] = "no"}) = 0
        BY <4>3, NoVotes
      <4> QED
        BY <4>1, <4>4, <4>5 DEF Tally
    <3> QED
      BY <3>1, <3>2
  <2> QED
    BY <2>1 DEF CountersMatchVotes
<1> QED
  BY <1>6, <1>9, <1>10, <1>11, <1>12, <1>13, <1>14 DEF IInv, TypeOK, Tables, Session

-----------------------------------------------------------------------------
LEMMA NextIInv == IInv /\ [Next]_vars => IInv'
<1> SUFFICES ASSUME IInv, [Next]_vars PROVE IInv'
  OBVIOUS
<1>1. ASSUME NEW r \in Requests, NEW p \in Proposals, CreateFind(r, p) \/ RemoveFind(r, p)
      PROVE  IInv'
  <2>1. [NoTarget EXCEPT !.proposal = p] \in Targets
    BY DEF Targets, NoTarget, Votes
  <2>2. [NoTarget EXCEPT !.proposal = p].proposal = p
    BY DEF NoTarget
  <2> QED
    BY <1>1, <2>1, <2>2, StartIInv DEF CreateFind, RemoveFind
<1>2. ASSUME NEW r \in Requests, NEW b \in Polls, CloseFind(r, b)
      PROVE  IInv'
  <2>1. [NoTarget EXCEPT !.poll = b] \in Targets
    BY DEF Targets, NoTarget, Votes
  <2>2. [NoTarget EXCEPT !.poll = b].poll = b
    BY DEF NoTarget
  <2> QED
    BY <1>2, <2>1, <2>2, StartIInv DEF CloseFind
<1>3. ASSUME NEW r \in Requests, NEW b \in Polls, NEW u \in Users, NEW side \in Sides,
             VoteFind(r, b, u, side) \/ FlipFind(r, b, u, side)
      PROVE  IInv'
  <2> DEFINE t == [NoTarget EXCEPT !.poll = b, !.user = u, !.side = side]
  <2>1. t \in Targets /\ t.poll = b /\ t.user = u /\ t.side = side
    BY DEF Targets, NoTarget, Votes
  <2>2. Start(r, "vote", t) \/ Start(r, "flip", t)
    BY <1>3 DEF VoteFind, FlipFind
  <2> HIDE DEF t
  <2> QED
    BY <2>1, <2>2, StartIInv
<1>4. ASSUME NEW r \in Requests, Create(r)
      PROVE  IInv'
  BY <1>4, CreateInsertIInv DEF Create
<1>5. ASSUME NEW r \in Requests, Step(r)
      PROVE  IInv'
  BY <1>5, CloseUpdateIInv, VoteInsertIInv, VoteBumpIInv, FlipVoteIInv, FlipBumpIInv,
     DeleteProposalIInv, CascadePollsIInv, CascadeVotesIInv DEF Step
<1>6. ASSUME NEW r \in Requests, BreakDeadlock(r) \/ Abort(r)
      PROVE  IInv'
  BY <1>6, RollbackIInv DEF BreakDeadlock, Abort
<1>7. CASE UNCHANGED vars
  <2>1. Tables /\ Session /\ LockDiscipline /\ HeldRowsAreCurrent /\ TablesAgree
    BY Parts
  <2>2. Tables' /\ TablesAgree'
    BY <1>7, <2>1, TablesKept DEF vars
  <2>3. Session'
    BY <1>7, <2>1 DEF Session, vars, locks
  <2>4. LockDiscipline'
    BY <1>7, <2>1
       DEF LockDiscipline, P, B, U, Side, PollsOf, Exists, vars, tables, locks
  <2>5. HeldRowsAreCurrent'
    BY <1>7, <2>1 DEF HeldRowsAreCurrent, P, B, U, Side, Exists, vars, tables, locks
  <2> QED
    BY <2>2, <2>3, <2>4, <2>5 DEF IInv, TypeOK, Tables, Session, TablesAgree
<1> QED
  BY <1>1, <1>2, <1>3, <1>4, <1>5, <1>6, <1>7 DEF Next

\* Every reachable state satisfies the invariant.
THEOREM Inductive == Spec => []IInv
<1>1. Init => IInv
  BY InitIInv
<1>2. IInv /\ [Next]_vars => IInv'
  BY NextIInv
<1> QED
  BY <1>1, <1>2, PTL DEF Spec

\* A proposal has one active poll at most, however its creations race.
THEOREM OneActivePollHolds == Spec => []OneActivePoll
<1>1. IInv => OneActivePoll
  BY DEF IInv
<1> QED
  BY <1>1, Inductive, PTL

\* The counters of a poll equal the stored votes at every commit.
THEOREM CountersMatchVotesHolds == Spec => []CountersMatchVotes
<1>1. IInv => CountersMatchVotes
  BY DEF IInv
<1> QED
  BY <1>1, Inductive, PTL

-----------------------------------------------------------------------------
(***************************************************************************)
(* What a step does to the tables, and what that is to the ballots.        *)
(***************************************************************************)
LEMMA WhoWrites ==
  ASSUME [Next]_vars
  PROVE  \/ UNCHANGED tables
         \/ \E r \in Requests, b \in Polls : CreateInsert(r, b)
         \/ \E r \in Requests :
              CloseUpdate(r) \/ VoteBump(r) \/ FlipBump(r) \/ CascadeVotes(r)
BY DEF Next, CreateFind, RemoveFind, CloseFind, VoteFind, FlipFind, Start, Create, Step,
       VoteInsert, FlipVote, DeleteProposal, CascadePolls, BreakDeadlock, Abort, Rollback, vars

LEMMA CreateIsOpen ==
  ASSUME NEW r \in Requests, NEW b \in Polls, CreateInsert(r, b)
  PROVE  Promised!Next \/ UNCHANGED tables
<1>1. CASE Rollback(r)
  BY <1>1 DEF Rollback
<1>2. CASE phase' = [phase EXCEPT ![b] = "open"] /\ UNCHANGED <<proposals, vote, yes, no>>
  <2>1. phase[b] = "unused"
    BY DEF CreateInsert
  <2>2. Promised!Open(b)
    BY <1>2, <2>1 DEF Promised!Open, Promised!Enter
  <2> QED
    BY <2>2 DEF Promised!Next
<1> QED
  BY <1>1, <1>2 DEF CreateInsert

LEMMA CloseIsClose ==
  ASSUME IInv, NEW r \in Requests, CloseUpdate(r)
  PROVE  Promised!Next \/ UNCHANGED Promised!vars
<1>1. PICK c \in Polls : c = B(r)
  BY DEF IInv, LockDiscipline, CloseUpdate
<1>2. /\ phase' = IF Exists(c) THEN [phase EXCEPT ![c] = "closed"] ELSE phase
      /\ UNCHANGED <<proposals, of, vote, yes, no>>
  BY <1>1 DEF CloseUpdate
<1>3. CASE phase[c] = "open"
  <2>1. Promised!Close(c)
    BY <1>2, <1>3 DEF Exists, Promised!Close, Promised!Enter
  <2> QED
    BY <2>1 DEF Promised!Next
<1>4. CASE phase[c] # "open"
  <2>1. phase' = phase
    BY <1>2, <1>4 DEF Exists, IInv, TypeOK
  <2> QED
    BY <1>2, <2>1 DEF Promised!vars
<1> QED
  BY <1>3, <1>4

\* A step that writes one poll's votes and counters is a recorded step of its
\* ballot: the counters it leaves are the count.
LEMMA RecordsVotes ==
  ASSUME IInv, IInv', NEW c \in Polls, NEW box,
         vote' = [vote EXCEPT ![c] = box],
         \A b \in Polls \ {c} : yes'[b] = yes[b] /\ no'[b] = no[b]
  PROVE  Promised!Record(c, box)
<1>1. /\ vote \in [Polls -> [Users -> Votes]]
      /\ yes \in [Polls -> Nat] /\ yes' \in [Polls -> Nat]
      /\ no \in [Polls -> Nat] /\ no' \in [Polls -> Nat]
  BY DEF IInv, TypeOK
<1>2. vote'[c] = box
  BY <1>1
<1>3. yes'[c] = Tally(c, "yes")' /\ no'[c] = Tally(c, "no")'
  BY DEF IInv, CountersMatchVotes
<1>4. yes'[c] = Promised!Count(box, "yes") /\ no'[c] = Promised!Count(box, "no")
  <2>1. /\ yes'[c] = Cardinality({u \in Users : vote'[c][u] = "yes"})
        /\ no'[c] = Cardinality({u \in Users : vote'[c][u] = "no"})
    BY <1>3 DEF Tally
  <2>2. /\ yes'[c] = Cardinality({u \in Users : box[u] = "yes"})
        /\ no'[c] = Cardinality({u \in Users : box[u] = "no"})
    BY <1>2, <2>1
  <2> QED
    BY <2>2 DEF Promised!Count, Promised!Cardinality, Cardinality
<1>5. yes' = [yes EXCEPT ![c] = Promised!Count(box, "yes")]
  BY <1>1, <1>4
<1>6. no' = [no EXCEPT ![c] = Promised!Count(box, "no")]
  BY <1>1, <1>4
<1> QED
  BY <1>5, <1>6 DEF Promised!Record

LEMMA VoteBumpIsCast ==
  ASSUME IInv, IInv', NEW r \in Requests, VoteBump(r)
  PROVE  Promised!Next \/ UNCHANGED tables
<1>1. TypeOK /\ LockDiscipline /\ HeldRowsAreCurrent
  BY DEF IInv
<1>2. PICK c \in Polls, u \in Users, side \in Sides : c = B(r) /\ u = U(r) /\ side = Side(r)
  BY <1>1 DEF LockDiscipline, VoteBump
<1>3. CASE Rollback(r)
  BY <1>3 DEF Rollback
<1>4. CASE /\ Counts(c)
           /\ vote' = [vote EXCEPT ![c][u] = side]
           /\ yes' = IF side = "yes" THEN [yes EXCEPT ![c] = @ + 1] ELSE yes
           /\ no' = IF side = "no" THEN [no EXCEPT ![c] = @ + 1] ELSE no
           /\ UNCHANGED <<proposals, of, phase>>
  <2>1. phase[c] = "open" /\ vote[c][u] = "none"
    BY <1>1, <1>2, <1>4 DEF HeldRowsAreCurrent, Counts, VoteBump
  <2>2. vote' = [vote EXCEPT ![c] = [vote[c] EXCEPT ![u] = side]]
    BY <1>4
  <2>3. \A b \in Polls \ {c} : yes'[b] = yes[b] /\ no'[b] = no[b]
    BY <1>1, <1>4 DEF TypeOK
  <2>4. Promised!Record(c, [vote[c] EXCEPT ![u] = side])
    BY <2>2, <2>3, RecordsVotes
  <2>5. Promised!Cast(c, u, side)
    BY <1>4, <2>1, <2>4 DEF Promised!Cast
  <2> QED
    BY <2>5 DEF Promised!Next, Sides
<1> QED
  BY <1>2, <1>3, <1>4 DEF VoteBump

LEMMA FlipBumpIsChange ==
  ASSUME IInv, IInv', NEW r \in Requests, FlipBump(r)
  PROVE  Promised!Next \/ UNCHANGED tables
<1>1. TypeOK /\ LockDiscipline /\ HeldRowsAreCurrent
  BY DEF IInv
<1>2. PICK c \in Polls, u \in Users, side \in Sides : c = B(r) /\ u = U(r) /\ side = Side(r)
  BY <1>1 DEF LockDiscipline, FlipBump
<1>3. CASE Rollback(r)
  BY <1>3 DEF Rollback
<1>4. CASE /\ Counts(c)
           /\ vote' = [vote EXCEPT ![c][u] = side]
           /\ IF side = "yes"
              THEN /\ yes' = [yes EXCEPT ![c] = @ + 1]
                   /\ no' = [no EXCEPT ![c] = Decrement(@)]
              ELSE /\ no' = [no EXCEPT ![c] = @ + 1]
                   /\ yes' = [yes EXCEPT ![c] = Decrement(@)]
           /\ UNCHANGED <<proposals, of, phase>>
  <2>1. phase[c] = "open" /\ vote[c][u] = Other(side)
    BY <1>1, <1>2, <1>4 DEF HeldRowsAreCurrent, Counts, FlipBump
  <2>2. side = Promised!Other(vote[c][u]) /\ vote[c][u] # "none"
    BY <2>1 DEF Other, Promised!Other, Sides
  <2>3. vote' = [vote EXCEPT ![c] = [vote[c] EXCEPT ![u] = Promised!Other(@)]]
    BY <1>4, <2>2
  <2>4. \A b \in Polls \ {c} : yes'[b] = yes[b] /\ no'[b] = no[b]
    BY <1>1, <1>4 DEF TypeOK
  <2>5. Promised!Record(c, [vote[c] EXCEPT ![u] = Promised!Other(@)])
    BY <2>3, <2>4, RecordsVotes
  <2>6. Promised!Change(c, u)
    BY <1>4, <2>1, <2>2, <2>5 DEF Promised!Change
  <2> QED
    BY <2>6 DEF Promised!Next
<1> QED
  BY <1>2, <1>3, <1>4 DEF FlipBump

LEMMA CascadeIsDiscard ==
  ASSUME NEW r \in Requests, CascadeVotes(r)
  PROVE  Promised!Next
<1>1. \A b \in PollsOf(P(r)) : b \in Polls /\ phase[b] \in {"open", "closed"}
  BY DEF PollsOf, Exists
<1>2. Promised!Discard(PollsOf(P(r)))
  BY <1>1 DEF CascadeVotes, Promised!Discard
<1>3. PollsOf(P(r)) \in SUBSET Polls
  BY <1>1
<1> QED
  BY <1>2, <1>3 DEF Promised!Next

LEMMA NextImplements == IInv /\ IInv' /\ [Next]_vars => [Promised!Next]_(Promised!vars)
<1> SUFFICES ASSUME IInv, IInv', [Next]_vars PROVE [Promised!Next]_(Promised!vars)
  OBVIOUS
<1>1. ASSUME UNCHANGED tables
      PROVE  UNCHANGED Promised!vars
  BY <1>1 DEF tables, Promised!vars
<1> QED
  BY <1>1, WhoWrites, CreateIsOpen, CloseIsClose, VoteBumpIsCast, FlipBumpIsChange,
     CascadeIsDiscard

\* The forum keeps the promise of a ballot for every poll.
THEOREM ImplementsBallotHolds == Spec => ImplementsBallot
<1>1. Init => Promised!Init
  BY DEF Init, Promised!Init
<1>2. IInv /\ IInv' /\ [Next]_vars => [Promised!Next]_(Promised!vars)
  BY NextImplements
<1> QED
  BY <1>1, <1>2, Inductive, PTL DEF Spec, ImplementsBallot, Promised!Spec

-----------------------------------------------------------------------------
Finished(b) == phase[b] = "closed" =>
  \/ phase'[b] = "gone"
  \/ phase'[b] = "closed" /\ <<vote[b], yes[b], no[b]>>' = <<vote[b], yes[b], no[b]>>

LEMMA NextFinal == IInv /\ [Next]_vars => \A b \in Polls : Finished(b)
<1> SUFFICES ASSUME IInv, [Next]_vars, NEW b \in Polls, phase[b] = "closed"
             PROVE  Finished(b)
  BY DEF Finished
<1> USE DEF Finished
<1>1. TypeOK /\ LockDiscipline
  BY DEF IInv
<1>2. CASE UNCHANGED tables
  BY <1>2 DEF tables
<1>3. ASSUME NEW r \in Requests, NEW c \in Polls, CreateInsert(r, c) PROVE Finished(b)
  BY <1>1, <1>3 DEF CreateInsert, Rollback, tables, TypeOK
<1>4. ASSUME NEW r \in Requests, CloseUpdate(r) PROVE Finished(b)
  BY <1>1, <1>4 DEF CloseUpdate, TypeOK
<1>5. ASSUME NEW r \in Requests, VoteBump(r) PROVE Finished(b)
  BY <1>1, <1>5 DEF VoteBump, Counts, Rollback, tables, TypeOK
<1>6. ASSUME NEW r \in Requests, FlipBump(r) PROVE Finished(b)
  BY <1>1, <1>6 DEF FlipBump, Counts, Rollback, tables, TypeOK
<1>7. ASSUME NEW r \in Requests, CascadeVotes(r) PROVE Finished(b)
  BY <1>7 DEF CascadeVotes
<1> QED
  BY <1>2, <1>3, <1>4, <1>5, <1>6, <1>7, WhoWrites

\* The result of a closed poll is final: no vote or flip that was under way
\* when the poll closed is counted.
THEOREM ClosedPollIsFinalHolds == Spec => ClosedPollIsFinal
<1>1. IInv /\ [Next]_vars => [\A b \in Polls : Finished(b)]_vars
  BY NextFinal
<1> QED
  BY <1>1, Inductive, PTL DEF Spec, ClosedPollIsFinal, Finished

-----------------------------------------------------------------------------
\* Nobody waits for ever.

\* Who is waited for: a bump waits for nobody, a flip that cannot go on is in a
\* cycle, and the cascade, its polls and its proposal wait for those two only.
LEMMA OneCanRun == IInv => (Working # {} => \E r \in Working : CanRun(r))
<1> SUFFICES ASSUME IInv, NEW r \in Working, \A q \in Working : ~CanRun(q) PROVE FALSE
  OBVIOUS
<1>1. TypeOK /\ LockDiscipline
  BY DEF IInv
<1>2. \A q \in Requests : at[q] \in Statements
  BY <1>1 DEF TypeOK
<1>3. ASSUME NEW q \in Requests PROVE at[q] # "bump"
  <2> SUFFICES ASSUME at[q] = "bump" PROVE FALSE
    OBVIOUS
  <2>1. B(q) \in Polls /\ q \in keyShare[B(q)]
    BY <1>1 DEF LockDiscipline
  <2>2. pollLock[B(q)] = None
    BY <1>1, <2>1 DEF LockDiscipline
  <2> QED
    BY <2>2 DEF CanRun, Working
<1>4. ASSUME NEW q \in Requests PROVE at[q] # "rebump"
  <2> SUFFICES ASSUME at[q] = "rebump" PROVE FALSE
    OBVIOUS
  <2>1. B(q) \in Polls /\ pollLock[B(q)] # None
    BY <1>1 DEF LockDiscipline, CanRun, Working
  <2>2. PICK s \in Requests : pollLock[B(q)] = s
    BY <1>1, <2>1 DEF TypeOK
  <2>3. at[s] = "cascadeVotes"
    BY <1>1, <2>1, <2>2 DEF LockDiscipline
  <2> QED
    BY <2>2, <2>3 DEF CanRun, Working, Deadlocked
<1>5. \A b \in Polls, u \in Users : voteLock[b][u] = None
  BY <1>1, <1>3, <1>4 DEF LockDiscipline, TypeOK
<1>6. \A q \in Requests : at[q] # "cascadeVotes"
  BY <1>5 DEF CanRun, Working, PollsOf
<1>7. \A b \in Polls : pollLock[b] = None
  BY <1>1, <1>6 DEF LockDiscipline, TypeOK
<1>8. \A b \in Polls : keyShare[b] = {}
  BY <1>1, <1>3 DEF LockDiscipline, TypeOK
<1>9. \A q \in Requests : at[q] # "cascade"
  BY <1>8 DEF CanRun, Working, PollsOf
<1>10. \A p \in Proposals : rowLock[p] = None
  BY <1>1, <1>6, <1>9 DEF LockDiscipline, TypeOK
<1>11. at[r] \notin {"close", "vote", "flip", "delete"}
  <2>1. /\ at[r] \in {"close", "vote", "flip"} => B(r) \in Polls
        /\ at[r] \in {"vote", "flip"} => U(r) \in Users
        /\ at[r] = "delete" => P(r) \in Proposals
    BY <1>1 DEF LockDiscipline, Working
  <2> QED
    BY <1>5, <1>7, <1>10, <2>1 DEF CanRun, VoteRowFree
<1> QED
  BY <1>2, <1>3, <1>4, <1>6, <1>9, <1>11 DEF Statements, Working

\* create aside, of the requests under way one waits for nobody or is in a cycle
\* of two that the deadlock detector breaks, whatever locks the others hold.
THEOREM NeverAllWait == Spec => [](Working # {} => \E r \in Working : CanRun(r))
BY OneCanRun, Inductive, PTL
=============================================================================
