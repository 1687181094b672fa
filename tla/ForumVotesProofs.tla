-------------------------- MODULE ForumVotesProofs --------------------------
(***************************************************************************)
(* The safety of ForumVotes for every set of proposals, users and          *)
(* requests, and its refinement of Ballot.                                 *)
(***************************************************************************)
EXTENDS ForumVotes, FiniteSetTheorems, TLAPS

-----------------------------------------------------------------------------
\* What one vote does to a count of votes.

\* One voter comes to a side, the others stay: its count goes up by one.
LEMMA OneMore ==
  ASSUME NEW V, IsFiniteSet(V), NEW u \in V, NEW s, NEW f, NEW g,
         \A v \in V \ {u} : g[v] = f[v], f[u] # s, g[u] = s
  PROVE  /\ Cardinality({v \in V : f[v] = s}) \in Nat
         /\ Cardinality({v \in V : g[v] = s}) = Cardinality({v \in V : f[v] = s}) + 1
<1> DEFINE F == {v \in V : f[v] = s}
           G == {v \in V : g[v] = s}
<1>1. IsFiniteSet(F)
  BY FS_Subset
<1>2. G = F \cup {u} /\ u \notin F
  OBVIOUS
<1>3. Cardinality(F) \in Nat
  BY <1>1, FS_CardinalityType
<1>4. Cardinality(F \cup {u}) = Cardinality(F) + 1
  BY <1>1, <1>2, FS_AddElement
<1> QED
  BY <1>2, <1>3, <1>4

\* One voter leaves a side: its count was one more.
LEMMA OneLess ==
  ASSUME NEW V, IsFiniteSet(V), NEW u \in V, NEW s, NEW f, NEW g,
         \A v \in V \ {u} : g[v] = f[v], f[u] = s, g[u] # s
  PROVE  /\ Cardinality({v \in V : g[v] = s}) \in Nat
         /\ Cardinality({v \in V : f[v] = s}) = Cardinality({v \in V : g[v] = s}) + 1
<1>1. \A v \in V \ {u} : f[v] = g[v]
  OBVIOUS
<1> QED
  BY <1>1, OneMore

\* Nobody comes to a side or leaves it.
LEMMA AsMany ==
  ASSUME NEW V, NEW s, NEW f, NEW g, \A v \in V : f[v] = s <=> g[v] = s
  PROVE  Cardinality({v \in V : g[v] = s}) = Cardinality({v \in V : f[v] = s})
<1>1. {v \in V : g[v] = s} = {v \in V : f[v] = s}
  OBVIOUS
<1> QED
  BY <1>1

\* Nobody has voted for a side.
LEMMA NoVotes ==
  ASSUME NEW V, NEW s, NEW f, \A v \in V : f[v] # s
  PROVE  Cardinality({v \in V : f[v] = s}) = 0
<1>1. {v \in V : f[v] = s} = {}
  OBVIOUS
<1> QED
  BY <1>1, FS_EmptySet

-----------------------------------------------------------------------------
Session ==
  /\ keyShare \in [Proposals -> SUBSET Requests]
  /\ rowLock \in [Proposals -> Requests \cup {None}]
  /\ voteLock \in [Proposals -> [Users -> Requests \cup {None}]]
  /\ at \in [Requests -> Statements]
  /\ target \in [Requests -> Targets]

Tables ==
  /\ proposals \subseteq Proposals
  /\ vote \in [Proposals -> [Users -> Votes]]
  /\ likes \in [Proposals -> Nat] /\ dislikes \in [Proposals -> Nat]

LEMMA TypeParts == TypeOK <=> Tables /\ Session
BY DEF TypeOK, Tables, Session

LEMMA InitIInv == Init => IInv
<1> SUFFICES ASSUME Init PROVE IInv
  OBVIOUS
<1> USE DEF Init
<1>1. TypeOK
  BY DEF TypeOK, Votes, Statements, Targets, NoTarget, Sides
<1>2. LockDiscipline /\ HeldRowsAreCurrent
  BY VotesAssumption DEF LockDiscipline, HeldRowsAreCurrent, P, U, NoTarget
<1>3. CountersMatchVotes
  <2> SUFFICES ASSUME NEW p \in Proposals
               PROVE  likes[p] = Tally(p, "yes") /\ dislikes[p] = Tally(p, "no")
    BY DEF CountersMatchVotes
  <2>1. ASSUME NEW side \in Sides
        PROVE  Tally(p, side) = 0
    <3>1. \A u \in Users : vote[p][u] # side
      BY DEF Sides
    <3> QED
      BY <3>1, NoVotes DEF Tally
  <2> QED
    BY <2>1 DEF Sides
<1>4. VotesGoWithProposal
  BY DEF VotesGoWithProposal
<1> QED
  BY <1>1, <1>2, <1>3, <1>4 DEF IInv

-----------------------------------------------------------------------------
\* The end of a transaction leaves the locks of the others as they were.
LEMMA FinishSession ==
  ASSUME Session, LockDiscipline, NEW r \in Requests, Finish(r)
  PROVE  Session' /\ LockDiscipline'
<1>1. Session'
  BY VotesAssumption DEF Session, Finish, Goto, Statements, Targets, NoTarget, Votes
<1>2. LockDiscipline'
  <2>1. /\ at' = [at EXCEPT ![r] = "idle"]
        /\ target' = [target EXCEPT ![r] = NoTarget]
    BY DEF Finish, Goto
  <2>2. ASSUME NEW q \in Requests, NEW p \in Proposals
        PROVE  /\ q \in keyShare'[p] <=> at'[q] = "count" /\ P(q)' = p
               /\ rowLock'[p] = q <=> at'[q] = "cascade" /\ P(q)' = p
               /\ \A u \in Users : voteLock'[p][u] = q <=>
                    at'[q] \in {"count", "recount"} /\ P(q)' = p /\ U(q)' = u
    <3>1. CASE q = r
      BY <2>1, <3>1, VotesAssumption DEF Session, Finish
    <3>2. CASE q # r
      BY <2>1, <3>2, VotesAssumption DEF Session, Finish, LockDiscipline, P, U
    <3> QED
      BY <3>1, <3>2
  <2>3. ASSUME NEW p \in Proposals, rowLock'[p] # None
        PROVE  keyShare'[p] = {}
    BY <2>3 DEF Finish, LockDiscipline
  <2>4. ASSUME NEW q \in Requests
        PROVE  /\ at'[q] # "idle" => P(q)' \in Proposals
               /\ at'[q] \in {"insert", "count", "flip", "recount"} =>
                    U(q)' \in Users /\ Side(q)' \in Sides
    BY <2>1 DEF Session, LockDiscipline, P, U, Side
  <2> QED
    BY <2>2, <2>3, <2>4 DEF LockDiscipline
<1> QED
  BY <1>1, <1>2

LEMMA RollbackIInv ==
  ASSUME IInv, NEW r \in Requests, Rollback(r)
  PROVE  IInv'
<1>1. Tables /\ Session /\ LockDiscipline
  BY TypeParts DEF IInv
<1>2. Finish(r) /\ UNCHANGED tables
  BY DEF Rollback
<1>3. TypeOK' /\ LockDiscipline'
  BY <1>1, <1>2, FinishSession DEF TypeOK, Tables, Session, tables
<1>4. HeldRowsAreCurrent'
  BY <1>1, <1>2 DEF IInv, HeldRowsAreCurrent, Finish, Goto, Session, tables, P, U, Side
<1>5. CountersMatchVotes' /\ VotesGoWithProposal'
  BY <1>2 DEF IInv, CountersMatchVotes, VotesGoWithProposal, Tally, tables
<1> QED
  BY <1>3, <1>4, <1>5 DEF IInv

\* A request that has read without a lock knows nothing yet.
LEMMA StartIInv ==
  ASSUME IInv, NEW r \in Requests, NEW stmt \in {"insert", "flip", "delete"},
         NEW t \in Targets, t.proposal \in Proposals,
         stmt # "delete" => t.user \in Users /\ t.side \in Sides,
         Start(r, stmt, t)
  PROVE  IInv'
<1>1. TypeOK /\ Session /\ LockDiscipline
  BY TypeParts DEF IInv
<1>2. /\ at[r] = "idle" /\ at' = [at EXCEPT ![r] = stmt]
      /\ target' = [target EXCEPT ![r] = t]
      /\ UNCHANGED <<tables, locks>>
  BY DEF Start, Goto
<1>3. TypeOK'
  BY <1>1, <1>2 DEF TypeOK, tables, locks, Statements
<1>4. LockDiscipline'
  <2>1. ASSUME NEW q \in Requests, NEW p \in Proposals
        PROVE  /\ q \in keyShare'[p] <=> at'[q] = "count" /\ P(q)' = p
               /\ rowLock'[p] = q <=> at'[q] = "cascade" /\ P(q)' = p
               /\ \A u \in Users : voteLock'[p][u] = q <=>
                    at'[q] \in {"count", "recount"} /\ P(q)' = p /\ U(q)' = u
    <3>1. CASE q = r
      BY <1>1, <1>2, <3>1 DEF Session, LockDiscipline, locks
    <3>2. CASE q # r
      BY <1>1, <1>2, <3>2 DEF Session, LockDiscipline, locks, P, U
    <3> QED
      BY <3>1, <3>2
  <2>2. ASSUME NEW q \in Requests
        PROVE  /\ at'[q] # "idle" => P(q)' \in Proposals
               /\ at'[q] \in {"insert", "count", "flip", "recount"} =>
                    U(q)' \in Users /\ Side(q)' \in Sides
    BY <1>1, <1>2 DEF Session, LockDiscipline, P, U, Side
  <2> QED
    BY <1>1, <1>2, <2>1, <2>2 DEF LockDiscipline, locks
<1>5. HeldRowsAreCurrent'
  BY <1>1, <1>2 DEF IInv, HeldRowsAreCurrent, Session, tables, P, U, Side
<1>6. CountersMatchVotes' /\ VotesGoWithProposal'
  BY <1>2 DEF IInv, CountersMatchVotes, VotesGoWithProposal, Tally, tables
<1> QED
  BY <1>3, <1>4, <1>5, <1>6 DEF IInv

-----------------------------------------------------------------------------
\* The statements that only take locks.
LEMMA VoteInsertIInv ==
  ASSUME IInv, NEW r \in Requests, VoteInsert(r)
  PROVE  IInv'
<1> DEFINE p == P(r)
           u == U(r)
<1>1. TypeOK /\ Session /\ LockDiscipline
  BY TypeParts DEF IInv
<1>2. at[r] = "insert" /\ VoteRowFree(r) /\ rowLock[p] = None
  BY DEF VoteInsert
<1>3. p \in Proposals /\ u \in Users /\ Side(r) \in Sides
  BY <1>1, <1>2 DEF LockDiscipline
<1>4. CASE Rollback(r)
  BY <1>4, RollbackIInv
<1>5. CASE /\ vote[p][u] = "none" /\ p \in proposals
           /\ voteLock' = [voteLock EXCEPT ![p][u] = r]
           /\ keyShare' = [keyShare EXCEPT ![p] = @ \cup {r}]
           /\ Goto(r, "count")
           /\ UNCHANGED <<tables, rowLock, target>>
  <2>1. at' = [at EXCEPT ![r] = "count"]
    BY <1>5 DEF Goto
  <2>2. TypeOK'
    BY <1>1, <1>3, <1>5, <2>1 DEF TypeOK, tables, Statements
  <2>3. voteLock[p][u] = None
    BY <1>1, <1>2, <1>3 DEF VoteRowFree, LockDiscipline, Session
  <2>4. LockDiscipline'
    <3>1. ASSUME NEW q \in Requests, NEW o \in Proposals
          PROVE  /\ q \in keyShare'[o] <=> at'[q] = "count" /\ P(q)' = o
                 /\ rowLock'[o] = q <=> at'[q] = "cascade" /\ P(q)' = o
                 /\ \A v \in Users : voteLock'[o][v] = q <=>
                      at'[q] \in {"count", "recount"} /\ P(q)' = o /\ U(q)' = v
      <4>1. q \in keyShare'[o] <=> at'[q] = "count" /\ P(q)' = o
        BY <1>1, <1>2, <1>3, <1>5, <2>1 DEF Session, LockDiscipline, P
      <4>2. rowLock'[o] = q <=> at'[q] = "cascade" /\ P(q)' = o
        BY <1>1, <1>2, <1>5, <2>1 DEF Session, LockDiscipline, P
      <4>3. ASSUME NEW v \in Users
            PROVE  voteLock'[o][v] = q <=>
                     at'[q] \in {"count", "recount"} /\ P(q)' = o /\ U(q)' = v
        <5>1. CASE q = r
          BY <1>1, <1>2, <1>3, <1>5, <2>1, <5>1 DEF Session, LockDiscipline, P, U
        <5>2. CASE q # r
          BY <1>1, <1>2, <1>3, <1>5, <2>1, <2>3, <5>2, VotesAssumption
             DEF Session, LockDiscipline, P, U
        <5> QED
          BY <5>1, <5>2
      <4> QED
        BY <4>1, <4>2, <4>3
    <3>2. ASSUME NEW o \in Proposals, rowLock'[o] # None
          PROVE  keyShare'[o] = {}
      BY <1>1, <1>2, <1>5, <3>2 DEF LockDiscipline, Session
    <3>3. ASSUME NEW q \in Requests
          PROVE  /\ at'[q] # "idle" => P(q)' \in Proposals
                 /\ at'[q] \in {"insert", "count", "flip", "recount"} =>
                      U(q)' \in Users /\ Side(q)' \in Sides
      BY <1>1, <1>2, <1>5, <2>1 DEF Session, LockDiscipline, P, U, Side
    <3> QED
      BY <3>1, <3>2, <3>3 DEF LockDiscipline
  <2>5. HeldRowsAreCurrent'
    BY <1>1, <1>5, <2>1 DEF IInv, HeldRowsAreCurrent, Session, tables, P, U, Side
  <2>6. CountersMatchVotes' /\ VotesGoWithProposal'
    BY <1>5 DEF IInv, CountersMatchVotes, VotesGoWithProposal, Tally, tables
  <2> QED
    BY <2>2, <2>4, <2>5, <2>6 DEF IInv
<1> QED
  BY <1>4, <1>5 DEF VoteInsert

LEMMA FlipVoteIInv ==
  ASSUME IInv, NEW r \in Requests, FlipVote(r)
  PROVE  IInv'
<1> DEFINE p == P(r)
           u == U(r)
<1>1. TypeOK /\ Session /\ LockDiscipline
  BY TypeParts DEF IInv
<1>2. at[r] = "flip" /\ VoteRowFree(r)
  BY DEF FlipVote
<1>3. p \in Proposals /\ u \in Users /\ Side(r) \in Sides
  BY <1>1, <1>2 DEF LockDiscipline
<1>4. CASE Rollback(r)
  BY <1>4, RollbackIInv
<1>5. CASE /\ vote[p][u] = Other(Side(r))
           /\ voteLock' = [voteLock EXCEPT ![p][u] = r]
           /\ Goto(r, "recount")
           /\ UNCHANGED <<tables, keyShare, rowLock, target>>
  <2>1. at' = [at EXCEPT ![r] = "recount"]
    BY <1>5 DEF Goto
  <2>2. TypeOK'
    BY <1>1, <1>3, <1>5, <2>1 DEF TypeOK, tables, Statements
  <2>3. voteLock[p][u] = None
    BY <1>1, <1>2, <1>3 DEF VoteRowFree, LockDiscipline, Session
  <2>4. p \in proposals
    BY <1>3, <1>5 DEF IInv, VotesGoWithProposal, Other, Sides
  <2>5. LockDiscipline'
    <3>1. ASSUME NEW q \in Requests, NEW o \in Proposals
          PROVE  /\ q \in keyShare'[o] <=> at'[q] = "count" /\ P(q)' = o
                 /\ rowLock'[o] = q <=> at'[q] = "cascade" /\ P(q)' = o
                 /\ \A v \in Users : voteLock'[o][v] = q <=>
                      at'[q] \in {"count", "recount"} /\ P(q)' = o /\ U(q)' = v
      <4>1. q \in keyShare'[o] <=> at'[q] = "count" /\ P(q)' = o
        BY <1>1, <1>2, <1>5, <2>1 DEF Session, LockDiscipline, P
      <4>2. rowLock'[o] = q <=> at'[q] = "cascade" /\ P(q)' = o
        BY <1>1, <1>2, <1>5, <2>1 DEF Session, LockDiscipline, P
      <4>3. ASSUME NEW v \in Users
            PROVE  voteLock'[o][v] = q <=>
                     at'[q] \in {"count", "recount"} /\ P(q)' = o /\ U(q)' = v
        <5>1. CASE q = r
          BY <1>1, <1>2, <1>3, <1>5, <2>1, <5>1 DEF Session, LockDiscipline, P, U
        <5>2. CASE q # r
          BY <1>1, <1>2, <1>3, <1>5, <2>1, <2>3, <5>2, VotesAssumption
             DEF Session, LockDiscipline, P, U
        <5> QED
          BY <5>1, <5>2
      <4> QED
        BY <4>1, <4>2, <4>3
    <3>2. ASSUME NEW q \in Requests
          PROVE  /\ at'[q] # "idle" => P(q)' \in Proposals
                 /\ at'[q] \in {"insert", "count", "flip", "recount"} =>
                      U(q)' \in Users /\ Side(q)' \in Sides
      BY <1>1, <1>2, <1>5, <2>1 DEF Session, LockDiscipline, P, U, Side
    <3> QED
      BY <1>1, <1>5, <3>1, <3>2 DEF LockDiscipline
  <2>6. HeldRowsAreCurrent'
    BY <1>1, <1>5, <2>1, <2>4 DEF IInv, HeldRowsAreCurrent, Session, tables, P, U, Side
  <2>7. CountersMatchVotes' /\ VotesGoWithProposal'
    BY <1>5 DEF IInv, CountersMatchVotes, VotesGoWithProposal, Tally, tables
  <2> QED
    BY <2>2, <2>5, <2>6, <2>7 DEF IInv
<1> QED
  BY <1>4, <1>5 DEF FlipVote

LEMMA DeleteProposalIInv ==
  ASSUME IInv, NEW r \in Requests, DeleteProposal(r)
  PROVE  IInv'
<1> DEFINE p == P(r)
<1>1. TypeOK /\ Session /\ LockDiscipline
  BY TypeParts DEF IInv
<1>2. at[r] = "delete" /\ rowLock[p] = None /\ keyShare[p] = {}
  BY DEF DeleteProposal
<1>3. CASE Rollback(r)
  BY <1>3, RollbackIInv
<1>4. CASE /\ p \in proposals
           /\ rowLock' = [rowLock EXCEPT ![p] = r]
           /\ Goto(r, "cascade")
           /\ UNCHANGED <<tables, keyShare, voteLock, target>>
  <2>1. at' = [at EXCEPT ![r] = "cascade"] /\ p \in Proposals
    BY <1>1, <1>4 DEF Goto, TypeOK
  <2>2. TypeOK'
    BY <1>1, <1>4, <2>1 DEF TypeOK, tables, Statements
  <2>3. LockDiscipline'
    <3>1. ASSUME NEW q \in Requests, NEW o \in Proposals
          PROVE  /\ q \in keyShare'[o] <=> at'[q] = "count" /\ P(q)' = o
                 /\ rowLock'[o] = q <=> at'[q] = "cascade" /\ P(q)' = o
                 /\ \A v \in Users : voteLock'[o][v] = q <=>
                      at'[q] \in {"count", "recount"} /\ P(q)' = o /\ U(q)' = v
      <4>1. rowLock'[o] = q <=> at'[q] = "cascade" /\ P(q)' = o
        BY <1>1, <1>2, <1>4, <2>1, VotesAssumption DEF Session, LockDiscipline, P
      <4> QED
        BY <1>1, <1>2, <1>4, <2>1, <4>1 DEF Session, LockDiscipline, P, U
    <3>2. ASSUME NEW o \in Proposals, rowLock'[o] # None
          PROVE  keyShare'[o] = {}
      BY <1>1, <1>2, <1>4, <3>2 DEF LockDiscipline, Session
    <3>3. ASSUME NEW q \in Requests
          PROVE  /\ at'[q] # "idle" => P(q)' \in Proposals
                 /\ at'[q] \in {"insert", "count", "flip", "recount"} =>
                      U(q)' \in Users /\ Side(q)' \in Sides
      BY <1>1, <1>2, <1>4, <2>1 DEF Session, LockDiscipline, P, U, Side
    <3> QED
      BY <3>1, <3>2, <3>3 DEF LockDiscipline
  <2>4. HeldRowsAreCurrent'
    BY <1>1, <1>4, <2>1 DEF IInv, HeldRowsAreCurrent, Session, tables, P, U, Side
  <2>5. CountersMatchVotes' /\ VotesGoWithProposal'
    BY <1>4 DEF IInv, CountersMatchVotes, VotesGoWithProposal, Tally, tables
  <2> QED
    BY <2>2, <2>3, <2>4, <2>5 DEF IInv
<1> QED
  BY <1>3, <1>4 DEF DeleteProposal

-----------------------------------------------------------------------------
\* The statements that end a transaction.  Writing the vote it holds the lock
\* of, a request disturbs nobody else's.
LEMMA WriteVote ==
  ASSUME IInv, NEW r \in Requests, at[r] \in {"count", "recount"},
         NEW p, NEW u, p = P(r), u = U(r),
         vote' = [vote EXCEPT ![p][u] = Side(r)],
         likes' \in [Proposals -> Nat], dislikes' \in [Proposals -> Nat],
         Finish(r), UNCHANGED proposals
  PROVE  /\ p \in proposals /\ u \in Users /\ Side(r) \in Sides
         /\ TypeOK' /\ LockDiscipline' /\ HeldRowsAreCurrent' /\ VotesGoWithProposal'
<1>1. Tables /\ Session /\ LockDiscipline
  BY TypeParts DEF IInv
<1>2. p \in proposals /\ p \in Proposals /\ u \in Users /\ Side(r) \in Sides
  BY <1>1 DEF IInv, LockDiscipline, HeldRowsAreCurrent
<1>3. Session' /\ LockDiscipline'
  BY <1>1, FinishSession
<1>4. TypeOK'
  BY <1>1, <1>2, <1>3 DEF TypeOK, Tables, Session, Votes
<1>5. HeldRowsAreCurrent'
  <2>1. /\ at' = [at EXCEPT ![r] = "idle"]
        /\ target' = [target EXCEPT ![r] = NoTarget]
    BY DEF Finish, Goto
  <2>2. ASSUME NEW q \in Requests, at'[q] # "idle"
        PROVE  q # r /\ at'[q] = at[q] /\ target'[q] = target[q]
    BY <1>1, <2>1, <2>2 DEF Session
  <2>3. ASSUME NEW q \in Requests, at'[q] \in {"count", "recount"}
        PROVE  /\ P(q) \in Proposals /\ U(q) \in Users
               /\ vote'[P(q)][U(q)] = vote[P(q)][U(q)]
    <3>1. q # r /\ at[q] \in {"count", "recount"}
      BY <2>2, <2>3
    <3>2. P(q) \in Proposals /\ U(q) \in Users
      BY <1>1, <3>1 DEF LockDiscipline
    <3>3. voteLock[P(q)][U(q)] = q /\ voteLock[p][u] = r
      BY <1>1, <1>2, <3>1, <3>2 DEF LockDiscipline
    <3> QED
      BY <1>1, <1>2, <3>1, <3>2, <3>3 DEF Tables
  <2> QED
    BY <2>2, <2>3 DEF IInv, HeldRowsAreCurrent, P, U, Side
<1>6. VotesGoWithProposal'
  BY <1>1, <1>2 DEF IInv, VotesGoWithProposal, Tables
<1> QED
  BY <1>2, <1>3, <1>4, <1>5, <1>6

LEMMA VoteCountIInv ==
  ASSUME IInv, NEW r \in Requests, VoteCount(r)
  PROVE  IInv'
<1> DEFINE p == P(r)
           u == U(r)
<1>1. Tables /\ Session /\ LockDiscipline /\ CountersMatchVotes /\ IsFiniteSet(Users)
  BY TypeParts, VotesAssumption DEF IInv
<1>2. /\ at[r] = "count" /\ vote' = [vote EXCEPT ![p][u] = Side(r)]
      /\ likes' = IF Side(r) = "yes" THEN [likes EXCEPT ![p] = @ + 1] ELSE likes
      /\ dislikes' = IF Side(r) = "no" THEN [dislikes EXCEPT ![p] = @ + 1] ELSE dislikes
      /\ Finish(r) /\ UNCHANGED proposals
  BY DEF VoteCount
<1>3. likes' \in [Proposals -> Nat] /\ dislikes' \in [Proposals -> Nat]
  <2>1. p \in Proposals /\ Side(r) \in Sides
    BY <1>1, <1>2 DEF LockDiscipline
  <2>2. CASE Side(r) = "yes"
    BY <1>1, <1>2, <2>1, <2>2 DEF Tables
  <2>3. CASE Side(r) = "no"
    BY <1>1, <1>2, <2>1, <2>3 DEF Tables
  <2> QED
    BY <2>1, <2>2, <2>3 DEF Sides
<1>4. /\ p \in proposals /\ u \in Users /\ Side(r) \in Sides
      /\ TypeOK' /\ LockDiscipline' /\ HeldRowsAreCurrent' /\ VotesGoWithProposal'
  BY <1>2, <1>3, WriteVote
<1>5. vote[p][u] = "none"
  BY <1>2 DEF IInv, HeldRowsAreCurrent
<1>6. CountersMatchVotes'
  <2>1. PICK o \in Proposals, w \in Users, s \in Sides : o = P(r) /\ w = U(r) /\ s = Side(r)
    BY <1>1, <1>4 DEF Tables
  <2>2. /\ \A x \in Users \ {w} : vote'[o][x] = vote[o][x]
        /\ vote[o][w] = "none" /\ vote'[o][w] = s
        /\ \A q \in Proposals : q # o => vote'[q] = vote[q]
    BY <1>1, <1>2, <1>5, <2>1 DEF Tables
  <2>3. /\ Tally(o, s) \in Nat
        /\ Cardinality({x \in Users : vote'[o][x] = s}) = Tally(o, s) + 1
    <3>1. vote[o][w] # s
      BY <2>2 DEF Sides
    <3> QED
      BY <1>1, <2>2, <3>1, OneMore DEF Tally
  <2>4. ASSUME NEW t \in Sides, t # s
        PROVE  Cardinality({x \in Users : vote'[o][x] = t}) = Tally(o, t)
    <3>1. \A x \in Users : vote[o][x] = t <=> vote'[o][x] = t
      BY <2>2, <2>4 DEF Sides
    <3> QED
      BY <3>1, AsMany DEF Tally
  <2>5. ASSUME NEW q \in Proposals
        PROVE  likes'[q] = Tally(q, "yes")' /\ dislikes'[q] = Tally(q, "no")'
    <3>1. likes[q] = Tally(q, "yes") /\ dislikes[q] = Tally(q, "no")
      BY <1>1 DEF CountersMatchVotes
    <3>2. CASE q # o
      BY <1>1, <1>2, <2>1, <2>2, <3>1, <3>2 DEF Tally, Tables
    <3>3. CASE q = o /\ s = "yes"
      BY <1>1, <1>2, <2>1, <2>3, <2>4, <3>1, <3>3 DEF Tally, Tables, Sides
    <3>4. CASE q = o /\ s = "no"
      BY <1>1, <1>2, <2>1, <2>3, <2>4, <3>1, <3>4 DEF Tally, Tables, Sides
    <3> QED
      BY <3>2, <3>3, <3>4 DEF Sides
  <2> QED
    BY <2>5 DEF CountersMatchVotes
<1> QED
  BY <1>4, <1>6 DEF IInv

LEMMA FlipCountIInv ==
  ASSUME IInv, NEW r \in Requests, FlipCount(r)
  PROVE  IInv'
<1> DEFINE p == P(r)
           u == U(r)
<1>1. Tables /\ Session /\ LockDiscipline /\ CountersMatchVotes /\ IsFiniteSet(Users)
  BY TypeParts, VotesAssumption DEF IInv
<1>2. /\ at[r] = "recount" /\ vote' = [vote EXCEPT ![p][u] = Side(r)]
      /\ IF Side(r) = "yes"
         THEN /\ likes' = [likes EXCEPT ![p] = @ + 1]
              /\ dislikes' = [dislikes EXCEPT ![p] = Decrement(@)]
         ELSE /\ dislikes' = [dislikes EXCEPT ![p] = @ + 1]
              /\ likes' = [likes EXCEPT ![p] = Decrement(@)]
      /\ Finish(r) /\ UNCHANGED proposals
  BY DEF FlipCount
<1>3. likes' \in [Proposals -> Nat] /\ dislikes' \in [Proposals -> Nat]
  BY <1>1, <1>2 DEF Tables, Decrement
<1>4. /\ p \in proposals /\ u \in Users /\ Side(r) \in Sides
      /\ TypeOK' /\ LockDiscipline' /\ HeldRowsAreCurrent' /\ VotesGoWithProposal'
  BY <1>2, <1>3, WriteVote
<1>5. vote[p][u] = Other(Side(r))
  BY <1>2 DEF IInv, HeldRowsAreCurrent
<1>6. CountersMatchVotes'
  <2>1. PICK o \in Proposals, w \in Users, s \in Sides, t \in Sides :
          o = P(r) /\ w = U(r) /\ s = Side(r) /\ t = Other(Side(r)) /\ s # t
    BY <1>1, <1>4 DEF Tables, Other, Sides
  <2>2. /\ \A x \in Users \ {w} : vote'[o][x] = vote[o][x]
        /\ vote[o][w] = t /\ vote'[o][w] = s
        /\ \A q \in Proposals : q # o => vote'[q] = vote[q]
    BY <1>1, <1>2, <1>5, <2>1 DEF Tables
  <2>3. /\ Tally(o, s) \in Nat
        /\ Cardinality({x \in Users : vote'[o][x] = s}) = Tally(o, s) + 1
    BY <1>1, <2>1, <2>2, OneMore DEF Tally
  <2>4. /\ Cardinality({x \in Users : vote'[o][x] = t}) \in Nat
        /\ Tally(o, t) = Cardinality({x \in Users : vote'[o][x] = t}) + 1
    BY <1>1, <2>1, <2>2, OneLess DEF Tally
  <2>5. ASSUME NEW q \in Proposals
        PROVE  likes'[q] = Tally(q, "yes")' /\ dislikes'[q] = Tally(q, "no")'
    <3>1. likes[q] = Tally(q, "yes") /\ dislikes[q] = Tally(q, "no")
      BY <1>1 DEF CountersMatchVotes
    <3>2. CASE q # o
      BY <1>1, <1>2, <2>1, <2>2, <3>1, <3>2 DEF Tally, Tables
    <3>3. CASE q = o /\ s = "yes"
      <4>1. t = "no" /\ likes'[o] = likes[o] + 1 /\ dislikes'[o] = Decrement(dislikes[o])
        BY <1>1, <1>2, <2>1, <3>3 DEF Tables, Sides
      <4>2. dislikes'[o] = Cardinality({x \in Users : vote'[o][x] = t})
        BY <2>4, <3>1, <3>3, <4>1 DEF Decrement
      <4> QED
        BY <2>3, <3>1, <3>3, <4>1, <4>2 DEF Tally
    <3>4. CASE q = o /\ s = "no"
      <4>1. t = "yes" /\ dislikes'[o] = dislikes[o] + 1 /\ likes'[o] = Decrement(likes[o])
        BY <1>1, <1>2, <2>1, <3>4 DEF Tables, Sides
      <4>2. likes'[o] = Cardinality({x \in Users : vote'[o][x] = t})
        BY <2>4, <3>1, <3>4, <4>1 DEF Decrement
      <4> QED
        BY <2>3, <3>1, <3>4, <4>1, <4>2 DEF Tally
    <3> QED
      BY <3>2, <3>3, <3>4 DEF Sides
  <2> QED
    BY <2>5 DEF CountersMatchVotes
<1> QED
  BY <1>4, <1>6 DEF IInv

\* A removal holds the row: nobody is about to count a vote on it, and nobody
\* holds a vote of it.
LEMMA CascadeVotesIInv ==
  ASSUME IInv, NEW r \in Requests, CascadeVotes(r)
  PROVE  IInv'
<1> DEFINE p == P(r)
<1>1. Tables /\ Session /\ LockDiscipline /\ CountersMatchVotes
  BY TypeParts DEF IInv
<1>2. /\ at[r] = "cascade" /\ \A u \in Users : voteLock[p][u] = None
      /\ proposals' = proposals \ {p}
      /\ vote' = [vote EXCEPT ![p] = [u \in Users |-> "none"]]
      /\ likes' = [likes EXCEPT ![p] = 0] /\ dislikes' = [dislikes EXCEPT ![p] = 0]
      /\ Finish(r)
  BY DEF CascadeVotes
<1>3. p \in proposals /\ p \in Proposals /\ rowLock[p] = r
  BY <1>1, <1>2 DEF IInv, LockDiscipline, HeldRowsAreCurrent
<1>4. TypeOK' /\ LockDiscipline'
  <2>1. Session' /\ LockDiscipline'
    BY <1>1, <1>2, FinishSession
  <2> QED
    BY <1>1, <1>2, <1>3, <2>1 DEF TypeOK, Tables, Session, Votes
<1>5. HeldRowsAreCurrent'
  <2>1. ASSUME NEW q \in Requests, at'[q] \in {"count", "recount", "cascade"}
        PROVE  at[q] = at'[q] /\ target'[q] = target[q] /\ P(q) \in Proposals /\ P(q) # p
    <3>1. q # r /\ at[q] = at'[q] /\ target'[q] = target[q]
      BY <1>1, <1>2, <2>1 DEF Finish, Goto, Session
    <3>2. CASE at[q] = "cascade"
      BY <1>1, <1>3, <3>1, <3>2 DEF LockDiscipline
    <3>3. CASE at[q] \in {"count", "recount"}
      <4>1. P(q) \in Proposals /\ U(q) \in Users /\ voteLock[P(q)][U(q)] = q
        BY <1>1, <3>3 DEF LockDiscipline
      <4> QED
        BY <1>2, <3>1, <4>1, VotesAssumption
    <3> QED
      BY <2>1, <3>1, <3>2, <3>3
  <2> QED
    BY <1>1, <1>2, <1>3, <2>1 DEF IInv, HeldRowsAreCurrent, Tables, P, U, Side
<1>6. VotesGoWithProposal'
  BY <1>1, <1>2, <1>3 DEF IInv, VotesGoWithProposal, Tables
<1>7. CountersMatchVotes'
  <2>1. PICK o \in Proposals : o = P(r)
    BY <1>3
  <2>2. ASSUME NEW q \in Proposals
        PROVE  likes'[q] = Tally(q, "yes")' /\ dislikes'[q] = Tally(q, "no")'
    <3>1. CASE q # o
      BY <1>1, <1>2, <2>1, <3>1 DEF CountersMatchVotes, Tally, Tables
    <3>2. CASE q = o
      <4>1. likes'[q] = 0 /\ dislikes'[q] = 0 /\ \A x \in Users : vote'[q][x] = "none"
        BY <1>1, <1>2, <2>1, <3>2 DEF Tables
      <4>2. \A x \in Users : vote'[q][x] # "yes"
        BY <4>1
      <4>3. \A x \in Users : vote'[q][x] # "no"
        BY <4>1
      <4>4. Cardinality({x \in Users : vote'[q][x] = "yes"}) = 0
        BY <4>2, NoVotes
      <4>5. Cardinality({x \in Users : vote'[q][x] = "no"}) = 0
        BY <4>3, NoVotes
      <4> QED
        BY <4>1, <4>4, <4>5 DEF Tally
    <3> QED
      BY <3>1, <3>2
  <2> QED
    BY <2>2 DEF CountersMatchVotes
<1> QED
  BY <1>4, <1>5, <1>6, <1>7 DEF IInv

-----------------------------------------------------------------------------
LEMMA NextIInv == IInv /\ [Next]_vars => IInv'
<1> SUFFICES ASSUME IInv, [Next]_vars PROVE IInv'
  OBVIOUS
<1>1. ASSUME NEW r \in Requests, NEW p \in Proposals, NEW u \in Users, NEW side \in Sides,
             VoteFind(r, p, u, side) \/ FlipFind(r, p, u, side)
      PROVE  IInv'
  <2> DEFINE t == [proposal |-> p, user |-> u, side |-> side]
  <2>1. t \in Targets
    BY DEF Targets, Votes
  <2>2. CASE VoteFind(r, p, u, side)
    BY <2>1, <2>2, StartIInv DEF VoteFind
  <2>3. CASE FlipFind(r, p, u, side)
    BY <2>1, <2>3, StartIInv DEF FlipFind
  <2> QED
    BY <1>1, <2>2, <2>3
<1>2. ASSUME NEW r \in Requests, NEW p \in Proposals, RemoveFind(r, p)
      PROVE  IInv'
  <2> DEFINE t == [proposal |-> p, user |-> None, side |-> "none"]
  <2>1. t \in Targets
    BY DEF Targets, Votes
  <2> QED
    BY <1>2, <2>1, StartIInv DEF RemoveFind
<1>3. ASSUME NEW r \in Requests, Step(r)
      PROVE  IInv'
  BY <1>3, VoteInsertIInv, VoteCountIInv, FlipVoteIInv, FlipCountIInv, DeleteProposalIInv,
     CascadeVotesIInv DEF Step
<1>4. ASSUME NEW r \in Requests, BreakDeadlock(r) \/ Abort(r)
      PROVE  IInv'
  BY <1>4, RollbackIInv DEF BreakDeadlock, Abort
<1>5. CASE UNCHANGED vars
  <2>1. TypeOK'
    BY <1>5 DEF IInv, TypeOK, vars, tables, locks
  <2>2. LockDiscipline'
    BY <1>5 DEF IInv, LockDiscipline, P, U, Side, vars, tables, locks
  <2>3. HeldRowsAreCurrent'
    BY <1>5 DEF IInv, HeldRowsAreCurrent, P, U, Side, vars, tables, locks
  <2>4. CountersMatchVotes' /\ VotesGoWithProposal'
    BY <1>5 DEF IInv, CountersMatchVotes, VotesGoWithProposal, Tally, vars, tables
  <2> QED
    BY <2>1, <2>2, <2>3, <2>4 DEF IInv
<1> QED
  BY <1>1, <1>2, <1>3, <1>4, <1>5 DEF Next

\* Every reachable state satisfies the invariant.
THEOREM Inductive == Spec => []IInv
<1>1. Init => IInv
  BY InitIInv
<1>2. IInv /\ [Next]_vars => IInv'
  BY NextIInv
<1> QED
  BY <1>1, <1>2, PTL DEF Spec

\* likes_count and dislikes_count equal the stored votes at every commit.
THEOREM CountersMatchVotesHolds == Spec => []CountersMatchVotes
<1>1. IInv => CountersMatchVotes
  BY DEF IInv
<1> QED
  BY <1>1, Inductive, PTL

\* No vote outlives its proposal.
THEOREM VotesGoWithProposalHolds == Spec => []VotesGoWithProposal
<1>1. IInv => VotesGoWithProposal
  BY DEF IInv
<1> QED
  BY <1>1, Inductive, PTL

-----------------------------------------------------------------------------
\* A step of the forum that writes one proposal's votes and counters is a
\* recorded step of its ballot: the counters it leaves are the count.
LEMMA RecordsVotes ==
  ASSUME IInv, IInv', NEW p \in Proposals, NEW box,
         vote' = [vote EXCEPT ![p] = box],
         \A q \in Proposals \ {p} : likes'[q] = likes[q] /\ dislikes'[q] = dislikes[q]
  PROVE  Promised!Record(p, box)
<1>1. /\ vote \in [Proposals -> [Users -> Votes]]
      /\ likes \in [Proposals -> Nat] /\ likes' \in [Proposals -> Nat]
      /\ dislikes \in [Proposals -> Nat] /\ dislikes' \in [Proposals -> Nat]
  BY DEF IInv, TypeOK
<1>2. vote'[p] = box
  BY <1>1
<1>3. likes'[p] = Tally(p, "yes")' /\ dislikes'[p] = Tally(p, "no")'
  BY DEF IInv, CountersMatchVotes
<1>4. likes'[p] = Promised!Count(box, "yes") /\ dislikes'[p] = Promised!Count(box, "no")
  <2>1. /\ likes'[p] = Cardinality({u \in Users : vote'[p][u] = "yes"})
        /\ dislikes'[p] = Cardinality({u \in Users : vote'[p][u] = "no"})
    BY <1>3 DEF Tally
  <2>2. /\ likes'[p] = Cardinality({u \in Users : box[u] = "yes"})
        /\ dislikes'[p] = Cardinality({u \in Users : box[u] = "no"})
    BY <1>2, <2>1
  <2> QED
    BY <2>2 DEF Promised!Count, Promised!Cardinality, Cardinality
<1>5. likes' = [likes EXCEPT ![p] = Promised!Count(box, "yes")]
  BY <1>1, <1>4
<1>6. dislikes' = [dislikes EXCEPT ![p] = Promised!Count(box, "no")]
  BY <1>1, <1>4
<1> QED
  BY <1>5, <1>6 DEF Promised!Record

LEMMA VoteCountIsCast ==
  ASSUME IInv, IInv', NEW r \in Requests, VoteCount(r)
  PROVE  Promised!Next
<1>1. TypeOK /\ LockDiscipline /\ HeldRowsAreCurrent
  BY DEF IInv
<1>2. at[r] = "count"
  BY DEF VoteCount
<1>3. PICK p \in Proposals, u \in Users, side \in Sides : p = P(r) /\ u = U(r) /\ side = Side(r)
  BY <1>1, <1>2 DEF LockDiscipline
<1>4. /\ vote' = [vote EXCEPT ![p][u] = side]
      /\ likes' = IF side = "yes" THEN [likes EXCEPT ![p] = @ + 1] ELSE likes
      /\ dislikes' = IF side = "no" THEN [dislikes EXCEPT ![p] = @ + 1] ELSE dislikes
      /\ UNCHANGED proposals
  BY <1>3 DEF VoteCount
<1>5. p \in proposals /\ vote[p][u] = "none"
  BY <1>1, <1>2, <1>3 DEF HeldRowsAreCurrent
<1>6. vote' = [vote EXCEPT ![p] = [vote[p] EXCEPT ![u] = side]]
  BY <1>4
<1>7. \A q \in Proposals \ {p} : likes'[q] = likes[q] /\ dislikes'[q] = dislikes[q]
  BY <1>1, <1>4 DEF TypeOK
<1>8. Promised!Record(p, [vote[p] EXCEPT ![u] = side])
  BY <1>6, <1>7, RecordsVotes
<1>9. Promised!Cast(p, u, side)
  BY <1>4, <1>5, <1>8 DEF Promised!Cast
<1> QED
  BY <1>9 DEF Promised!Next, Sides

LEMMA FlipCountIsChange ==
  ASSUME IInv, IInv', NEW r \in Requests, FlipCount(r)
  PROVE  Promised!Next
<1>1. TypeOK /\ LockDiscipline /\ HeldRowsAreCurrent
  BY DEF IInv
<1>2. at[r] = "recount"
  BY DEF FlipCount
<1>3. PICK p \in Proposals, u \in Users, side \in Sides : p = P(r) /\ u = U(r) /\ side = Side(r)
  BY <1>1, <1>2 DEF LockDiscipline
<1>4. /\ vote' = [vote EXCEPT ![p][u] = side]
      /\ IF side = "yes"
         THEN /\ likes' = [likes EXCEPT ![p] = @ + 1]
              /\ dislikes' = [dislikes EXCEPT ![p] = Decrement(@)]
         ELSE /\ dislikes' = [dislikes EXCEPT ![p] = @ + 1]
              /\ likes' = [likes EXCEPT ![p] = Decrement(@)]
      /\ UNCHANGED proposals
  BY <1>3 DEF FlipCount
<1>5. p \in proposals /\ vote[p][u] = Other(side)
  BY <1>1, <1>2, <1>3 DEF HeldRowsAreCurrent
<1>6. side = Promised!Other(vote[p][u]) /\ vote[p][u] # "none"
  BY <1>5 DEF Other, Promised!Other, Sides
<1>7. vote' = [vote EXCEPT ![p] = [vote[p] EXCEPT ![u] = Promised!Other(@)]]
  BY <1>4, <1>6
<1>8. \A q \in Proposals \ {p} : likes'[q] = likes[q] /\ dislikes'[q] = dislikes[q]
  BY <1>1, <1>4 DEF TypeOK
<1>9. Promised!Record(p, [vote[p] EXCEPT ![u] = Promised!Other(@)])
  BY <1>7, <1>8, RecordsVotes
<1>10. Promised!Change(p, u)
  BY <1>4, <1>5, <1>6, <1>9 DEF Promised!Change
<1> QED
  BY <1>10 DEF Promised!Next

LEMMA CascadeIsDiscard ==
  ASSUME IInv, NEW r \in Requests, CascadeVotes(r)
  PROVE  Promised!Next
<1>1. TypeOK /\ HeldRowsAreCurrent
  BY DEF IInv
<1>2. PICK p \in Proposals : p = P(r) /\ p \in proposals
  BY <1>1 DEF CascadeVotes, HeldRowsAreCurrent, TypeOK
<1>3. /\ proposals' = proposals \ {p}
      /\ vote' = [vote EXCEPT ![p] = [u \in Users |-> "none"]]
      /\ likes' = [likes EXCEPT ![p] = 0] /\ dislikes' = [dislikes EXCEPT ![p] = 0]
  BY <1>2 DEF CascadeVotes
<1>4. vote' = [b \in Proposals |-> IF b \in {p} THEN [v \in Users |-> "none"] ELSE vote[b]]
  BY <1>1, <1>3 DEF TypeOK
<1>5. likes' = [b \in Proposals |-> IF b \in {p} THEN 0 ELSE likes[b]]
  BY <1>1, <1>3 DEF TypeOK
<1>6. dislikes' = [b \in Proposals |-> IF b \in {p} THEN 0 ELSE dislikes[b]]
  BY <1>1, <1>3 DEF TypeOK
<1>7. Promised!Discard({p})
  BY <1>2, <1>3, <1>4, <1>5, <1>6 DEF Promised!Discard
<1> QED
  BY <1>7 DEF Promised!Next

LEMMA NextImplements == IInv /\ IInv' /\ [Next]_vars => [Promised!Next]_(Promised!vars)
<1> SUFFICES ASSUME IInv, IInv', [Next]_vars PROVE [Promised!Next]_(Promised!vars)
  OBVIOUS
<1>1. ASSUME UNCHANGED tables
      PROVE  UNCHANGED Promised!vars
  BY <1>1 DEF tables, Promised!vars
<1>2. ASSUME NEW r \in Requests, Step(r)
      PROVE  Promised!Next \/ UNCHANGED tables
  BY <1>2, VoteCountIsCast, FlipCountIsChange, CascadeIsDiscard
     DEF Step, VoteInsert, FlipVote, DeleteProposal, Rollback
<1>3. \/ UNCHANGED tables
      \/ \E r \in Requests : Step(r)
  BY DEF Next, VoteFind, FlipFind, RemoveFind, Start, BreakDeadlock, Abort, Rollback, vars
<1> QED
  BY <1>1, <1>2, <1>3

\* The forum keeps the promise of a ballot for every proposal.
THEOREM ImplementsBallotHolds == Spec => ImplementsBallot
<1>1. Init => Promised!Init
  BY DEF Init, Promised!Init
<1>2. IInv /\ IInv' /\ [Next]_vars => [Promised!Next]_(Promised!vars)
  BY NextImplements
<1> QED
  BY <1>1, <1>2, Inductive, PTL DEF Spec, ImplementsBallot, Promised!Spec

-----------------------------------------------------------------------------
Working == {r \in Requests : at[r] # "idle"}

\* The next statement of r waits for nobody: the guards of Step.
CanStep(r) ==
  \/ at[r] = "insert" /\ VoteRowFree(r) /\ rowLock[P(r)] = None
  \/ at[r] \in {"count", "recount"} /\ rowLock[P(r)] = None
  \/ at[r] = "flip" /\ VoteRowFree(r)
  \/ at[r] = "delete" /\ rowLock[P(r)] = None /\ keyShare[P(r)] = {}
  \/ at[r] = "cascade" /\ \A u \in Users : voteLock[P(r)][u] = None

\* It is in a cycle of two: the guard of BreakDeadlock.
InCycle(r) == \E q \in Requests : Deadlocked(q, r) \/ Deadlocked(r, q)

CanRun(r) == CanStep(r) \/ InCycle(r)

\* Who is waited for: a count waits for nobody, a flip that cannot go on is in a
\* cycle, and the cascade, the votes and the proposal wait for those two only.
LEMMA OneCanRun == IInv => (Working # {} => \E r \in Working : CanRun(r))
<1> SUFFICES ASSUME IInv, NEW r \in Working, \A q \in Working : ~CanRun(q) PROVE FALSE
  OBVIOUS
<1>1. TypeOK /\ LockDiscipline
  BY DEF IInv
<1>2. \A q \in Requests : at[q] \in Statements /\ (at[q] # "idle" => P(q) \in Proposals)
  BY <1>1 DEF TypeOK, LockDiscipline
<1>3. ASSUME NEW q \in Requests PROVE at[q] # "count"
  <2> SUFFICES ASSUME at[q] = "count" PROVE FALSE
    OBVIOUS
  <2>1. P(q) \in Proposals /\ q \in keyShare[P(q)]
    BY <1>1, <1>2 DEF LockDiscipline
  <2>2. rowLock[P(q)] = None
    BY <1>1, <2>1 DEF LockDiscipline
  <2> QED
    BY <2>2 DEF CanRun, CanStep, Working
<1>4. ASSUME NEW q \in Requests PROVE at[q] # "recount"
  <2> SUFFICES ASSUME at[q] = "recount" PROVE FALSE
    OBVIOUS
  <2>1. P(q) \in Proposals /\ rowLock[P(q)] # None
    BY <1>2 DEF CanRun, CanStep, Working
  <2>2. PICK s \in Requests : rowLock[P(q)] = s
    BY <1>1, <2>1 DEF TypeOK
  <2>3. at[s] = "cascade"
    BY <1>1, <2>1, <2>2 DEF LockDiscipline
  <2> QED
    BY <2>2, <2>3 DEF CanRun, CanStep, Working, InCycle, Deadlocked
<1>5. \A p \in Proposals, u \in Users : voteLock[p][u] = None
  BY <1>1, <1>3, <1>4 DEF LockDiscipline, TypeOK
<1>6. \A q \in Requests : at[q] # "cascade"
  BY <1>2, <1>5 DEF CanRun, CanStep, Working
<1>7. \A p \in Proposals : rowLock[p] = None /\ keyShare[p] = {}
  BY <1>1, <1>3, <1>6 DEF LockDiscipline, TypeOK
<1>8. at[r] \notin {"insert", "flip", "delete"}
  <2>1. P(r) \in Proposals /\ (at[r] \in {"insert", "flip"} => U(r) \in Users)
    BY <1>1, <1>2 DEF LockDiscipline, Working
  <2> QED
    BY <1>5, <1>7, <2>1 DEF CanRun, CanStep, VoteRowFree
<1> QED
  BY <1>2, <1>3, <1>4, <1>6, <1>8 DEF Statements, Working

\* The two of a cycle wait for each other, one for the vote, one for the proposal.
LEMMA CyclesWait == IInv => \A r \in Requests : InCycle(r) => ~CanStep(r)
<1> SUFFICES ASSUME IInv, NEW q \in Requests, NEW r \in Requests, Deadlocked(q, r)
             PROVE  ~CanStep(q) /\ ~CanStep(r)
  BY DEF InCycle
<1>1. /\ at[q] = "recount" /\ at[r] = "cascade" /\ rowLock[P(q)] = r
      /\ None \notin Requests
  BY VotesAssumption DEF Deadlocked
<1>2. P(q) \in Proposals /\ U(q) \in Users /\ P(r) = P(q)
  BY <1>1 DEF IInv, LockDiscipline
<1>3. voteLock[P(r)][U(q)] = q
  BY <1>1, <1>2 DEF IInv, LockDiscipline
<1> QED
  BY <1>1, <1>2, <1>3 DEF CanStep

\* Of the requests under way one waits for nobody or is in a cycle of two that
\* the deadlock detector breaks, although update and remove take the locks of a
\* vote and of its proposal in opposite orders: what RequestsDrain rests on.
THEOREM NeverAllWait == Spec => [](Working # {} => \E r \in Working : CanRun(r))
BY OneCanRun, Inductive, PTL

\* The deadlock detector rolls back nobody that would have gone on by itself.
THEOREM OnlyCyclesAreBroken == Spec => [](\A r \in Requests : InCycle(r) => ~CanStep(r))
BY CyclesWait, Inductive, PTL
=============================================================================
