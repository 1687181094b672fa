------------------------ MODULE ForumProposalsProofs ------------------------
(***************************************************************************)
(* The safety of ForumProposals for every set of proposals, contents,      *)
(* hashes and requests.                                                    *)
(***************************************************************************)
EXTENDS ForumProposals, FiniteSetTheorems, TLAPS

LEMMA InitIInv == Init => IInv
<1> SUFFICES ASSUME Init PROVE IInv
  OBVIOUS
<1> USE DEF Init
<1>1. TypeOK
  BY DEF TypeOK, Row, NoRow, Input, NoInput, Statements
<1>2. IdsAreFresh /\ LockDiscipline /\ HeldRowsAreCurrent
  BY DEF IdsAreFresh, LockDiscipline, HeldRowsAreCurrent
<1>3. OneActiveRevision /\ AlwaysARevision /\ NoOrphanContent
  BY DEF OneActiveRevision, AlwaysARevision, NoOrphanContent
<1> QED
  BY <1>1, <1>2, <1>3 DEF IInv

-----------------------------------------------------------------------------
\* Type correctness, one step per action.
LEMMA FinishTypeOK ==
  ASSUME TypeOK, NEW r \in Requests, Finish(r)
  PROVE  /\ rowLock' \in [Proposals -> Requests \cup {None}]
         /\ at' \in [Requests -> Statements]
         /\ proposal' \in [Requests -> Proposals \cup {None}]
         /\ content' \in [Requests -> Contents \cup {None}]
         /\ input' \in [Requests -> Input]
         /\ read' \in [Requests -> SUBSET Contents]
         /\ held' \in [Requests -> SUBSET Contents]
BY DEF TypeOK, Finish, Goto, Statements, Input, NoInput

LEMMA NewRowType ==
  ASSUME NEW p \in Proposals, NEW in \in Input
  PROVE  NewRow(p, in) \in Row
BY DEF NewRow, Row, Input

LEMMA RowUpdateType ==
  ASSUME NEW w \in Row
  PROVE  /\ [w EXCEPT !.revActive = FALSE] \in Row
         /\ \A h \in TxHashes \cup {None} :
              [w EXCEPT !.submitted = TRUE, !.txHash = h] \in Row
<1>1. [w EXCEPT !.revActive = FALSE] \in Row
  BY DEF Row
<1>2. ASSUME NEW h \in TxHashes \cup {None}
      PROVE  [w EXCEPT !.submitted = TRUE, !.txHash = h] \in Row
  <2> DEFINE v == [w EXCEPT !.submitted = TRUE]
  <2>1. v \in Row
    BY DEF Row
  <2>2. [v EXCEPT !.txHash = h] \in Row
    BY <2>1, <1>2 DEF Row
  <2> QED
    BY <2>2
<1> QED
  BY <1>1, <1>2

LEMMA RollbackTypeOK ==
  ASSUME TypeOK, NEW r \in Requests, Rollback(r)
  PROVE  TypeOK'
BY FinishTypeOK DEF Rollback, TypeOK, tables

LEMMA NextTypeOK == IInv /\ [Next]_vars => TypeOK'
<1> SUFFICES ASSUME IInv, [Next]_vars PROVE TypeOK'
  OBVIOUS
<1>0. TypeOK /\ IdsAreFresh /\ LockDiscipline /\ HeldRowsAreCurrent
  BY DEF IInv
<1>1. ASSUME NEW p \in Proposals, NEW c \in Contents, NEW in \in Body, Create(p, c, in)
      PROVE  TypeOK'
  <2>1. in \in Input
    BY DEF Body
  <2>2. NewRow(p, in) \in Row
    BY <2>1, NewRowType
  <2> QED
    BY <1>0, <1>1, <2>2 DEF TypeOK, Create, session
<1>2. ASSUME NEW r \in Requests, NEW p \in Proposals, NEW in \in Body, ReviseFind(r, p, in)
      PROVE  TypeOK'
  BY <1>0, <1>2 DEF TypeOK, ReviseFind, Goto, Statements, Body, tables
<1>3. ASSUME NEW r \in Requests, NEW c \in Contents, NEW h \in TxHashes, SubmitFind(r, c, h)
      PROVE  TypeOK'
  BY <1>0, <1>3 DEF TypeOK, SubmitFind, Goto, Statements, Input, tables
<1>4. ASSUME NEW r \in Requests, NEW p \in Proposals, RemoveFind(r, p)
      PROVE  TypeOK'
  BY <1>0, <1>4 DEF TypeOK, RemoveFind, Goto, Statements, tables
<1>5. ASSUME NEW r \in Requests, ReviseLock(r)
      PROVE  TypeOK'
  BY <1>0, <1>5 DEF TypeOK, ReviseLock, Goto, Statements, tables
<1>6. ASSUME NEW r \in Requests, ReviseCount(r)
      PROVE  TypeOK'
  <2>1. CASE SubmittedRevision(proposal[r])
    BY <1>0, <1>6, <2>1, RollbackTypeOK DEF ReviseCount
  <2>2. CASE ~SubmittedRevision(proposal[r])
    BY <1>0, <1>6, <2>2 DEF TypeOK, ReviseCount, Goto, Statements, tables
  <2> QED
    BY <2>1, <2>2
<1>7. ASSUME NEW r \in Requests, NEW c \in Contents, ReviseInsert(r, c)
      PROVE  TypeOK'
  <2>1. CASE proposal[r] \in proposals
    BY <1>0, <1>7, <2>1 DEF TypeOK, ReviseInsert, Goto, Statements
  <2>2. CASE proposal[r] \notin proposals
    BY <1>0, <1>7, <2>2, RollbackTypeOK DEF ReviseInsert
  <2> QED
    BY <2>1, <2>2
<1>8. ASSUME NEW r \in Requests, ReviseDeactivate(r)
      PROVE  TypeOK'
  BY <1>0, <1>8 DEF TypeOK, ReviseDeactivate, ContentsOf, Goto, Statements, tables
<1>9. ASSUME NEW r \in Requests, ReviseCommit(r)
      PROVE  TypeOK'
  <2>1. proposal[r] \in Proposals /\ content[r] \in Contents /\ input[r] \in Input
    BY <1>0, <1>9 DEF TypeOK, ReviseCommit, IdsAreFresh
  <2>2. NewRow(proposal[r], input[r]) \in Row
    BY <2>1, NewRowType
  <2>3. \A d \in Contents : [row[d] EXCEPT !.revActive = FALSE] \in Row
    BY <1>0, RowUpdateType DEF TypeOK
  <2>4. row' \in [Contents -> Row]
    BY <1>0, <1>9, <2>2, <2>3 DEF TypeOK, ReviseCommit
  <2> QED
    BY <1>0, <1>9, <2>1, <2>4, FinishTypeOK DEF TypeOK, ReviseCommit
<1>10. ASSUME NEW r \in Requests, SubmitUpdate(r)
       PROVE  TypeOK'
  <2> DEFINE c == content[r]
             h == input[r].txHash
  <2>1. h \in TxHashes \cup {None}
    BY <1>0 DEF TypeOK, Input
  <2>2. row' \in [Contents -> Row]
    BY <1>0, <1>10, <2>1, RowUpdateType DEF TypeOK, SubmitUpdate
  <2> QED
    BY <1>0, <1>10, <2>2, FinishTypeOK DEF TypeOK, SubmitUpdate
<1>11. ASSUME NEW r \in Requests, RemoveReadForks(r)
       PROVE  TypeOK'
  BY <1>0, <1>11 DEF TypeOK, RemoveReadForks, ContentsOf, Goto, Statements, tables
<1>12. ASSUME NEW r \in Requests, RemoveDelete(r)
       PROVE  TypeOK'
  <2>1. CASE proposal[r] \in proposals
    BY <1>0, <1>12, <2>1 DEF TypeOK, RemoveDelete, ContentsOf, Goto, Statements, tables
  <2>2. CASE proposal[r] \notin proposals
    BY <1>0, <1>12, <2>2, RollbackTypeOK DEF RemoveDelete
  <2> QED
    BY <2>1, <2>2
<1>13. ASSUME NEW r \in Requests, RemoveDeleteForks(r)
       PROVE  TypeOK'
  <2>1. NoRow \in Row
    BY DEF NoRow, Row
  <2> QED
    BY <1>0, <1>13, <2>1, FinishTypeOK DEF TypeOK, RemoveDeleteForks
<1>14. ASSUME NEW r \in Requests, Abort(r)
       PROVE  TypeOK'
  BY <1>0, <1>14, RollbackTypeOK DEF Abort
<1>15. CASE UNCHANGED vars
  BY <1>0, <1>15 DEF TypeOK, vars, tables, session
<1> QED
  BY <1>1, <1>2, <1>3, <1>4, <1>5, <1>6, <1>7, <1>8, <1>9, <1>10, <1>11,
     <1>12, <1>13, <1>14, <1>15 DEF Next, Step
-----------------------------------------------------------------------------
\* What the end of a request leaves alone: every other request, and its locks.
LEMMA FinishOthers ==
  ASSUME TypeOK, NEW r \in Requests, Finish(r)
  PROVE  /\ at'[r] = "idle" /\ held'[r] = {}
         /\ \A q \in Requests \ {r} :
              /\ at'[q] = at[q] /\ proposal'[q] = proposal[q] /\ content'[q] = content[q]
              /\ input'[q] = input[q] /\ held'[q] = held[q]
              /\ \A p \in Proposals : rowLock[p] = q => rowLock'[p] = q
BY DEF TypeOK, Finish, Goto

\* A step that changes no table keeps what the tables promise.
RowsOK == OneActiveRevision /\ AlwaysARevision /\ NoOrphanContent

LEMMA TablesUnchanged ==
  ASSUME RowsOK, UNCHANGED tables
  PROVE  RowsOK'
BY DEF RowsOK, OneActiveRevision, AlwaysARevision, NoOrphanContent, ContentsOf, Public, tables

LEMMA RollbackIInv ==
  ASSUME IInv, NEW r \in Requests, Rollback(r)
  PROVE  IdsAreFresh' /\ LockDiscipline' /\ HeldRowsAreCurrent' /\ RowsOK'
<1>0. TypeOK /\ IdsAreFresh /\ LockDiscipline /\ HeldRowsAreCurrent /\ RowsOK
  BY DEF IInv, RowsOK
<1>1. UNCHANGED tables /\ Finish(r)
  BY DEF Rollback
<1>2. IdsAreFresh'
  BY <1>0, <1>1, FinishOthers DEF IdsAreFresh, tables
<1>3. LockDiscipline'
  BY <1>0, <1>1, FinishOthers DEF LockDiscipline, IdsAreFresh, tables
<1>4. HeldRowsAreCurrent'
  BY <1>0, <1>1, FinishOthers DEF HeldRowsAreCurrent, ContentsOf, Public, tables
<1> QED
  BY <1>0, <1>1, <1>2, <1>3, <1>4, TablesUnchanged

LEMMA CreateIInv ==
  ASSUME IInv, NEW p \in Proposals, NEW c \in Contents, NEW in \in Body, Create(p, c, in)
  PROVE  IdsAreFresh' /\ LockDiscipline' /\ HeldRowsAreCurrent' /\ RowsOK'
<1>0. TypeOK /\ IdsAreFresh /\ LockDiscipline /\ HeldRowsAreCurrent /\ RowsOK
  BY DEF IInv, RowsOK
<1> USE DEF Create, session
<1>1. p \notin proposals /\ c \notin contents
  BY <1>0 DEF IdsAreFresh
<1>2. /\ row'[c] = NewRow(p, in)
      /\ \A d \in contents : row'[d] = row[d]
      /\ contents' = contents \cup {c} /\ proposals' = proposals \cup {p}
  BY <1>0, <1>1 DEF TypeOK
<1>3. NewRow(p, in).proposal = p /\ NewRow(p, in).revActive
  BY DEF NewRow
<1>4. \A d \in contents : row[d].proposal # p
  BY <1>0, <1>1 DEF RowsOK, NoOrphanContent
<1>5. \A q \in proposals : ContentsOf(q)' = ContentsOf(q)
  BY <1>0, <1>1, <1>2, <1>3 DEF ContentsOf
<1>6. IdsAreFresh'
  BY <1>0 DEF IdsAreFresh
<1>7. LockDiscipline'
  BY <1>0, <1>1 DEF LockDiscipline, IdsAreFresh
<1>8. HeldRowsAreCurrent'
  <2> SUFFICES ASSUME NEW r \in Requests
               PROVE  /\ at[r] \notin {"commit", "deleteForks"} => held[r] = {}
                      /\ at[r] = "deactivate" => ~input[r].isDraft
                      /\ at[r] = "commit" =>
                           /\ held[r] \subseteq ContentsOf(proposal[r])'
                           /\ input[r].isDraft => held[r] = {}
                           /\ ~input[r].isDraft =>
                                \A d \in ContentsOf(proposal[r])' : Public(d)' => d \in held[r]
                      /\ at[r] = "deleteForks" => held[r] = ContentsOf(proposal[r])'
    BY DEF HeldRowsAreCurrent
  <2>1. at[r] \in {"commit", "deleteForks"} =>
          ContentsOf(proposal[r])' = ContentsOf(proposal[r])
    BY <1>0, <1>5 DEF LockDiscipline
  <2>2. \A d \in contents : Public(d)' = Public(d)
    BY <1>2 DEF Public
  <2> QED
    BY <1>0, <2>1, <2>2 DEF HeldRowsAreCurrent, ContentsOf
<1>9. OneActiveRevision'
  BY <1>0, <1>1, <1>2, <1>3, <1>4 DEF RowsOK, OneActiveRevision, Public
<1>10. AlwaysARevision'
  <2>1. ASSUME NEW q \in proposals
        PROVE  \E d \in ContentsOf(q)' : row'[d].revActive
    BY <1>0, <1>2, <1>5, <2>1 DEF RowsOK, AlwaysARevision, ContentsOf
  <2>2. c \in ContentsOf(p)' /\ row'[c].revActive
    BY <1>2, <1>3 DEF ContentsOf
  <2> QED
    BY <1>2, <2>1, <2>2 DEF AlwaysARevision
<1>11. NoOrphanContent'
  BY <1>0, <1>2, <1>3 DEF RowsOK, NoOrphanContent
<1> QED
  BY <1>6, <1>7, <1>8, <1>9, <1>10, <1>11 DEF RowsOK
-----------------------------------------------------------------------------
\* The statements that read, wait or lock, and change no table.
LEMMA ReviseFindIInv ==
  ASSUME IInv, NEW r \in Requests, NEW p \in Proposals, NEW in \in Body, ReviseFind(r, p, in)
  PROVE  IdsAreFresh' /\ LockDiscipline' /\ HeldRowsAreCurrent' /\ RowsOK'
<1>0. TypeOK /\ IdsAreFresh /\ LockDiscipline /\ HeldRowsAreCurrent /\ RowsOK
  BY DEF IInv, RowsOK
<1> USE DEF ReviseFind, Goto, tables
<1>1. IdsAreFresh'
  BY <1>0 DEF TypeOK, IdsAreFresh
<1>2. LockDiscipline'
  BY <1>0 DEF TypeOK, LockDiscipline, IdsAreFresh
<1>3. HeldRowsAreCurrent'
  BY <1>0 DEF TypeOK, HeldRowsAreCurrent, ContentsOf, Public
<1>4. RowsOK'
  BY <1>0, TablesUnchanged
<1> QED
  BY <1>1, <1>2, <1>3, <1>4

LEMMA SubmitFindIInv ==
  ASSUME IInv, NEW r \in Requests, NEW c \in Contents, NEW h \in TxHashes, SubmitFind(r, c, h)
  PROVE  IdsAreFresh' /\ LockDiscipline' /\ HeldRowsAreCurrent' /\ RowsOK'
<1>0. TypeOK /\ IdsAreFresh /\ LockDiscipline /\ HeldRowsAreCurrent /\ RowsOK
  BY DEF IInv, RowsOK
<1> USE DEF SubmitFind, Goto, tables
<1>1. IdsAreFresh'
  BY <1>0 DEF TypeOK, IdsAreFresh
<1>2. LockDiscipline'
  BY <1>0 DEF TypeOK, LockDiscipline, IdsAreFresh
<1>3. HeldRowsAreCurrent'
  BY <1>0 DEF TypeOK, HeldRowsAreCurrent, ContentsOf, Public
<1>4. RowsOK'
  BY <1>0, TablesUnchanged
<1> QED
  BY <1>1, <1>2, <1>3, <1>4

LEMMA RemoveFindIInv ==
  ASSUME IInv, NEW r \in Requests, NEW p \in Proposals, RemoveFind(r, p)
  PROVE  IdsAreFresh' /\ LockDiscipline' /\ HeldRowsAreCurrent' /\ RowsOK'
<1>0. TypeOK /\ IdsAreFresh /\ LockDiscipline /\ HeldRowsAreCurrent /\ RowsOK
  BY DEF IInv, RowsOK
<1> USE DEF RemoveFind, Goto, tables
<1>1. IdsAreFresh'
  BY <1>0 DEF TypeOK, IdsAreFresh
<1>2. LockDiscipline'
  BY <1>0 DEF TypeOK, LockDiscipline, IdsAreFresh
<1>3. HeldRowsAreCurrent'
  BY <1>0 DEF TypeOK, HeldRowsAreCurrent, ContentsOf, Public
<1>4. RowsOK'
  BY <1>0, TablesUnchanged
<1> QED
  BY <1>1, <1>2, <1>3, <1>4

LEMMA ReviseLockIInv ==
  ASSUME IInv, NEW r \in Requests, ReviseLock(r)
  PROVE  IdsAreFresh' /\ LockDiscipline' /\ HeldRowsAreCurrent' /\ RowsOK'
<1>0. TypeOK /\ IdsAreFresh /\ LockDiscipline /\ HeldRowsAreCurrent /\ RowsOK
  BY DEF IInv, RowsOK
<1> USE DEF ReviseLock, Goto, tables
<1>1. IdsAreFresh'
  BY <1>0 DEF TypeOK, IdsAreFresh
<1>2. LockDiscipline'
  <2>1. ASSUME NEW q \in Requests \ {r}, proposal[q] \in proposals,
               at[q] \in {"count", "insert", "deactivate", "commit", "deleteForks"}
        PROVE  rowLock'[proposal[q]] = q
    <3>1. rowLock[proposal[q]] = q /\ q # None
      BY <1>0, <2>1, ProposalsAssumption DEF LockDiscipline
    <3> QED
      BY <1>0, <3>1 DEF TypeOK
  <2>2. proposal[r] \in proposals => rowLock'[proposal[r]] = r
    BY <1>0 DEF TypeOK
  <2> QED
    BY <1>0, <2>1, <2>2 DEF TypeOK, LockDiscipline
<1>3. HeldRowsAreCurrent'
  BY <1>0 DEF TypeOK, HeldRowsAreCurrent, ContentsOf, Public
<1>4. RowsOK'
  BY <1>0, TablesUnchanged
<1> QED
  BY <1>1, <1>2, <1>3, <1>4

LEMMA RemoveReadForksIInv ==
  ASSUME IInv, NEW r \in Requests, RemoveReadForks(r)
  PROVE  IdsAreFresh' /\ LockDiscipline' /\ HeldRowsAreCurrent' /\ RowsOK'
<1>0. TypeOK /\ IdsAreFresh /\ LockDiscipline /\ HeldRowsAreCurrent /\ RowsOK
  BY DEF IInv, RowsOK
<1> USE DEF RemoveReadForks, Goto, tables
<1>1. IdsAreFresh'
  BY <1>0 DEF TypeOK, IdsAreFresh
<1>2. LockDiscipline'
  BY <1>0 DEF TypeOK, LockDiscipline, IdsAreFresh
<1>3. HeldRowsAreCurrent'
  BY <1>0 DEF TypeOK, HeldRowsAreCurrent, ContentsOf, Public
<1>4. RowsOK'
  BY <1>0, TablesUnchanged
<1> QED
  BY <1>1, <1>2, <1>3, <1>4

LEMMA ReviseDeactivateIInv ==
  ASSUME IInv, NEW r \in Requests, ReviseDeactivate(r)
  PROVE  IdsAreFresh' /\ LockDiscipline' /\ HeldRowsAreCurrent' /\ RowsOK'
<1>0. TypeOK /\ IdsAreFresh /\ LockDiscipline /\ HeldRowsAreCurrent /\ RowsOK
  BY DEF IInv, RowsOK
<1> USE DEF ReviseDeactivate, Goto, tables
<1>1. IdsAreFresh'
  BY <1>0 DEF TypeOK, IdsAreFresh
<1>2. LockDiscipline'
  BY <1>0 DEF TypeOK, LockDiscipline, IdsAreFresh
<1>3. HeldRowsAreCurrent'
  BY <1>0 DEF TypeOK, HeldRowsAreCurrent, ContentsOf, Public
<1>4. RowsOK'
  BY <1>0, TablesUnchanged
<1> QED
  BY <1>1, <1>2, <1>3, <1>4

LEMMA ReviseCountIInv ==
  ASSUME IInv, NEW r \in Requests, ReviseCount(r)
  PROVE  IdsAreFresh' /\ LockDiscipline' /\ HeldRowsAreCurrent' /\ RowsOK'
<1>0. TypeOK /\ IdsAreFresh /\ LockDiscipline /\ HeldRowsAreCurrent /\ RowsOK
  BY DEF IInv, RowsOK
<1>1. CASE SubmittedRevision(proposal[r])
  BY <1>1, RollbackIInv DEF ReviseCount
<1>2. CASE ~SubmittedRevision(proposal[r])
  <2> USE <1>2 DEF ReviseCount, Goto, tables
  <2>1. IdsAreFresh'
    BY <1>0 DEF TypeOK, IdsAreFresh
  <2>2. LockDiscipline'
    BY <1>0 DEF TypeOK, LockDiscipline
  <2>3. HeldRowsAreCurrent'
    BY <1>0 DEF TypeOK, HeldRowsAreCurrent, ContentsOf, Public
  <2> QED
    BY <1>0, <2>1, <2>2, <2>3, TablesUnchanged
<1> QED
  BY <1>1, <1>2

LEMMA ReviseInsertIInv ==
  ASSUME IInv, NEW r \in Requests, NEW c \in Contents, ReviseInsert(r, c)
  PROVE  IdsAreFresh' /\ LockDiscipline' /\ HeldRowsAreCurrent' /\ RowsOK'
<1>0. TypeOK /\ IdsAreFresh /\ LockDiscipline /\ HeldRowsAreCurrent /\ RowsOK
  BY DEF IInv, RowsOK
<1>1. CASE proposal[r] \notin proposals
  BY <1>1, RollbackIInv DEF ReviseInsert
<1>2. CASE proposal[r] \in proposals
  <2> USE <1>2 DEF ReviseInsert, Goto
  <2>1. c \notin contents
    BY <1>0 DEF IdsAreFresh
  <2>2. IdsAreFresh'
    BY <1>0, <2>1 DEF TypeOK, IdsAreFresh
  <2>3. LockDiscipline'
    BY <1>0 DEF TypeOK, LockDiscipline
  <2>4. HeldRowsAreCurrent'
    BY <1>0 DEF TypeOK, HeldRowsAreCurrent, ContentsOf, Public
  <2>5. RowsOK'
    BY <1>0 DEF RowsOK, OneActiveRevision, AlwaysARevision, NoOrphanContent, ContentsOf, Public
  <2> QED
    BY <2>2, <2>3, <2>4, <2>5
<1> QED
  BY <1>1, <1>2

LEMMA RemoveDeleteIInv ==
  ASSUME IInv, NEW r \in Requests, RemoveDelete(r)
  PROVE  IdsAreFresh' /\ LockDiscipline' /\ HeldRowsAreCurrent' /\ RowsOK'
<1>0. TypeOK /\ IdsAreFresh /\ LockDiscipline /\ HeldRowsAreCurrent /\ RowsOK
  BY DEF IInv, RowsOK
<1>1. CASE proposal[r] \notin proposals
  BY <1>1, RollbackIInv DEF RemoveDelete
<1>2. CASE proposal[r] \in proposals
  <2> USE <1>2 DEF RemoveDelete, Goto, tables
  <2>1. IdsAreFresh'
    BY <1>0 DEF TypeOK, IdsAreFresh
  <2>2. LockDiscipline'
    <3>1. ASSUME NEW q \in Requests \ {r}, proposal[q] \in proposals,
                 at[q] \in {"count", "insert", "deactivate", "commit", "deleteForks"}
          PROVE  rowLock'[proposal[q]] = q
      <4>1. rowLock[proposal[q]] = q /\ q # None
        BY <1>0, <3>1, ProposalsAssumption DEF LockDiscipline
      <4>2. rowLock[proposal[r]] = None /\ rowLock' = [rowLock EXCEPT ![proposal[r]] = r]
        OBVIOUS
      <4>3. proposal[q] # proposal[r] /\ rowLock \in [Proposals -> Requests \cup {None}]
        BY <1>0, <4>1, <4>2 DEF TypeOK
      <4> HIDE DEF RemoveDelete, Goto
      <4> QED
        BY <1>0, <3>1, <4>1, <4>2, <4>3 DEF TypeOK
    <3>2. rowLock'[proposal[r]] = r
      BY <1>0 DEF TypeOK
    <3> QED
      BY <1>0, <3>1, <3>2 DEF TypeOK, LockDiscipline
  <2>3. HeldRowsAreCurrent'
    BY <1>0 DEF TypeOK, HeldRowsAreCurrent, ContentsOf, Public
  <2> QED
    BY <1>0, <2>1, <2>2, <2>3, TablesUnchanged
<1> QED
  BY <1>1, <1>2

-----------------------------------------------------------------------------
\* The statements that change the tables.

\* While one request owns a proposal's row from its FOR UPDATE on, no other
\* request is at work on that proposal.
LEMMA OneOwner ==
  ASSUME TypeOK, LockDiscipline, NEW q \in Requests, NEW r \in Requests,
         at[q] \in {"deactivate", "commit", "deleteForks"},
         at[r] \in {"deactivate", "commit", "deleteForks"},
         proposal[q] = proposal[r]
  PROVE  q = r
BY DEF LockDiscipline

LEMMA SubmitUpdateIInv ==
  ASSUME IInv, NEW r \in Requests, SubmitUpdate(r)
  PROVE  IdsAreFresh' /\ LockDiscipline' /\ HeldRowsAreCurrent' /\ RowsOK'
<1>0. TypeOK /\ IdsAreFresh /\ LockDiscipline /\ HeldRowsAreCurrent /\ RowsOK
  BY DEF IInv, RowsOK
<1> USE DEF SubmitUpdate
<1>1. \A d \in Contents : /\ row'[d].proposal = row[d].proposal
                          /\ row'[d].isDraft = row[d].isDraft
                          /\ row'[d].revActive = row[d].revActive
  BY <1>0 DEF TypeOK, Row
<1>2. /\ \A p : ContentsOf(p)' = ContentsOf(p)
      /\ \A d \in contents : Public(d)' = Public(d)
  BY <1>0, <1>1 DEF TypeOK, ContentsOf, Public
<1>3. IdsAreFresh'
  BY <1>0, FinishOthers DEF IdsAreFresh
<1>4. LockDiscipline'
  BY <1>0, FinishOthers DEF LockDiscipline, IdsAreFresh
<1>5. HeldRowsAreCurrent'
  BY <1>0, <1>2, FinishOthers DEF HeldRowsAreCurrent, ContentsOf
<1>6. RowsOK'
  BY <1>0, <1>1, <1>2
     DEF TypeOK, RowsOK, OneActiveRevision, AlwaysARevision, NoOrphanContent, ContentsOf
<1> QED
  BY <1>3, <1>4, <1>5, <1>6

LEMMA RemoveDeleteForksIInv ==
  ASSUME IInv, NEW r \in Requests, RemoveDeleteForks(r)
  PROVE  IdsAreFresh' /\ LockDiscipline' /\ HeldRowsAreCurrent' /\ RowsOK'
<1>0. TypeOK /\ IdsAreFresh /\ LockDiscipline /\ HeldRowsAreCurrent /\ RowsOK
  BY DEF IInv, RowsOK
<1> DEFINE p == proposal[r]
<1> USE DEF RemoveDeleteForks
<1>1. held[r] = ContentsOf(p) /\ p \in proposals
  BY <1>0 DEF HeldRowsAreCurrent, LockDiscipline
<1>2. /\ contents' = contents \ ContentsOf(p)
      /\ \A d \in contents' : row'[d] = row[d] /\ row[d].proposal # p
  BY <1>0, <1>1 DEF TypeOK, ContentsOf
<1>3. \A q \in proposals' : ContentsOf(q)' = ContentsOf(q)
  BY <1>2 DEF ContentsOf
<1>4. \A d \in contents' : Public(d)' = Public(d)
  BY <1>2 DEF Public
<1>5. IdsAreFresh'
  BY <1>0, <1>2, FinishOthers DEF IdsAreFresh
<1>6. \A q \in Requests \ {r} :
        at[q] \in {"deactivate", "commit", "deleteForks"} =>
          proposal[q] # p /\ proposal[q] \in proposals'
  BY <1>0, OneOwner DEF LockDiscipline
<1>7. LockDiscipline'
  BY <1>0, <1>6, FinishOthers DEF LockDiscipline, IdsAreFresh
<1>8. HeldRowsAreCurrent'
  BY <1>0, <1>3, <1>4, <1>6, FinishOthers DEF HeldRowsAreCurrent, ContentsOf
<1>9. RowsOK'
  <2>1. OneActiveRevision'
    BY <1>0, <1>2, <1>4 DEF RowsOK, OneActiveRevision
  <2>2. AlwaysARevision'
    BY <1>0, <1>2, <1>3 DEF RowsOK, AlwaysARevision, ContentsOf
  <2>3. NoOrphanContent'
    BY <1>0, <1>2 DEF RowsOK, NoOrphanContent
  <2> QED
    BY <2>1, <2>2, <2>3 DEF RowsOK
<1> QED
  BY <1>5, <1>7, <1>8, <1>9

LEMMA ReviseCommitIInv ==
  ASSUME IInv, NEW r \in Requests, ReviseCommit(r)
  PROVE  IdsAreFresh' /\ LockDiscipline' /\ HeldRowsAreCurrent' /\ RowsOK'
<1>0. TypeOK /\ IdsAreFresh /\ LockDiscipline /\ HeldRowsAreCurrent /\ RowsOK
  BY DEF IInv, RowsOK
<1> PICK p, c : p = proposal[r] /\ c = content[r]
  OBVIOUS
<1> USE DEF ReviseCommit
<1>1. /\ p \in proposals
      /\ c \in Contents /\ c \in used /\ c \notin contents
      /\ held[r] \subseteq ContentsOf(p)
  BY <1>0 DEF IdsAreFresh, LockDiscipline, HeldRowsAreCurrent
<1>2. /\ row'[c] = NewRow(p, input[r])
      /\ contents' = contents \cup {c} /\ proposals' = proposals
      /\ \A d \in contents \ held[r] : row'[d] = row[d]
  BY <1>0, <1>1 DEF TypeOK
<1>3. \A d \in held[r] : ~row'[d].revActive /\ row'[d].proposal = p
  <2> SUFFICES ASSUME NEW d \in held[r] PROVE ~row'[d].revActive /\ row'[d].proposal = p
    OBVIOUS
  <2>1. d \in Contents /\ d # c /\ row[d].proposal = p /\ row[d] \in Row
    BY <1>0, <1>1 DEF TypeOK, ContentsOf
  <2>2. row'[d] = [row[d] EXCEPT !.revActive = FALSE]
    BY <2>1
  <2>3. \A w \in Row : LET v == [w EXCEPT !.revActive = FALSE]
                        IN  ~v.revActive /\ v.proposal = w.proposal
    BY DEF Row
  <2> QED
    BY <2>1, <2>2, <2>3
<1>4. /\ NewRow(p, input[r]).proposal = p /\ NewRow(p, input[r]).revActive
      /\ NewRow(p, input[r]).isDraft = input[r].isDraft
  BY DEF NewRow
<1>5. \A d \in contents : row'[d].proposal = row[d].proposal
  BY <1>1, <1>2, <1>3 DEF ContentsOf
<1>6. \A q \in Proposals \ {p} : ContentsOf(q)' = ContentsOf(q)
  <2>1. row'[c].proposal = p
    BY <1>2, <1>4
  <2> HIDE DEF ReviseCommit
  <2> QED
    BY <1>2, <1>5, <2>1 DEF ContentsOf
<1>7. \A d \in contents : Public(d)' => Public(d)
  BY <1>1, <1>2, <1>3 DEF Public
<1>8. \A d \in contents : row[d].proposal # p => row'[d] = row[d]
  BY <1>1, <1>2 DEF ContentsOf
<1>9. IdsAreFresh'
  BY <1>0, <1>1, <1>2, FinishOthers DEF IdsAreFresh
<1>10. LockDiscipline'
  BY <1>0, FinishOthers DEF LockDiscipline, IdsAreFresh
<1>11. \A q \in Requests \ {r} :
         at[q] \in {"deactivate", "commit", "deleteForks"} =>
           proposal[q] # p /\ proposal[q] \in Proposals
  BY <1>0, OneOwner DEF LockDiscipline, IdsAreFresh
<1>12. HeldRowsAreCurrent'
  <2>1. Finish(r)
    OBVIOUS
  <2>2. ASSUME NEW q \in Requests \ {r}, at[q] \in {"deactivate", "commit", "deleteForks"}
        PROVE  /\ ContentsOf(proposal[q])' = ContentsOf(proposal[q])
               /\ \A d \in ContentsOf(proposal[q]) : Public(d)' => Public(d)
    BY <1>6, <1>7, <1>11, <2>1, <2>2, <1>0, FinishOthers DEF ContentsOf
  <2> HIDE DEF ReviseCommit
  <2> QED
    BY <1>0, <2>1, <2>2, FinishOthers DEF HeldRowsAreCurrent
<1>13. OneActiveRevision'
  <2>1. ASSUME NEW d \in contents', NEW e \in contents', Public(d)', Public(e)',
               row'[d].proposal = row'[e].proposal
        PROVE  d = e
    <3>1. CASE d \in contents /\ e \in contents
      BY <1>0, <1>5, <1>7, <2>1, <3>1 DEF RowsOK, OneActiveRevision
    <3>2. ASSUME NEW x \in contents, Public(x)', row'[x].proposal = p, Public(c)'
          PROVE  FALSE
      <4>1. ~input[r].isDraft
        BY <1>2, <1>4, <3>2 DEF Public
      <4>2. x \in ContentsOf(p) /\ Public(x)
        BY <1>5, <1>7, <3>2 DEF ContentsOf
      <4>3. x \in held[r]
        BY <1>0, <4>1, <4>2 DEF HeldRowsAreCurrent
      <4> QED
        BY <1>3, <4>3, <3>2 DEF Public
    <3> QED
      BY <1>2, <1>4, <2>1, <3>1, <3>2
  <2> QED
    BY <2>1 DEF OneActiveRevision
<1>14. AlwaysARevision'
  <2>1. c \in ContentsOf(p)' /\ row'[c].revActive
    BY <1>2, <1>4 DEF ContentsOf
  <2>2. ASSUME NEW q \in proposals, q # p
        PROVE  \E d \in ContentsOf(q)' : row'[d].revActive
    <3>1. PICK d \in ContentsOf(q) : row[d].revActive
      BY <1>0 DEF RowsOK, AlwaysARevision
    <3>2. d \in ContentsOf(q)' /\ row'[d] = row[d]
      BY <1>0, <1>6, <1>8, <2>2, <3>1 DEF TypeOK, ContentsOf
    <3> QED
      BY <3>1, <3>2
  <2> QED
    BY <1>2, <2>1, <2>2 DEF AlwaysARevision
<1>15. NoOrphanContent'
  BY <1>0, <1>1, <1>2, <1>4, <1>5 DEF RowsOK, NoOrphanContent
<1> QED
  BY <1>9, <1>10, <1>12, <1>13, <1>14, <1>15 DEF RowsOK

-----------------------------------------------------------------------------
LEMMA NextIInv == IInv /\ [Next]_vars => IInv'
<1> SUFFICES ASSUME IInv, [Next]_vars PROVE IInv'
  OBVIOUS
<1>1. TypeOK'
  BY NextTypeOK
<1>2. IdsAreFresh' /\ LockDiscipline' /\ HeldRowsAreCurrent' /\ RowsOK'
  <2>1. ASSUME NEW r \in Requests, Step(r) \/ Abort(r)
        PROVE  IdsAreFresh' /\ LockDiscipline' /\ HeldRowsAreCurrent' /\ RowsOK'
    BY <2>1, ReviseLockIInv, ReviseCountIInv, ReviseInsertIInv, ReviseDeactivateIInv,
       ReviseCommitIInv, SubmitUpdateIInv, RemoveReadForksIInv, RemoveDeleteIInv,
       RemoveDeleteForksIInv, RollbackIInv DEF Step, Abort
  <2>2. CASE UNCHANGED vars
    <3>1. UNCHANGED tables
      BY <2>2 DEF vars
    <3> QED
      BY <2>2, <3>1, TablesUnchanged
         DEF IInv, RowsOK, vars, tables, session, IdsAreFresh, LockDiscipline,
             HeldRowsAreCurrent, ContentsOf, Public
  <2> QED
    BY <2>1, <2>2, CreateIInv, ReviseFindIInv, SubmitFindIInv, RemoveFindIInv DEF Next
<1> QED
  BY <1>1, <1>2 DEF IInv, RowsOK

\* The strengthened invariant holds in every reachable state.
THEOREM Inductive == Spec => []IInv
BY InitIInv, NextIInv, PTL DEF Spec

\* createContent's promise for any number of requests: however revisions,
\* submissions, removals and failed requests interleave, a proposal has at
\* most one public revision.
THEOREM OneActiveRevisionHolds == Spec => []OneActiveRevision
<1>1. IInv => OneActiveRevision
  BY DEF IInv
<1> QED
  BY <1>1, Inductive, PTL

\* A proposal that exists always has an active revision: findOne never shows
\* a proposal without content.
THEOREM AlwaysARevisionHolds == Spec => []AlwaysARevision
<1>1. IInv => AlwaysARevision
  BY DEF IInv
<1> QED
  BY <1>1, Inductive, PTL

\* No content outlives its proposal, although createContent goes on after its
\* FOR UPDATE found no row.
THEOREM NoOrphanContentHolds == Spec => []NoOrphanContent
<1>1. IInv => NoOrphanContent
  BY DEF IInv
<1> QED
  BY <1>1, Inductive, PTL

-----------------------------------------------------------------------------
\* The steps that change committed proposals or contents are four.
LEMMA WritingSteps ==
  ASSUME [Next]_vars, ~UNCHANGED <<proposals, contents, row>>
  PROVE  \/ \E p \in Proposals, c \in Contents, in \in Body : Create(p, c, in)
         \/ \E r \in Requests : ReviseCommit(r) \/ SubmitUpdate(r) \/ RemoveDeleteForks(r)
BY DEF Next, Step, Abort, Rollback, vars, tables, ReviseFind, SubmitFind, RemoveFind,
       ReviseLock, ReviseCount, ReviseInsert, ReviseDeactivate, RemoveReadForks, RemoveDelete

\* No step hides the public revision of a proposal that stays.
THEOREM PublishedStaysPublishedHolds == Spec => PublishedStaysPublished
<1>1. ASSUME IInv, [Next]_vars, NEW p \in proposals \cap proposals', Published(p)
      PROVE  Published(p)'
  <2>0. TypeOK /\ IdsAreFresh /\ LockDiscipline /\ HeldRowsAreCurrent /\ NoOrphanContent
    BY <1>1 DEF IInv
  <2>1. PICK d \in ContentsOf(p) : Public(d)
    BY <1>1 DEF Published
  <2>2. ASSUME d \in contents', row'[d].proposal = p, row'[d].revActive, ~row'[d].isDraft
        PROVE  Published(p)'
    BY <2>2 DEF Published, ContentsOf, Public
  <2>3. d \in contents /\ d \in Contents /\ row[d].proposal = p
        /\ row[d].revActive /\ ~row[d].isDraft
    BY <2>0, <2>1 DEF TypeOK, ContentsOf, Public
  <2>4. CASE UNCHANGED <<proposals, contents, row>>
    BY <2>2, <2>3, <2>4
  <2>5. ASSUME NEW q \in Proposals, NEW c \in Contents, NEW in \in Body, Create(q, c, in)
        PROVE  Published(p)'
    <3>1. d # c
      BY <2>0, <2>3, <2>5 DEF Create, IdsAreFresh
    <3> QED
      BY <2>0, <2>2, <2>3, <2>5, <3>1 DEF Create, TypeOK
  <2>6. ASSUME NEW r \in Requests, ReviseCommit(r)
        PROVE  Published(p)'
    <3> PICK c : c = content[r]
      OBVIOUS
    <3>1. c \in Contents \ contents /\ d # c /\ contents' = contents \cup {c}
          /\ row'[c] = NewRow(proposal[r], input[r])
      BY <2>0, <2>3, <2>6 DEF ReviseCommit, IdsAreFresh, TypeOK
    <3>2. CASE d \notin held[r]
      BY <2>0, <2>2, <2>3, <2>6, <3>1, <3>2 DEF ReviseCommit, TypeOK
    <3>3. CASE d \in held[r]
      <4>1. proposal[r] = p /\ ~input[r].isDraft
        BY <2>0, <2>3, <2>6, <3>3 DEF ReviseCommit, HeldRowsAreCurrent, ContentsOf
      <4>2. c \in contents' /\ row'[c].proposal = p /\ row'[c].revActive /\ ~row'[c].isDraft
        BY <3>1, <4>1 DEF NewRow
      <4> QED
        BY <4>2 DEF Published, ContentsOf, Public
    <3> QED
      BY <3>2, <3>3
  <2>7. ASSUME NEW r \in Requests, SubmitUpdate(r)
        PROVE  Published(p)'
    <3>1. row'[d].proposal = row[d].proposal /\ row'[d].isDraft = row[d].isDraft
          /\ row'[d].revActive = row[d].revActive
      BY <2>0, <2>3, <2>7 DEF SubmitUpdate, TypeOK, Row
    <3> QED
      BY <2>2, <2>3, <2>7, <3>1 DEF SubmitUpdate
  <2>8. ASSUME NEW r \in Requests, RemoveDeleteForks(r)
        PROVE  Published(p)'
    <3>1. d \notin held[r]
      BY <1>1, <2>0, <2>3, <2>8 DEF RemoveDeleteForks, HeldRowsAreCurrent, ContentsOf
    <3> QED
      BY <2>2, <2>3, <2>8, <3>1 DEF RemoveDeleteForks
  <2> QED
    BY <1>1, <2>4, <2>5, <2>6, <2>7, <2>8, WritingSteps
<1>2. IInv /\ [Next]_vars =>
        [\A p \in proposals \cap proposals' : Published(p) => Published(p)']_vars
  BY <1>1
<1> QED
  BY <1>2, Inductive, PTL DEF Spec, PublishedStaysPublished

\* An accepted submission is neither undone nor given another hash.
THEOREM SubmissionStandsHolds == Spec => SubmissionStands
<1>1. ASSUME IInv, [Next]_vars, NEW c \in contents \cap contents', row[c].submitted
      PROVE  row'[c].submitted /\ row'[c].txHash = row[c].txHash
  <2>0. TypeOK /\ IdsAreFresh /\ HeldRowsAreCurrent /\ c \in Contents
    BY <1>1 DEF IInv, TypeOK
  <2>1. CASE UNCHANGED <<proposals, contents, row>>
    BY <1>1, <2>1
  <2>2. ASSUME NEW p \in Proposals, NEW d \in Contents, NEW in \in Body, Create(p, d, in)
        PROVE  row'[c] = row[c]
    BY <1>1, <2>0, <2>2 DEF Create, IdsAreFresh, TypeOK
  <2>3. ASSUME NEW r \in Requests, ReviseCommit(r)
        PROVE  row'[c].submitted /\ row'[c].txHash = row[c].txHash
    <3>1. c # content[r]
      BY <1>1, <2>0, <2>3 DEF ReviseCommit, IdsAreFresh
    <3>2. row'[c] = row[c] \/ row'[c] = [row[c] EXCEPT !.revActive = FALSE]
      BY <2>0, <2>3, <3>1 DEF ReviseCommit
    <3>3. row[c] \in Row
      BY <2>0 DEF TypeOK
    <3> QED
      BY <1>1, <3>2, <3>3 DEF Row
  <2>4. ASSUME NEW r \in Requests, SubmitUpdate(r)
        PROVE  row'[c] = row[c]
    BY <1>1, <2>0, <2>4 DEF SubmitUpdate, Submittable, TypeOK
  <2>5. ASSUME NEW r \in Requests, RemoveDeleteForks(r)
        PROVE  row'[c] = row[c]
    BY <1>1, <2>0, <2>5 DEF RemoveDeleteForks
  <2> QED
    BY <1>1, <2>1, <2>2, <2>3, <2>4, <2>5, WritingSteps
<1>2. IInv /\ [Next]_vars =>
        [\A c \in contents \cap contents' :
           row[c].submitted => row'[c].submitted /\ row'[c].txHash = row[c].txHash]_vars
  BY <1>1
<1> QED
  BY <1>2, Inductive, PTL DEF Spec, SubmissionStands
-----------------------------------------------------------------------------
\* The view a reader is promised.  A transaction hash is only ever on a
\* submitted, published content, and an update under way brings one.
Stamps ==
  /\ \A c \in Contents : row[c].txHash # None =>
       c \in contents /\ row[c].submitted /\ ~row[c].isDraft
  /\ \A r \in Requests : at[r] = "update" =>
       content[r] \in Contents /\ input[r].txHash \in TxHashes

LEMMA InitStamps == Init => Stamps
BY DEF Init, Stamps, NoRow

LEMMA NextStamps == IInv /\ Stamps /\ [Next]_vars => Stamps'
<1> SUFFICES ASSUME IInv, Stamps, [Next]_vars PROVE Stamps'
  OBVIOUS
<1>0. TypeOK /\ IdsAreFresh /\ HeldRowsAreCurrent
  BY DEF IInv
<1>1. ASSUME NEW r \in Requests, at'[r] = "update"
      PROVE  content'[r] \in Contents /\ input'[r].txHash \in TxHashes
  <2>1. CASE \E q \in Requests, c \in Contents, h \in TxHashes : SubmitFind(q, c, h)
    BY <1>0, <1>1, <2>1 DEF SubmitFind, Goto, TypeOK, Stamps, Input
  <2>2. ASSUME NEW q \in Requests, Finish(q)
        PROVE  at[r] = "update" /\ content'[r] = content[r] /\ input'[r] = input[r]
    BY <1>0, <1>1, <2>2, FinishOthers
  <2>3. ASSUME ~\E q \in Requests, c \in Contents, h \in TxHashes : SubmitFind(q, c, h),
               ~\E q \in Requests : Finish(q)
        PROVE  at[r] = "update" /\ content'[r] = content[r] /\ input'[r] = input[r]
    <3>1. CASE \E q \in Requests : Step(q) \/ Abort(q)
      <4>1. PICK q \in Requests : Step(q) \/ Abort(q)
        BY <3>1
      <4>2. at'[q] # "update" /\ \A s \in Requests \ {q} :
              at'[s] = at[s] /\ content'[s] = content[s] /\ input'[s] = input[s]
        BY <1>0, <2>3, <4>1
           DEF TypeOK, Step, Abort, Rollback, ReviseLock, ReviseCount, ReviseInsert,
               ReviseDeactivate, ReviseCommit, SubmitUpdate, RemoveReadForks,
               RemoveDelete, RemoveDeleteForks, Goto
      <4> QED
        BY <1>1, <4>2
    <3>2. CASE ~\E q \in Requests : Step(q) \/ Abort(q)
      BY <1>0, <1>1, <2>3, <3>2
         DEF Next, vars, session, TypeOK, Create, ReviseFind, RemoveFind, Goto
    <3> QED
      BY <3>1, <3>2
  <2> QED
    BY <2>1, <2>2, <2>3, <1>1 DEF Stamps
<1>2. ASSUME NEW c \in Contents, row'[c].txHash # None
      PROVE  c \in contents' /\ row'[c].submitted /\ ~row'[c].isDraft
  <2>1. CASE UNCHANGED <<proposals, contents, row>>
    BY <1>2, <2>1 DEF Stamps
  <2>2. ASSUME NEW p \in Proposals, NEW d \in Contents, NEW in \in Body, Create(p, d, in)
        PROVE  c \in contents' /\ row'[c].submitted /\ ~row'[c].isDraft
    <3>1. c # d
      BY <1>0, <1>2, <2>2 DEF Create, TypeOK, NewRow
    <3> QED
      BY <1>0, <1>2, <2>2, <3>1 DEF Create, TypeOK, Stamps
  <2>3. ASSUME NEW r \in Requests, ReviseCommit(r)
        PROVE  c \in contents' /\ row'[c].submitted /\ ~row'[c].isDraft
    <3>1. c # content[r]
      BY <1>2, <2>3 DEF ReviseCommit, NewRow
    <3>2. row'[c] = row[c] \/ row'[c] = [row[c] EXCEPT !.revActive = FALSE]
      BY <2>3, <3>1 DEF ReviseCommit
    <3>3. row[c] \in Row
      BY <1>0 DEF TypeOK
    <3>4. /\ row'[c].txHash = row[c].txHash /\ row'[c].submitted = row[c].submitted
          /\ row'[c].isDraft = row[c].isDraft
      BY <3>2, <3>3 DEF Row
    <3> QED
      BY <1>2, <2>3, <3>4 DEF ReviseCommit, Stamps
  <2>4. ASSUME NEW r \in Requests, SubmitUpdate(r)
        PROVE  c \in contents' /\ row'[c].submitted /\ ~row'[c].isDraft
    <3>1. CASE row' = row
      BY <1>2, <2>4, <3>1 DEF SubmitUpdate, Stamps
    <3>2. CASE row' # row
      <4>1. Submittable(content[r])
            /\ row' = [row EXCEPT ![content[r]] =
                         [@ EXCEPT !.submitted = TRUE, !.txHash = input[r].txHash]]
        BY <2>4, <3>2 DEF SubmitUpdate
      <4>2. CASE c = content[r]
        <5>1. c \in contents /\ ~row[c].isDraft /\ row[c] \in Row
          BY <1>0, <4>1, <4>2 DEF Submittable, Public, TypeOK
        <5>2. row'[c] = [row[c] EXCEPT !.submitted = TRUE, !.txHash = input[r].txHash]
          BY <1>0, <4>1, <4>2 DEF TypeOK
        <5>3. row'[c].submitted /\ row'[c].isDraft = row[c].isDraft
          BY <5>1, <5>2 DEF Row
        <5> QED
          BY <2>4, <5>1, <5>3 DEF SubmitUpdate
      <4>3. CASE c # content[r]
        BY <1>0, <1>2, <2>4, <4>1, <4>3 DEF SubmitUpdate, TypeOK, Stamps
      <4> QED
        BY <4>2, <4>3
    <3> QED
      BY <3>1, <3>2
  <2>5. ASSUME NEW r \in Requests, RemoveDeleteForks(r)
        PROVE  c \in contents' /\ row'[c].submitted /\ ~row'[c].isDraft
    <3>1. c \notin held[r]
      BY <1>2, <2>5 DEF RemoveDeleteForks, NoRow
    <3> QED
      BY <1>2, <2>5, <3>1 DEF RemoveDeleteForks, Stamps
  <2> QED
    BY <2>1, <2>2, <2>3, <2>4, <2>5, WritingSteps
<1> QED
  BY <1>1, <1>2 DEF Stamps

\* What is shown is the one public revision, or none.
LEMMA Shown ==
  ASSUME OneActiveRevision, NEW p
  PROVE  /\ \A c \in ContentsOf(p) : Public(c) => ShownRevision(p) = c
         /\ (\A c \in ContentsOf(p) : ~Public(c)) => ShownRevision(p) = None
BY DEF OneActiveRevision, ShownRevision, Published, ContentsOf

LEMMA ShownNext ==
  ASSUME OneActiveRevision', NEW p
  PROVE  /\ \A c \in ContentsOf(p)' : Public(c)' => ShownRevision(p)' = c
         /\ (\A c \in ContentsOf(p)' : ~Public(c)') => ShownRevision(p)' = None
BY DEF OneActiveRevision, ShownRevision, Published, ContentsOf

\* A proposal whose contents a step leaves as they are looks the same.
LEMMA SameView ==
  ASSUME OneActiveRevision, OneActiveRevision', NEW p,
         ContentsOf(p)' = ContentsOf(p),
         \A c \in ContentsOf(p) : /\ Public(c)' <=> Public(c)
                                  /\ row'[c].isDraft = row[c].isDraft
  PROVE  /\ PublishedRevisions(p)' = PublishedRevisions(p)
         /\ ShownRevision(p)' = ShownRevision(p)
<1>1. PublishedRevisions(p)' = PublishedRevisions(p)
  BY DEF PublishedRevisions
<1>2. ASSUME NEW c \in ContentsOf(p), Public(c)
      PROVE  ShownRevision(p)' = ShownRevision(p)
  <2>1. ShownRevision(p) = c
    BY <1>2, Shown
  <2>2. c \in ContentsOf(p)' /\ Public(c)'
    BY <1>2
  <2>3. ShownRevision(p)' = c
    BY <2>2, ShownNext
  <2> QED
    BY <2>1, <2>3
<1>3. ASSUME \A c \in ContentsOf(p) : ~Public(c)
      PROVE  ShownRevision(p)' = ShownRevision(p)
  <2>1. ShownRevision(p) = None
    BY <1>3, Shown
  <2>2. \A c \in ContentsOf(p)' : ~Public(c)'
    BY <1>3
  <2>3. ShownRevision(p)' = None
    BY <2>2, ShownNext
  <2> QED
    BY <2>1, <2>3
<1> QED
  BY <1>1, <1>2, <1>3

\* What a reader sees of a step that writes the revision c of p: nothing of a
\* draft; otherwise c, published and shown.
SameLook(p) ==
  /\ PublishedRevisions(p)' = PublishedRevisions(p)
  /\ ShownRevision(p)' = ShownRevision(p)

WrittenView(p, c) ==
  /\ row'[c].isDraft => \A q \in Proposals : SameLook(q)
  /\ ~row'[c].isDraft =>
       /\ \A q \in Proposals : c \notin PublishedRevisions(q)
       /\ PublishedRevisions(p)' = PublishedRevisions(p) \cup {c}
       /\ ShownRevision(p)' = c
       /\ \A q \in Proposals \ {p} : SameLook(q)
  /\ \A d \in Contents : row'[d].txHash = row[d].txHash

LEMMA WrittenRevision ==
  ASSUME IInv, OneActiveRevision', NEW p \in Proposals, NEW c \in Contents \ contents,
         contents' = contents \cup {c},
         row'[c].proposal = p, row'[c].revActive, row'[c].txHash = None, Stamps,
         \A d \in contents : /\ row'[d].proposal = row[d].proposal
                             /\ row'[d].isDraft = row[d].isDraft
                             /\ row'[d].txHash = row[d].txHash
                             /\ row[d].proposal # p \/ row'[c].isDraft =>
                                  row'[d].revActive = row[d].revActive,
         \A d \in Contents \ contents' : row'[d].txHash = row[d].txHash
  PROVE  WrittenView(p, c)
<1>0. TypeOK /\ OneActiveRevision
  BY DEF IInv
<1>1. \A q \in Proposals \ {p} : ContentsOf(q)' = ContentsOf(q)
  BY DEF ContentsOf
<1>2. \A d \in contents : row[d].proposal # p \/ row'[c].isDraft => (Public(d)' <=> Public(d))
  BY DEF Public
<1>3. \A q \in Proposals \ {p} : /\ PublishedRevisions(q)' = PublishedRevisions(q)
                                 /\ ShownRevision(q)' = ShownRevision(q)
  BY <1>0, <1>1, <1>2, SameView DEF ContentsOf
<1>4. ContentsOf(p)' = ContentsOf(p) \cup {c}
  BY DEF ContentsOf
<1>5. ASSUME row'[c].isDraft
      PROVE  /\ PublishedRevisions(p)' = PublishedRevisions(p)
             /\ ShownRevision(p)' = ShownRevision(p)
  <2>1. PublishedRevisions(p)' = PublishedRevisions(p)
    BY <1>4, <1>5 DEF PublishedRevisions, ContentsOf
  <2>2. ~Public(c)' /\ \A d \in ContentsOf(p) : Public(d)' <=> Public(d)
    BY <1>2, <1>5 DEF Public, ContentsOf
  <2>3. ASSUME NEW d \in ContentsOf(p), Public(d)
        PROVE  ShownRevision(p)' = ShownRevision(p)
    <3>1. ShownRevision(p) = d
      BY <1>0, <2>3, Shown
    <3>2. d \in ContentsOf(p)' /\ Public(d)'
      BY <1>4, <2>2, <2>3
    <3>3. ShownRevision(p)' = d
      BY <3>2, ShownNext
    <3> QED
      BY <3>1, <3>3
  <2>4. ASSUME \A d \in ContentsOf(p) : ~Public(d)
        PROVE  ShownRevision(p)' = ShownRevision(p)
    <3>1. ShownRevision(p) = None
      BY <1>0, <2>4, Shown
    <3>2. \A d \in ContentsOf(p)' : ~Public(d)'
      BY <1>4, <2>2, <2>4
    <3>3. ShownRevision(p)' = None
      BY <3>2, ShownNext
    <3> QED
      BY <3>1, <3>3
  <2> QED
    BY <2>1, <2>3, <2>4
<1>6. ASSUME ~row'[c].isDraft
      PROVE  /\ \A q \in Proposals : c \notin PublishedRevisions(q)
             /\ PublishedRevisions(p)' = PublishedRevisions(p) \cup {c}
             /\ ShownRevision(p)' = c
  <2>1. \A q \in Proposals : c \notin PublishedRevisions(q)
    BY DEF PublishedRevisions, ContentsOf
  <2>2. PublishedRevisions(p)' = PublishedRevisions(p) \cup {c}
    BY <1>4, <1>6 DEF PublishedRevisions, ContentsOf
  <2>3. c \in ContentsOf(p)' /\ Public(c)'
    BY <1>4, <1>6 DEF Public
  <2> QED
    BY <2>1, <2>2, <2>3, ShownNext
<1>7. \A d \in Contents : row'[d].txHash = row[d].txHash
  BY DEF Stamps
<1> QED
  BY <1>3, <1>5, <1>6, <1>7 DEF WrittenView, SameLook

LEMMA CreateIsOpen ==
  ASSUME IInv, IInv', Stamps,
         NEW p \in Proposals, NEW c \in Contents, NEW in \in Body, Create(p, c, in)
  PROVE  View!Next
<1>0. TypeOK /\ IdsAreFresh /\ OneActiveRevision'
  BY DEF IInv
<1>1. p \notin proposals /\ c \in Contents \ contents
      /\ contents' = contents \cup {c} /\ proposals' = proposals \cup {p}
      /\ row'[c] = NewRow(p, in) /\ \A d \in Contents \ {c} : row'[d] = row[d]
  BY <1>0 DEF Create, IdsAreFresh, TypeOK
<1>2. /\ row'[c].proposal = p /\ row'[c].revActive /\ row'[c].txHash = None
      /\ row'[c].isDraft = in.isDraft
  BY <1>1 DEF NewRow
<1>3. WrittenView(p, c)
  <2>1. contents \subseteq Contents
    BY <1>0 DEF TypeOK
  <2>2. \A d \in contents : row'[d] = row[d]
    BY <1>1, <2>1
  <2>3. \A d \in Contents \ contents' : row'[d] = row[d]
    BY <1>1
  <2> QED
    BY <1>0, <1>1, <1>2, <2>2, <2>3, WrittenRevision
<1>4. CASE row'[c].isDraft
  <2>1. View!OpenDraft(p)
    BY <1>1, <1>3, <1>4 DEF View!OpenDraft, WrittenView, SameLook
  <2> QED
    BY <2>1 DEF View!Next
<1>5. CASE ~row'[c].isDraft
  <2>1. View!Publish(p, c)
    BY <1>1, <1>3, <1>5 DEF View!Publish, WrittenView, SameLook
  <2> QED
    BY <2>1 DEF View!Next
<1> QED
  BY <1>4, <1>5

LEMMA CommitIsPublish ==
  ASSUME IInv, IInv', Stamps, NEW r \in Requests, ReviseCommit(r)
  PROVE  View!Next \/ UNCHANGED View!vars
<1>0. /\ TypeOK /\ IdsAreFresh /\ LockDiscipline /\ HeldRowsAreCurrent
      /\ OneActiveRevision'
  BY DEF IInv
<1> PICK p, c : p = proposal[r] /\ c = content[r]
  OBVIOUS
<1>1. /\ p \in proposals /\ p \in Proposals /\ c \in Contents \ contents
      /\ held[r] \subseteq ContentsOf(p) /\ held[r] \subseteq contents
      /\ contents' = contents \cup {c} /\ proposals' = proposals
      /\ row'[c] = NewRow(p, input[r])
      /\ input[r].isDraft => held[r] = {}
  BY <1>0 DEF ReviseCommit, IdsAreFresh, LockDiscipline, HeldRowsAreCurrent, ContentsOf, TypeOK
<1>2. /\ row'[c].proposal = p /\ row'[c].revActive /\ row'[c].txHash = None
      /\ row'[c].isDraft = input[r].isDraft
  BY <1>1 DEF NewRow
<1>3. ASSUME NEW d \in Contents \ {c}
      PROVE  /\ row'[d].proposal = row[d].proposal /\ row'[d].isDraft = row[d].isDraft
             /\ row'[d].txHash = row[d].txHash
             /\ d \notin held[r] => row'[d].revActive = row[d].revActive
  <2>1. row'[d] = IF d \in held[r] THEN [row[d] EXCEPT !.revActive = FALSE] ELSE row[d]
    BY <1>3 DEF ReviseCommit
  <2>2. row[d] \in Row
    BY <1>0 DEF TypeOK
  <2> QED
    BY <2>1, <2>2 DEF Row
<1>4. \A d \in contents : row[d].proposal # p \/ row'[c].isDraft => d \notin held[r]
  BY <1>1, <1>2 DEF ContentsOf
<1>5. contents \subseteq Contents
  BY <1>0 DEF TypeOK
<1>6. WrittenView(p, c)
  <2>1. \A d \in contents : /\ row'[d].proposal = row[d].proposal
                            /\ row'[d].isDraft = row[d].isDraft
                            /\ row'[d].txHash = row[d].txHash
                            /\ row[d].proposal # p \/ row'[c].isDraft =>
                                 row'[d].revActive = row[d].revActive
    BY <1>1, <1>3, <1>4, <1>5
  <2>2. \A d \in Contents \ contents' : row'[d].txHash = row[d].txHash
    BY <1>1, <1>3
  <2> QED
    BY <1>0, <1>1, <1>2, <2>1, <2>2, WrittenRevision
<1>7. CASE row'[c].isDraft
  BY <1>1, <1>6, <1>7 DEF View!vars, WrittenView, SameLook
<1>8. CASE ~row'[c].isDraft
  <2>1. proposals' = proposals \cup {p}
    BY <1>1
  <2>2. View!Publish(p, c)
    BY <1>6, <1>8, <2>1 DEF View!Publish, WrittenView, SameLook
  <2> QED
    BY <1>1, <2>2 DEF View!Next
<1> QED
  BY <1>7, <1>8

LEMMA UpdateIsSubmit ==
  ASSUME IInv, IInv', Stamps, NEW r \in Requests, SubmitUpdate(r)
  PROVE  View!Next \/ UNCHANGED View!vars
<1>0. /\ TypeOK /\ OneActiveRevision /\ OneActiveRevision' /\ NoOrphanContent
      /\ proposals' = proposals /\ contents' = contents
  BY DEF IInv, SubmitUpdate
<1> PICK c, h : c = content[r] /\ h = input[r].txHash
  OBVIOUS
<1>1. c \in Contents /\ h \in TxHashes
  BY DEF Stamps, SubmitUpdate
<1>2. \A d \in Contents : /\ row'[d].proposal = row[d].proposal
                          /\ row'[d].isDraft = row[d].isDraft
                          /\ row'[d].revActive = row[d].revActive
  BY <1>0 DEF SubmitUpdate, TypeOK, Row
<1>3. ASSUME NEW p \in Proposals
      PROVE  /\ PublishedRevisions(p)' = PublishedRevisions(p)
             /\ ShownRevision(p)' = ShownRevision(p)
  <2>1. contents \subseteq Contents
    BY <1>0 DEF TypeOK
  <2>2. ContentsOf(p)' = ContentsOf(p)
    BY <1>0, <1>2, <2>1 DEF ContentsOf
  <2>3. \A d \in ContentsOf(p) : /\ Public(d)' <=> Public(d)
                                 /\ row'[d].isDraft = row[d].isDraft
    BY <1>0, <1>2, <2>1 DEF Public, ContentsOf
  <2> QED
    BY <1>0, <2>2, <2>3, SameView
<1>4. CASE row' = row
  BY <1>0, <1>3, <1>4 DEF View!vars
<1>5. CASE row' # row
  <2>1. /\ Submittable(c) /\ \A d \in contents : row[d].txHash # h
        /\ row' = [row EXCEPT ![c] = [@ EXCEPT !.submitted = TRUE, !.txHash = h]]
    BY <1>5 DEF SubmitUpdate
  <2>2. PICK p \in Proposals : p = row[c].proposal /\ c \in ContentsOf(p)
    BY <1>0, <2>1 DEF Submittable, Public, NoOrphanContent, ContentsOf, TypeOK
  <2>3. ShownRevision(p) = c /\ c # None
    BY <1>0, <1>1, <2>1, <2>2, Shown, ProposalsAssumption DEF Submittable
  <2>4. row[c].txHash = None /\ \A d \in Contents : row[d].txHash # h
    BY <1>1, <2>1, ProposalsAssumption DEF Stamps, Submittable
  <2>5. row'[c] = [row[c] EXCEPT !.submitted = TRUE, !.txHash = h] /\ row[c] \in Row
        /\ \A d \in Contents \ {c} : row'[d] = row[d]
    BY <1>0, <1>1, <2>1 DEF TypeOK
  <2>6. row'[c].txHash = h
    BY <2>5 DEF Row
  <2>7. View!Submit(p, h)
    <3>1. \A q \in Proposals : /\ PublishedRevisions(q)' = PublishedRevisions(q)
                              /\ ShownRevision(q)' = ShownRevision(q)
      BY <1>3
    <3>2. \A d \in Contents : row'[d].txHash = IF d = c THEN h ELSE row[d].txHash
      BY <2>5, <2>6
    <3> QED
      BY <1>0, <1>1, <2>3, <2>4, <3>1, <3>2 DEF View!Submit
  <2> QED
    BY <1>1, <2>7 DEF View!Next
<1> QED
  BY <1>4, <1>5

LEMMA DeleteIsClose ==
  ASSUME IInv, IInv', Stamps, NEW r \in Requests, RemoveDeleteForks(r)
  PROVE  View!Next
<1>0. /\ TypeOK /\ LockDiscipline /\ HeldRowsAreCurrent /\ IdsAreFresh
      /\ OneActiveRevision /\ OneActiveRevision'
  BY DEF IInv
<1> PICK p : p = proposal[r]
  OBVIOUS
<1>1. /\ p \in proposals /\ p \in Proposals /\ held[r] = ContentsOf(p)
      /\ proposals' = proposals \ {p} /\ contents' = contents \ ContentsOf(p)
      /\ \A d \in Contents : row'[d] = IF d \in ContentsOf(p) THEN NoRow ELSE row[d]
      /\ contents \subseteq Contents
  BY <1>0 DEF RemoveDeleteForks, LockDiscipline, HeldRowsAreCurrent, TypeOK
<1>2. ContentsOf(p)' = {}
  BY <1>1 DEF ContentsOf
<1>3. PublishedRevisions(p)' = {} /\ ShownRevision(p)' = None
  BY <1>0, <1>2, ShownNext DEF PublishedRevisions
<1>4. ASSUME NEW q \in Proposals \ {p}
      PROVE  /\ PublishedRevisions(q)' = PublishedRevisions(q)
             /\ ShownRevision(q)' = ShownRevision(q)
  <2>1. \A d \in ContentsOf(q) : d \in contents' /\ row'[d] = row[d]
    BY <1>1 DEF ContentsOf
  <2>2. ContentsOf(q)' = ContentsOf(q)
    BY <1>1, <2>1 DEF ContentsOf
  <2>3. \A d \in ContentsOf(q) : /\ Public(d)' <=> Public(d)
                                 /\ row'[d].isDraft = row[d].isDraft
    BY <2>1 DEF Public, ContentsOf
  <2> QED
    BY <1>0, <2>2, <2>3, SameView
<1>5. ASSUME NEW d \in Contents
      PROVE  row'[d].txHash = IF d \in PublishedRevisions(p) THEN None ELSE row[d].txHash
  BY <1>1 DEF NoRow, PublishedRevisions, Stamps
<1>6. View!Close(p)
  BY <1>1, <1>3, <1>4, <1>5 DEF View!Close
<1> QED
  BY <1>1, <1>6 DEF View!Next

LEMMA NextImplements ==
  IInv /\ IInv' /\ Stamps /\ [Next]_vars => [View!Next]_(View!vars)
<1> SUFFICES ASSUME IInv, IInv', Stamps, [Next]_vars PROVE [View!Next]_(View!vars)
  OBVIOUS
<1>1. CASE UNCHANGED <<proposals, contents, row>>
  BY <1>1 DEF View!vars, PublishedRevisions, ShownRevision, Published, ContentsOf, Public
<1>2. CASE ~UNCHANGED <<proposals, contents, row>>
  BY <1>2, WritingSteps, CreateIsOpen, CommitIsPublish, UpdateIsSubmit, DeleteIsClose
<1> QED
  BY <1>1, <1>2

\* The forum keeps the promise of PublicRevisions for any number of requests:
\* a revision replaces the shown one at once and for good, only the shown one
\* is submitted, and a removal takes the proposal all at once.
THEOREM ImplementsPublicRevisionsHolds == Spec => ImplementsPublicRevisions
<1>1. Init => View!Init
  BY DEF Init, View!Init, PublishedRevisions, ShownRevision, Published, ContentsOf, NoRow
<1>2. IInv /\ IInv' /\ Stamps /\ [Next]_vars => [View!Next]_(View!vars)
  BY NextImplements
<1> QED
  BY <1>1, <1>2, Inductive, InitStamps, NextStamps, PTL
     DEF Spec, ImplementsPublicRevisions, View!Spec

-----------------------------------------------------------------------------
\* Nobody waits for ever.

\* A proposal's row is locked by a request whose next statements wait for
\* contents at most.
LocksAreHeld ==
  \A p \in Proposals : rowLock[p] # None =>
    at[rowLock[p]] \in {"count", "insert", "deactivate", "commit", "deleteForks"}

\* The model's bound keeps an id for every insert to come.
RoomForIds == Cardinality({r \in Requests : AwaitsId(r)}) <= Cardinality(Contents \ used)

LEMMA NextLocksAreHeld == IInv /\ LocksAreHeld /\ [Next]_vars => LocksAreHeld'
<1> SUFFICES ASSUME IInv, LocksAreHeld, [Next]_vars PROVE LocksAreHeld'
  OBVIOUS
<1> DEFINE Holding == {"count", "insert", "deactivate", "commit", "deleteForks"}
<1>0. TypeOK
  BY DEF IInv
<1>1. ASSUME NEW r \in Requests, Finish(r) PROVE LocksAreHeld'
  <2> SUFFICES ASSUME NEW p \in Proposals, rowLock'[p] # None PROVE at'[rowLock'[p]] \in Holding
    BY DEF LocksAreHeld
  <2>1. rowLock'[p] = rowLock[p] /\ rowLock[p] \in Requests \ {r}
    BY <1>0, <1>1 DEF Finish, TypeOK
  <2>2. at'[rowLock[p]] = at[rowLock[p]]
    BY <1>0, <1>1, <2>1, FinishOthers
  <2> QED
    BY <2>1, <2>2 DEF LocksAreHeld
\* The others change the statement of one request, and take a lock only for it.
<1>2. ASSUME NEW r \in Requests, NEW s, Goto(r, s), at[r] \in Holding => s \in Holding,
             \A p \in Proposals : rowLock'[p] = rowLock[p] \/ (rowLock'[p] = r /\ s \in Holding)
      PROVE  LocksAreHeld'
  <2> SUFFICES ASSUME NEW p \in Proposals, rowLock'[p] # None PROVE at'[rowLock'[p]] \in Holding
    BY DEF LocksAreHeld
  <2>1. \A q \in Requests : at'[q] = IF q = r THEN s ELSE at[q]
    BY <1>0, <1>2 DEF Goto, TypeOK
  <2>2. CASE rowLock'[p] = r /\ s \in Holding
    BY <2>1, <2>2
  <2>3. CASE rowLock'[p] = rowLock[p]
    <3>1. rowLock[p] \in Requests /\ at[rowLock[p]] \in Holding
      BY <1>0, <2>3 DEF LocksAreHeld, TypeOK
    <3> QED
      BY <1>2, <2>1, <2>3, <3>1
  <2> QED
    BY <1>2, <2>2, <2>3
<1>3. CASE UNCHANGED <<rowLock, at>>
  BY <1>3 DEF LocksAreHeld
<1>4. ASSUME NEW r \in Requests, Step(r) PROVE LocksAreHeld'
  <2>1. CASE ReviseLock(r)
    <3>1. \A p \in Proposals : rowLock'[p] = rowLock[p] \/ rowLock'[p] = r
      BY <1>0, <2>1 DEF ReviseLock, TypeOK
    <3> QED
      BY <1>2, <2>1, <3>1 DEF ReviseLock
  <2>2. CASE ReviseCount(r)
    BY <1>1, <1>2, <2>2 DEF ReviseCount, Rollback
  <2>3. CASE \E c \in Contents : ReviseInsert(r, c)
    BY <1>1, <1>2, <2>3 DEF ReviseInsert, Rollback
  <2>4. CASE ReviseDeactivate(r)
    BY <1>2, <2>4 DEF ReviseDeactivate
  <2>5. CASE ReviseCommit(r) \/ SubmitUpdate(r) \/ RemoveDeleteForks(r)
    BY <1>1, <2>5 DEF ReviseCommit, SubmitUpdate, RemoveDeleteForks
  <2>6. CASE RemoveReadForks(r)
    BY <1>2, <2>6 DEF RemoveReadForks
  <2>7. CASE RemoveDelete(r)
    <3>1. CASE proposal[r] \in proposals
      <4>1. \A p \in Proposals : rowLock'[p] = rowLock[p] \/ rowLock'[p] = r
        BY <1>0, <2>7, <3>1 DEF RemoveDelete, TypeOK
      <4> QED
        BY <1>2, <2>7, <3>1, <4>1 DEF RemoveDelete
    <3>2. CASE proposal[r] \notin proposals
      BY <1>1, <2>7, <3>2 DEF RemoveDelete, Rollback
    <3> QED
      BY <3>1, <3>2
  <2> QED
    BY <1>4, <2>1, <2>2, <2>3, <2>4, <2>5, <2>6, <2>7 DEF Step
<1>5. CASE \E p \in Proposals, c \in Contents, in \in Body : Create(p, c, in)
  BY <1>3, <1>5 DEF Create, session
<1>6. ASSUME NEW r \in Requests, NEW p \in Proposals, NEW in \in Body, ReviseFind(r, p, in)
      PROVE  LocksAreHeld'
  BY <1>2, <1>6 DEF ReviseFind
<1>7. ASSUME NEW r \in Requests, NEW c \in Contents, NEW h \in TxHashes, SubmitFind(r, c, h)
      PROVE  LocksAreHeld'
  BY <1>2, <1>7 DEF SubmitFind
<1>8. ASSUME NEW r \in Requests, NEW p \in Proposals, RemoveFind(r, p) PROVE LocksAreHeld'
  BY <1>2, <1>8 DEF RemoveFind
<1>9. CASE \E r \in Requests : Abort(r)
  BY <1>1, <1>9 DEF Abort, Rollback
<1>10. CASE UNCHANGED vars
  BY <1>3, <1>10 DEF vars, session
<1> QED
  BY <1>4, <1>5, <1>6, <1>7, <1>8, <1>9, <1>10 DEF Next

LEMMA NextRoomForIds == IInv /\ RoomForIds /\ [Next]_vars => RoomForIds'
<1> SUFFICES ASSUME IInv, RoomForIds, [Next]_vars PROVE RoomForIds'
  OBVIOUS
<1> DEFINE W == {r \in Requests : AwaitsId(r)}
           V == {r \in Requests : AwaitsId(r)'}
           F == Contents \ used
           G == Contents \ used'
<1>0. TypeOK /\ IdsAreFresh
  BY DEF IInv
<1>1. /\ IsFiniteSet(W) /\ IsFiniteSet(F)
      /\ Cardinality(W) \in Nat /\ Cardinality(F) \in Nat
      /\ Cardinality(V) \in Nat /\ Cardinality(G) \in Nat
  <2>1. IsFiniteSet(W) /\ IsFiniteSet(V)
    BY ProposalsAssumption, FS_Subset
  <2>2. IsFiniteSet(F) /\ IsFiniteSet(G)
    BY ProposalsAssumption, FS_Subset
  <2> QED
    BY <2>1, <2>2, FS_CardinalityType
<1>2. /\ Cardinality(W) <= Cardinality(F)
      /\ RoomForIds' <=> Cardinality(V) <= Cardinality(G)
      /\ HasRoom <=> Cardinality(W) < Cardinality(F)
  BY DEF RoomForIds, HasRoom
<1>3. ASSUME V \subseteq W, G = F PROVE RoomForIds'
  <2> HIDE DEF W, V, F, G
  <2>1. Cardinality(V) <= Cardinality(W)
    BY <1>1, <1>3, FS_Subset
  <2> QED
    BY <1>1, <1>2, <1>3, <2>1
<1>4. ASSUME NEW r \in Requests, NEW s, Goto(r, s), s \notin {"lock", "count", "insert"}, G = F
      PROVE  RoomForIds'
  <2>1. V \subseteq W
    BY <1>0, <1>4 DEF Goto, TypeOK, AwaitsId
  <2> QED
    BY <1>3, <1>4, <2>1
<1>5. ASSUME NEW r \in Requests, NEW s, Goto(r, s), AwaitsId(r), G = F PROVE RoomForIds'
  <2>1. V \subseteq W
    BY <1>0, <1>5 DEF Goto, TypeOK, AwaitsId
  <2> QED
    BY <1>3, <1>5, <2>1
<1>6. ASSUME NEW p \in Proposals, NEW c \in Contents, NEW in \in Body, Create(p, c, in)
      PROVE  RoomForIds'
  <2>1. V = W /\ G = F \ {c} /\ c \in F
    BY <1>6, ProposalsAssumption DEF Create, session, AwaitsId
  <2>2. HasRoom
    BY <1>6 DEF Create
  <2> HIDE DEF W, V, F, G
  <2>3. Cardinality(G) = Cardinality(F) - 1
    BY <1>1, <2>1, FS_RemoveElement
  <2> QED
    BY <1>1, <1>2, <2>1, <2>2, <2>3
<1>7. ASSUME NEW r \in Requests, NEW p \in Proposals, NEW in \in Body, ReviseFind(r, p, in)
      PROVE  RoomForIds'
  <2>1. V = W \cup {r} /\ r \notin W /\ G = F
    BY <1>0, <1>7 DEF ReviseFind, Goto, TypeOK, AwaitsId, tables
  <2>2. HasRoom
    BY <1>7 DEF ReviseFind
  <2> HIDE DEF W, V, F, G
  <2>3. Cardinality(V) = Cardinality(W) + 1
    BY <1>1, <2>1, FS_AddElement
  <2> QED
    BY <1>1, <1>2, <2>1, <2>2, <2>3
<1>8. ASSUME NEW r \in Requests, NEW c \in Contents, ReviseInsert(r, c) PROVE RoomForIds'
  <2>1. CASE proposal[r] \in proposals
    <3>1. V = W \ {r} /\ r \in W /\ G = F \ {c} /\ c \in F
      BY <1>0, <1>8, <2>1 DEF ReviseInsert, Goto, TypeOK, AwaitsId
    <3> HIDE DEF W, V, F, G
    <3>2. Cardinality(V) = Cardinality(W) - 1 /\ Cardinality(G) = Cardinality(F) - 1
      BY <1>1, <3>1, FS_RemoveElement
    <3> QED
      BY <1>1, <1>2, <3>2
  <2>2. CASE proposal[r] \notin proposals
    BY <1>4, <1>8, <2>2 DEF ReviseInsert, Rollback, Finish, tables
  <2> QED
    BY <2>1, <2>2
<1>9. ASSUME NEW r \in Requests, Step(r) \/ Abort(r) PROVE RoomForIds'
  <2>1. CASE ReviseLock(r)
    BY <1>5, <2>1 DEF ReviseLock, AwaitsId, tables
  <2>2. CASE ReviseCount(r)
    BY <1>4, <1>5, <2>2 DEF ReviseCount, Rollback, Finish, AwaitsId, tables
  <2>3. CASE \E c \in Contents : ReviseInsert(r, c)
    BY <1>8, <2>3
  <2>4. CASE ReviseDeactivate(r)
    BY <1>4, <2>4 DEF ReviseDeactivate, tables
  <2>5. CASE ReviseCommit(r) \/ SubmitUpdate(r) \/ RemoveDeleteForks(r)
    BY <1>4, <2>5 DEF ReviseCommit, SubmitUpdate, RemoveDeleteForks, Finish
  <2>6. CASE RemoveReadForks(r)
    BY <1>4, <2>6 DEF RemoveReadForks, tables
  <2>7. CASE RemoveDelete(r)
    BY <1>4, <2>7 DEF RemoveDelete, Rollback, Finish, tables
  <2>8. CASE Abort(r)
    BY <1>4, <2>8 DEF Abort, Rollback, Finish, tables
  <2> QED
    BY <1>9, <2>1, <2>2, <2>3, <2>4, <2>5, <2>6, <2>7, <2>8 DEF Step
<1>10. ASSUME NEW r \in Requests, NEW c \in Contents, NEW h \in TxHashes, SubmitFind(r, c, h)
       PROVE  RoomForIds'
  BY <1>4, <1>10 DEF SubmitFind, tables
<1>11. ASSUME NEW r \in Requests, NEW p \in Proposals, RemoveFind(r, p) PROVE RoomForIds'
  BY <1>4, <1>11 DEF RemoveFind, tables
<1>12. CASE UNCHANGED vars
  <2>1. V = W /\ G = F
    BY <1>12 DEF vars, session, tables, AwaitsId
  <2> QED
    BY <1>3, <2>1
<1> QED
  BY <1>6, <1>7, <1>9, <1>10, <1>11, <1>12 DEF Next

\* Who waits, waits for one that holds contents, which waits for nobody, or for
\* the holder of a proposal's row, which waits for contents at most.
LEMMA OneCanRun ==
  IInv /\ LocksAreHeld /\ RoomForIds => (Working # {} => \E r \in Working : CanRun(r))
<1> SUFFICES ASSUME IInv, LocksAreHeld, RoomForIds, NEW r \in Working,
                    \A q \in Working : ~CanRun(q)
             PROVE  FALSE
  OBVIOUS
<1>1. TypeOK /\ IdsAreFresh /\ HeldRowsAreCurrent
  BY DEF IInv
<1>2. \A q \in Requests : at[q] \in Statements
  BY <1>1 DEF TypeOK
<1>3. \A q \in Requests : at[q] \notin {"count", "commit", "readForks", "deleteForks"}
  BY DEF CanRun, Working
<1>4. \A q \in Requests : held[q] = {}
  BY <1>3 DEF HeldRowsAreCurrent, IInv
<1>5. \A q \in Requests : at[q] \notin {"deactivate", "update"}
  BY <1>4 DEF CanRun, Working, RowFree
<1>6. ASSUME NEW q \in Requests PROVE at[q] # "insert"
  <2> SUFFICES ASSUME at[q] = "insert" PROVE FALSE
    OBVIOUS
  <2> DEFINE W == {s \in Requests : AwaitsId(s)}
             F == Contents \ used
  <2>1. q \in W /\ Cardinality(W) <= Cardinality(F)
    BY DEF AwaitsId, RoomForIds
  <2>2. F = {}
    BY DEF CanRun, Working
  <2>3. IsFiniteSet(W)
    BY ProposalsAssumption, FS_Subset
  <2> HIDE DEF W, F
  <2>4. Cardinality(F) = 0 /\ Cardinality(W) \in Nat /\ Cardinality(W) # 0
    BY <2>1, <2>2, <2>3, FS_EmptySet, FS_CardinalityType
  <2> QED
    BY <2>1, <2>4
<1>7. \A p \in Proposals : rowLock[p] = None
  BY <1>1, <1>3, <1>5, <1>6 DEF LocksAreHeld, TypeOK
<1>8. at[r] \notin {"lock", "delete"}
  <2>1. at[r] \in {"lock", "delete"} => proposal[r] \in Proposals
    BY <1>1 DEF IdsAreFresh, Working
  <2> QED
    BY <1>4, <1>7, <2>1 DEF CanRun, RowFree
<1> QED
  BY <1>2, <1>3, <1>5, <1>6, <1>8 DEF Statements, Working

\* createContent, updateContent and remove never all wait for each other's row
\* locks: of any number under way, the next statement of one waits for nobody.
THEOREM NeverAllWait == Spec => [](Working # {} => \E r \in Working : CanRun(r))
<1>1. Init => LocksAreHeld /\ RoomForIds
  <2> SUFFICES ASSUME Init PROVE LocksAreHeld /\ RoomForIds
    OBVIOUS
  <2>1. LocksAreHeld
    BY DEF Init, LocksAreHeld
  <2>2. {r \in Requests : AwaitsId(r)} = {}
    BY DEF Init, AwaitsId
  <2>3. Cardinality(Contents \ used) \in Nat
    BY ProposalsAssumption, FS_Subset, FS_CardinalityType
  <2> QED
    BY <2>1, <2>2, <2>3, FS_EmptySet DEF RoomForIds
<1>2. IInv /\ LocksAreHeld /\ RoomForIds /\ [Next]_vars => (LocksAreHeld /\ RoomForIds)'
  BY NextLocksAreHeld, NextRoomForIds
<1> QED
  BY <1>1, <1>2, OneCanRun, Inductive, PTL DEF Spec
=============================================================================
