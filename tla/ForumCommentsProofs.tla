------------------------ MODULE ForumCommentsProofs ------------------------
(***************************************************************************)
(* The safety of ForumComments for every set of proposals, users, comments *)
(* and requests.                                                           *)
(***************************************************************************)
EXTENDS ForumComments, FiniteSetTheorems, TLAPS

Session ==
  /\ keyShare \in [Proposals -> SUBSET Requests]
  /\ rowLock \in [Proposals -> Requests \cup {None}]
  /\ at \in [Requests -> Statements]
  /\ target \in [Requests -> Targets]

Tables ==
  /\ proposals \subseteq Proposals
  /\ commentsNumber \in [Proposals -> Nat]
  /\ comment \in [Comments -> CommentRows]
  /\ report \in [Reports -> ReportRows]

\* What IInv says of the committed rows, and of the requests.
Data == RowsAreWellFormed /\ CommentsAreCounted /\ ThreadsStayOnProposal /\ ReportsStand
Knowledge == LockDiscipline /\ RequestsKnow /\ RepliesOnTheirWay

LEMMA Parts == IInv <=> Tables /\ Session /\ Knowledge /\ Data
BY DEF IInv, TypeOK, Tables, Session, Knowledge, Data

LEMMA PartsNext ==
  ASSUME Tables', Session', Knowledge', Data'
  PROVE  IInv'
BY DEF IInv, TypeOK, Tables, Session, Knowledge, Data

LEMMA InitIInv == Init => IInv
<1> SUFFICES ASSUME Init PROVE IInv
  OBVIOUS
<1> USE DEF Init
<1>1. TypeOK
  BY DEF TypeOK, Statements, Targets, NoTarget, CommentRows, ReportRows, NoComment, NoReport, Phases
<1>2. Knowledge
  BY CommentsAssumption DEF Knowledge, LockDiscipline, RequestsKnow, RepliesOnTheirWay, P, C
<1>3. CommentsAreCounted
  <2> SUFFICES ASSUME NEW p \in Proposals
               PROVE  commentsNumber[p] = Cardinality(CommentsOf(p))
    BY DEF CommentsAreCounted
  <2>1. CommentsOf(p) = {}
    BY DEF CommentsOf, NoComment
  <2> QED
    BY <2>1, FS_EmptySet
<1>4. RowsAreWellFormed /\ ThreadsStayOnProposal /\ ReportsStand
  BY DEF RowsAreWellFormed, ThreadsStayOnProposal, ReportsStand, Live, NoComment, NoReport
<1> QED
  BY <1>1, <1>2, <1>3, <1>4 DEF IInv, Knowledge

-----------------------------------------------------------------------------
\* Rows nobody touches stay as good as they were.
LEMMA SameTables ==
  ASSUME Tables, Data, UNCHANGED tables
  PROVE  Tables' /\ Data'
<1> USE DEF tables
<1>1. Tables' /\ RowsAreWellFormed'
  BY DEF Data, Tables, RowsAreWellFormed
<1>2. \A p \in Proposals : CommentsOf(p)' = CommentsOf(p)
  BY DEF CommentsOf
<1>3. CommentsAreCounted' /\ ThreadsStayOnProposal' /\ ReportsStand'
  BY <1>2 DEF Data, CommentsAreCounted, ThreadsStayOnProposal, ReportsStand, Live, CommentsOf
<1> QED
  BY <1>1, <1>3 DEF Data

\* The end of a transaction leaves the others where they were.
LEMMA FinishSession ==
  ASSUME Session, LockDiscipline, NEW r \in Requests, Finish(r)
  PROVE  /\ Session' /\ LockDiscipline'
         /\ at' = [at EXCEPT ![r] = "idle"]
         /\ target' = [target EXCEPT ![r] = NoTarget]
<1>1. /\ at' = [at EXCEPT ![r] = "idle"]
      /\ target' = [target EXCEPT ![r] = NoTarget]
  BY DEF Finish, Goto
<1>2. Session'
  BY CommentsAssumption DEF Session, Finish, Goto, Statements, Targets, NoTarget
<1>3. ASSUME NEW q \in Requests, NEW p \in Proposals
      PROVE  /\ q \in keyShare'[p] <=> at'[q] = "count" /\ P(q)' = p
             /\ rowLock'[p] = q <=> at'[q] = "cascade" /\ P(q)' = p
  <2>1. CASE q = r
    BY <1>1, <2>1, CommentsAssumption DEF Session, Finish
  <2>2. CASE q # r
    BY <1>1, <2>2, CommentsAssumption DEF Session, Finish, LockDiscipline, P
  <2> QED
    BY <2>1, <2>2
<1>4. \A p \in Proposals : rowLock'[p] # None => keyShare'[p] = {}
  BY DEF Finish, LockDiscipline, Session
<1> QED
  BY <1>1, <1>2, <1>3, <1>4 DEF LockDiscipline

\* What the others know survives rows that only come, or go with a proposal.
LEMMA FinishKnowledge ==
  ASSUME Session, Knowledge, NEW r \in Requests, Finish(r),
         \A q \in Requests \ {r} :
           /\ at[q] \in {"count", "cascade"} => P(q) \in proposals'
           /\ at[q] = "count" => comment'[C(q)] = NoComment
           /\ at[q] \in {"insert", "count"} => (P(q) \in proposals' => P(q) \in proposals),
         \A c \in Comments : comment[c].phase # "unused" =>
           comment'[c].phase # "unused" /\ comment'[c].proposal = comment[c].proposal,
         \A c \in Comments : comment[c].phase = "live" /\ comment[c].proposal \in proposals' =>
           comment'[c].phase = "live"
  PROVE  Session' /\ Knowledge'
<1> USE DEF Knowledge
<1>1. /\ Session' /\ LockDiscipline'
      /\ at' = [at EXCEPT ![r] = "idle"]
      /\ target' = [target EXCEPT ![r] = NoTarget]
  BY FinishSession
<1>2. ASSUME NEW q \in Requests
      PROVE  at'[q] = "idle" \/ (q # r /\ at'[q] = at[q] /\ target'[q] = target[q])
  BY <1>1 DEF Session
<1>3. RequestsKnow'
  BY <1>2 DEF RequestsKnow, P, C
<1>4. RepliesOnTheirWay'
  BY <1>2 DEF RepliesOnTheirWay, P
<1> QED
  BY <1>1, <1>3, <1>4

LEMMA RollbackIInv ==
  ASSUME IInv, NEW r \in Requests, Rollback(r)
  PROVE  IInv'
<1>1. Tables /\ Session /\ Knowledge /\ Data /\ Finish(r) /\ UNCHANGED tables
  BY Parts DEF Rollback
<1>2. Session' /\ Knowledge'
  BY <1>1, FinishKnowledge DEF tables, Knowledge, RequestsKnow
<1> QED
  BY <1>1, <1>2, SameTables, PartsNext

\* A request that has read without a lock.
LEMMA StartIInv ==
  ASSUME IInv, NEW r \in Requests, NEW stmt \in {"insert", "report", "unreport", "delete"},
         NEW t \in Targets, Start(r, stmt, t),
         stmt \in {"insert", "delete"} => t.proposal \in Proposals,
         stmt = "insert" /\ t.parent # None =>
           t.parent \in CommentsOf(t.proposal),
         stmt = "report" =>
           t.comment \in Comments /\ comment[t.comment].phase # "unused" /\ t.user \in Users,
         stmt = "unreport" => t.report \in Reports
  PROVE  IInv'
<1>1. /\ Tables /\ Session /\ Knowledge /\ Data
      /\ at[r] = "idle" /\ at' = [at EXCEPT ![r] = stmt]
      /\ target' = [target EXCEPT ![r] = t]
      /\ UNCHANGED tables /\ UNCHANGED locks
  BY Parts DEF Start, Goto
<1> USE <1>1 DEF tables, locks, Knowledge
<1>2. Session'
  BY DEF Session, Statements
<1>3. LockDiscipline'
  <2>1. ASSUME NEW q \in Requests, NEW p \in Proposals
        PROVE  /\ q \in keyShare'[p] <=> at'[q] = "count" /\ P(q)' = p
               /\ rowLock'[p] = q <=> at'[q] = "cascade" /\ P(q)' = p
    <3>1. CASE q = r
      BY <3>1 DEF Session, LockDiscipline
    <3>2. CASE q # r
      BY <3>2 DEF Session, LockDiscipline, P
    <3> QED
      BY <3>1, <3>2
  <2> QED
    BY <2>1 DEF LockDiscipline
<1>4. RequestsKnow'
  BY DEF Session, RequestsKnow, P, C
<1>5. RepliesOnTheirWay'
  <2> SUFFICES ASSUME NEW q \in Requests, at'[q] \in {"insert", "count"},
                      target'[q].parent # None
               PROVE  /\ target'[q].parent \in Comments
                      /\ comment[target'[q].parent].phase # "unused"
                      /\ comment[target'[q].parent].proposal = target'[q].proposal
                      /\ target'[q].proposal \in proposals =>
                           comment[target'[q].parent].phase = "live"
    BY DEF RepliesOnTheirWay, P
  <2>1. CASE q = r
    BY <2>1 DEF Session, CommentsOf
  <2>2. CASE q # r
    BY <2>2 DEF Session, RepliesOnTheirWay, P
  <2> QED
    BY <2>1, <2>2
<1> QED
  BY <1>2, <1>3, <1>4, <1>5, SameTables, PartsNext

-----------------------------------------------------------------------------
\* create()
LEMMA CreateInsertIInv ==
  ASSUME IInv, NEW r \in Requests, NEW c \in Comments, CreateInsert(r, c)
  PROVE  IInv'
<1>1. CASE P(r) \notin proposals
  BY <1>1, RollbackIInv DEF CreateInsert
<1>2. CASE P(r) \in proposals
  <2>1. /\ Tables /\ Session /\ Knowledge /\ Data
        /\ at[r] = "insert" /\ rowLock[P(r)] = None
        /\ comment[c] = NoComment /\ \A q \in Requests : C(q) # c
        /\ keyShare' = [keyShare EXCEPT ![P(r)] = @ \cup {r}]
        /\ target' = [target EXCEPT ![r].comment = c]
        /\ at' = [at EXCEPT ![r] = "count"]
        /\ UNCHANGED tables /\ UNCHANGED rowLock
    BY <1>2, Parts DEF CreateInsert, Goto
  <2> USE <2>1 DEF tables, Knowledge
  <2>2. /\ P(r) \in Proposals
        /\ target'[r].proposal = P(r) /\ target'[r].parent = target[r].parent
        /\ target'[r].comment = c
    BY DEF RequestsKnow, P, Session, Targets
  <2>3. Session'
    BY <2>2 DEF Session, Statements, Targets
  <2>4. ASSUME NEW q \in Requests, q # r
        PROVE  target'[q] = target[q] /\ at'[q] = at[q]
    BY <2>4 DEF Session
  <2>5. LockDiscipline'
    <3>1. ASSUME NEW q \in Requests, NEW p \in Proposals
          PROVE  /\ q \in keyShare'[p] <=> at'[q] = "count" /\ P(q)' = p
                 /\ rowLock'[p] = q <=> at'[q] = "cascade" /\ P(q)' = p
      <4>1. CASE q = r
        BY <2>2, <4>1 DEF Session, LockDiscipline, P
      <4>2. CASE q # r
        BY <2>2, <2>4, <4>2 DEF Session, LockDiscipline, P
      <4> QED
        BY <4>1, <4>2
    <3>2. \A p \in Proposals : rowLock'[p] # None => keyShare'[p] = {}
      BY <2>2 DEF Session, LockDiscipline
    <3> QED
      BY <3>1, <3>2 DEF LockDiscipline
  <2>6. RequestsKnow'
    BY <1>2, <2>2, <2>4 DEF Session, RequestsKnow, P, C
  <2>7. RepliesOnTheirWay'
    BY <2>2, <2>4 DEF Session, RepliesOnTheirWay, P
  <2> QED
    BY <2>3, <2>5, <2>6, <2>7, SameTables, PartsNext
<1> QED
  BY <1>1, <1>2

LEMMA CreateCountIInv ==
  ASSUME IInv, NEW r \in Requests, CreateCount(r)
  PROVE  IInv'
<1> SUFFICES ASSUME NEW c, c = C(r), NEW p, p = P(r), NEW row,
                    row = [phase |-> "live", proposal |-> p, parent |-> target[r].parent]
             PROVE  IInv'
  OBVIOUS
<1>1. /\ Tables /\ Session /\ Knowledge /\ Data
      /\ at[r] = "count"
      /\ commentsNumber' = [commentsNumber EXCEPT ![p] = @ + 1]
      /\ comment' = [comment EXCEPT ![c] = row]
      /\ Finish(r) /\ proposals' = proposals /\ report' = report
  BY Parts DEF CreateCount
<1>2. p \in Proposals /\ p \in proposals /\ c \in Comments /\ comment[c] = NoComment
  BY <1>1 DEF Knowledge, RequestsKnow
<1>3. /\ row \in CommentRows /\ comment'[c] = row
      /\ \A d \in Comments \ {c} : comment'[d] = comment[d]
  BY <1>1, <1>2 DEF Tables, Session, Targets, CommentRows, Phases
<1>4. \A q \in Requests \ {r} : at[q] = "count" => C(q) \in Comments \ {c}
  BY <1>1 DEF Knowledge, RequestsKnow
<1>5. Session' /\ Knowledge'
  <2>1. \A q \in Requests \ {r} :
          /\ at[q] \in {"count", "cascade"} => P(q) \in proposals'
          /\ at[q] = "count" => comment'[C(q)] = NoComment
    BY <1>1, <1>3, <1>4 DEF Knowledge, RequestsKnow
  <2>2. \A d \in Comments : comment[d].phase # "unused" => d # c
    BY <1>2 DEF NoComment
  <2> QED
    BY <1>1, <1>3, <2>1, <2>2, FinishKnowledge
<1>6. Tables'
  BY <1>1, <1>2, <1>3 DEF Tables
<1>7. /\ CommentsOf(p)' = CommentsOf(p) \cup {c} /\ c \notin CommentsOf(p)
      /\ \A q \in Proposals \ {p} : CommentsOf(q)' = CommentsOf(q)
  BY <1>2, <1>3 DEF CommentsOf, NoComment
<1>8. CommentsAreCounted'
  <2>1. IsFiniteSet(CommentsOf(p))
    BY CommentsAssumption, FS_Subset DEF CommentsOf
  <2>2. Cardinality(CommentsOf(p)') = Cardinality(CommentsOf(p)) + 1
    BY <1>7, <2>1, FS_AddElement
  <2> QED
    BY <1>1, <1>2, <1>7, <2>2 DEF Data, CommentsAreCounted, Tables
<1>9. RowsAreWellFormed'
  BY <1>1, <1>2, <1>3 DEF Data, RowsAreWellFormed
<1>10. ThreadsStayOnProposal'
  <2> SUFFICES ASSUME NEW d \in Comments, comment'[d].phase = "live"
               PROVE  /\ comment'[d].proposal \in proposals
                      /\ comment'[d].parent # None =>
                           /\ comment'[d].parent \in Comments
                           /\ comment'[comment'[d].parent].phase = "live"
                           /\ comment'[comment'[d].parent].proposal = comment'[d].proposal
    BY <1>1 DEF ThreadsStayOnProposal, CommentsOf
  <2>1. CASE d = c
    BY <1>1, <1>2, <1>3, <2>1 DEF Knowledge, RepliesOnTheirWay, NoComment
  <2>2. CASE d # c
    BY <1>1, <1>2, <1>3, <2>2 DEF Data, ThreadsStayOnProposal, CommentsOf, NoComment
  <2> QED
    BY <2>1, <2>2
<1>11. ReportsStand'
  <2>1. \A i \in Reports : Live(i) => report[i].comment \in Comments \ {c}
    BY <1>1, <1>2 DEF Data, ReportsStand, RowsAreWellFormed, Live, NoComment
  <2> QED
    BY <1>1, <1>3, <2>1 DEF Data, ReportsStand, Live
<1> QED
  BY <1>5, <1>6, <1>8, <1>9, <1>10, <1>11, PartsNext DEF Data

-----------------------------------------------------------------------------
\* report() and removeReport()

\* Reports come and go one by one; comments and proposals stay.
LEMMA ReportsOnly ==
  ASSUME IInv, NEW r \in Requests, Finish(r),
         UNCHANGED <<proposals, commentsNumber, comment>>,
         report' \in [Reports -> ReportRows],
         \A i \in Reports : report'[i].phase # "unused" => report'[i].comment \in Comments,
         ReportsStand'
  PROVE  IInv'
<1>1. Tables /\ Session /\ Knowledge /\ Data
  BY Parts
<1>2. Session' /\ Knowledge'
  BY <1>1, FinishKnowledge DEF Knowledge, RequestsKnow
<1>3. \A p \in Proposals : CommentsOf(p)' = CommentsOf(p)
  BY DEF CommentsOf
<1>4. Tables' /\ CommentsAreCounted'
  BY <1>1, <1>3 DEF Tables, Data, CommentsAreCounted
<1>5. RowsAreWellFormed' /\ ThreadsStayOnProposal'
  BY <1>1 DEF Data, RowsAreWellFormed, ThreadsStayOnProposal, CommentsOf
<1> QED
  BY <1>2, <1>4, <1>5, PartsNext DEF Data

LEMMA ReportInsertIInv ==
  ASSUME IInv, NEW r \in Requests, NEW i \in Reports, ReportInsert(r, i)
  PROVE  IInv'
<1>1. CASE ~(comment[C(r)].phase = "live" /\ ~Reported(C(r), target[r].user))
  BY <1>1, RollbackIInv DEF ReportInsert
<1>2. CASE comment[C(r)].phase = "live" /\ ~Reported(C(r), target[r].user)
  <2> SUFFICES ASSUME NEW c, c = C(r), NEW u, u = target[r].user,
                      NEW row, row = [phase |-> "live", comment |-> c, reporter |-> u]
               PROVE  IInv'
    OBVIOUS
  <2>1. /\ Tables /\ Session /\ Knowledge /\ Data
        /\ at[r] = "report" /\ report[i] = NoReport
        /\ report' = [report EXCEPT ![i] = row]
        /\ Finish(r)
        /\ UNCHANGED <<proposals, commentsNumber, comment>>
    BY <1>2, Parts DEF ReportInsert
  <2>2. c \in Comments /\ u \in Users /\ comment[c].phase = "live"
    BY <1>2, <2>1 DEF Knowledge, RequestsKnow
  <2>3. /\ report'[i] = row /\ \A j \in Reports \ {i} : report'[j] = report[j]
        /\ report' \in [Reports -> ReportRows]
    BY <2>1, <2>2 DEF Tables, ReportRows, Phases
  <2>4. \A j \in Reports : Live(j) => ~(report[j].comment = c /\ report[j].reporter = u)
    BY <1>2 DEF Reported
  <2>5. ReportsStand'
    BY <2>1, <2>2, <2>3, <2>4 DEF Data, ReportsStand, Live, NoReport
  <2>6. \A j \in Reports : report'[j].phase # "unused" => report'[j].comment \in Comments
    BY <2>1, <2>2, <2>3 DEF Data, RowsAreWellFormed
  <2> QED
    BY <2>1, <2>3, <2>5, <2>6, ReportsOnly
<1> QED
  BY <1>1, <1>2

LEMMA UnreportDeleteIInv ==
  ASSUME IInv, NEW r \in Requests, UnreportDelete(r)
  PROVE  IInv'
<1> SUFFICES ASSUME NEW i, i = target[r].report PROVE IInv'
  OBVIOUS
<1>1. /\ Tables /\ Session /\ Knowledge /\ Data /\ at[r] = "unreport" /\ Finish(r)
      /\ UNCHANGED <<proposals, commentsNumber, comment>>
  BY Parts DEF UnreportDelete
<1>2. i \in Reports
  BY <1>1 DEF Knowledge, RequestsKnow
<1>3. CASE Live(i)
  <2>1. report' = [report EXCEPT ![i].phase = "gone"]
    BY <1>3 DEF UnreportDelete
  <2>2. /\ report'[i] = [report[i] EXCEPT !.phase = "gone"]
        /\ report'[i] \in ReportRows
        /\ report'[i].phase = "gone" /\ report'[i].comment = report[i].comment
        /\ \A j \in Reports \ {i} : report'[j] = report[j]
    BY <1>1, <1>2, <2>1 DEF Tables, ReportRows, Phases
  <2>3. report' \in [Reports -> ReportRows]
    BY <1>1, <1>2, <2>1, <2>2 DEF Tables
  <2>4. ReportsStand'
    <3>1. \A j \in Reports : Live(j)' => Live(j) /\ report'[j] = report[j]
      BY <2>2 DEF Live
    <3> QED
      BY <1>1, <3>1 DEF Data, ReportsStand
  <2>5. \A j \in Reports : report'[j].phase # "unused" => report'[j].comment \in Comments
    BY <1>1, <1>3, <2>2 DEF Data, RowsAreWellFormed, Live
  <2> QED
    BY <1>1, <2>3, <2>4, <2>5, ReportsOnly
<1>4. CASE ~Live(i)
  <2>1. report' = report
    BY <1>4 DEF UnreportDelete
  <2>2. ReportsStand'
    BY <1>1, <2>1 DEF Data, ReportsStand, Live
  <2>3. \A j \in Reports : report'[j].phase # "unused" => report'[j].comment \in Comments
    BY <1>1, <2>1 DEF Data, RowsAreWellFormed
  <2> QED
    BY <1>1, <2>1, <2>2, <2>3, ReportsOnly DEF Tables
<1> QED
  BY <1>3, <1>4

-----------------------------------------------------------------------------
\* remove()
LEMMA DeleteProposalIInv ==
  ASSUME IInv, NEW r \in Requests, DeleteProposal(r)
  PROVE  IInv'
<1>1. CASE P(r) \notin proposals
  BY <1>1, RollbackIInv DEF DeleteProposal
<1>2. CASE P(r) \in proposals
  <2>1. /\ Tables /\ Session /\ Knowledge /\ Data
        /\ at[r] = "delete" /\ rowLock[P(r)] = None /\ keyShare[P(r)] = {}
        /\ rowLock' = [rowLock EXCEPT ![P(r)] = r]
        /\ at' = [at EXCEPT ![r] = "cascade"]
        /\ UNCHANGED tables /\ UNCHANGED <<keyShare, target>>
    BY <1>2, Parts DEF DeleteProposal, Goto
  <2> USE <2>1 DEF tables, Knowledge
  <2>2. P(r) \in Proposals
    BY DEF RequestsKnow
  <2>3. Session'
    BY <2>2 DEF Session, Statements
  <2>4. LockDiscipline'
    <3>1. ASSUME NEW q \in Requests, NEW p \in Proposals
          PROVE  /\ q \in keyShare'[p] <=> at'[q] = "count" /\ P(q)' = p
                 /\ rowLock'[p] = q <=> at'[q] = "cascade" /\ P(q)' = p
      <4>1. CASE q = r
        BY <2>2, <4>1, CommentsAssumption DEF Session, LockDiscipline, P
      <4>2. CASE q # r
        BY <2>2, <4>2, CommentsAssumption DEF Session, LockDiscipline, P
      <4> QED
        BY <4>1, <4>2
    <3>2. \A p \in Proposals : rowLock'[p] # None => keyShare'[p] = {}
      BY <2>2 DEF Session, LockDiscipline
    <3> QED
      BY <3>1, <3>2 DEF LockDiscipline
  <2>5. RequestsKnow' /\ RepliesOnTheirWay'
    BY <1>2, <2>2 DEF Session, RequestsKnow, RepliesOnTheirWay, P, C
  <2> QED
    BY <2>3, <2>4, <2>5, SameTables, PartsNext
<1> QED
  BY <1>1, <1>2

\* The comments that fall are the proposal's own: no reply is elsewhere.
LEMMA OnlyItsOwnFall ==
  ASSUME Tables, Data, NEW p \in Proposals
  PROVE  Falling(p) = CommentsOf(p)
BY CommentsAssumption DEF Data, ThreadsStayOnProposal, Falling, CommentsOf

LEMMA CascadeIInv ==
  ASSUME IInv, NEW r \in Requests, Cascade(r)
  PROVE  IInv'
<1> SUFFICES ASSUME NEW p, p = P(r), NEW fall, fall = CommentsOf(p)
             PROVE  IInv'
  OBVIOUS
<1>1. /\ Tables /\ Session /\ Knowledge /\ Data /\ at[r] = "cascade" /\ Finish(r)
      /\ proposals' = proposals \ {p}
      /\ commentsNumber' = [commentsNumber EXCEPT ![p] = 0]
  BY Parts DEF Cascade
<1>2. p \in Proposals /\ p \in proposals /\ keyShare[p] = {} /\ rowLock[p] = r
  BY <1>1, CommentsAssumption DEF Knowledge, RequestsKnow, LockDiscipline
<1>3. Falling(p) = fall /\ fall \subseteq Comments
  BY <1>1, <1>2, OnlyItsOwnFall DEF CommentsOf
<1>4. \A c \in fall : comment[c].phase = "live" /\ comment[c].proposal = p
  BY DEF CommentsOf
<1>5. /\ comment' = [c \in Comments |->
             IF c \in fall THEN [comment[c] EXCEPT !.phase = "gone"] ELSE comment[c]]
      /\ report' = [i \in Reports |-> IF Live(i) /\ report[i].comment \in fall
                                      THEN [report[i] EXCEPT !.phase = "gone"] ELSE report[i]]
  BY <1>3 DEF Cascade
<1>6. \A c \in Comments :
        /\ c \in fall => /\ comment'[c].phase = "gone" /\ comment'[c].proposal = p
                         /\ comment'[c] \in CommentRows
        /\ c \notin fall => comment'[c] = comment[c]
  BY <1>1, <1>4, <1>5 DEF Tables, CommentRows, Phases
<1>7. \A i \in Reports :
        \/ /\ Live(i) /\ report[i].comment \in fall
           /\ report'[i].phase = "gone" /\ report'[i].comment = report[i].comment
           /\ report'[i] \in ReportRows
        \/ ~(Live(i) /\ report[i].comment \in fall) /\ report'[i] = report[i]
  BY <1>1, <1>5 DEF Tables, ReportRows, Phases
<1>8. Tables'
  BY <1>1, <1>2, <1>5, <1>6, <1>7 DEF Tables
<1>9. Session' /\ Knowledge'
  <2>1. ASSUME NEW q \in Requests, q # r
        PROVE  /\ at[q] \in {"count", "cascade"} => P(q) \in proposals /\ P(q) # p
               /\ at[q] = "count" => C(q) \in Comments \ fall /\ comment[C(q)] = NoComment
    <3>1. at[q] \in {"count", "cascade"} => P(q) \in proposals /\ P(q) \in Proposals
      BY <1>1 DEF Knowledge, RequestsKnow
    <3>2. at[q] = "count" => P(q) # p
      BY <1>1, <1>2, <3>1 DEF Knowledge, LockDiscipline
    <3>3. at[q] = "cascade" => P(q) # p
      BY <1>1, <1>2, <2>1, <3>1 DEF Knowledge, LockDiscipline
    <3>4. at[q] = "count" => C(q) \in Comments \ fall /\ comment[C(q)] = NoComment
      BY <1>1, <1>4 DEF Knowledge, RequestsKnow, NoComment
    <3> QED
      BY <3>1, <3>2, <3>3, <3>4
  <2>2. \A q \in Requests \ {r} :
          /\ at[q] \in {"count", "cascade"} => P(q) \in proposals'
          /\ at[q] = "count" => comment'[C(q)] = NoComment
          /\ at[q] \in {"insert", "count"} => (P(q) \in proposals' => P(q) \in proposals)
    BY <1>1, <1>6, <2>1
  <2>3. \A c \in Comments : comment[c].phase # "unused" =>
          comment'[c].phase # "unused" /\ comment'[c].proposal = comment[c].proposal
    BY <1>4, <1>6
  <2>4. \A c \in Comments : comment[c].phase = "live" /\ comment[c].proposal \in proposals' =>
          comment'[c].phase = "live"
    BY <1>1, <1>4, <1>6
  <2> QED
    BY <1>1, <2>2, <2>3, <2>4, FinishKnowledge
<1>10. /\ CommentsOf(p)' = {}
       /\ \A q \in Proposals \ {p} : CommentsOf(q)' = CommentsOf(q)
  BY <1>4, <1>6 DEF CommentsOf
<1>11. CommentsAreCounted'
  BY <1>1, <1>2, <1>10, FS_EmptySet DEF Tables, Data, CommentsAreCounted
<1>12. RowsAreWellFormed'
  <2>1. \A c \in Comments : comment'[c].phase = "unused" => comment'[c] = comment[c]
    BY <1>6
  <2>2. \A c \in Comments : comment'[c].phase # "unused" => comment'[c].proposal \in Proposals
    BY <1>1, <1>2, <1>6 DEF Data, RowsAreWellFormed
  <2>3. \A c \in Comments : comment'[c].phase = "unused" => comment'[c] = NoComment
    BY <1>1, <2>1 DEF Data, RowsAreWellFormed
  <2>4. \A i \in Reports : report'[i].phase # "unused" => report'[i].comment \in Comments
    BY <1>1, <1>3, <1>7 DEF Data, RowsAreWellFormed
  <2> QED
    BY <2>2, <2>3, <2>4 DEF RowsAreWellFormed
<1>13. ThreadsStayOnProposal'
  <2> SUFFICES ASSUME NEW c \in Comments, comment'[c].phase = "live"
               PROVE  /\ comment'[c].proposal \in proposals'
                      /\ comment'[c].parent # None =>
                           /\ comment'[c].parent \in Comments
                           /\ comment'[comment'[c].parent].phase = "live"
                           /\ comment'[comment'[c].parent].proposal = comment'[c].proposal
    BY DEF ThreadsStayOnProposal, CommentsOf
  <2>1. c \notin fall /\ comment'[c] = comment[c]
    BY <1>6
  <2>2. comment[c].proposal \in proposals /\ comment[c].proposal # p
    BY <1>1, <2>1 DEF Data, ThreadsStayOnProposal, CommentsOf
  <2>3. comment[c].parent # None => comment[c].parent \in CommentsOf(comment[c].proposal)
    BY <1>1, <2>1 DEF Data, ThreadsStayOnProposal
  <2>4. comment[c].parent # None => comment[c].parent \in Comments \ fall
    BY <1>4, <2>2, <2>3 DEF CommentsOf
  <2> QED
    BY <1>1, <1>6, <2>1, <2>2, <2>3, <2>4 DEF CommentsOf
<1>14. ReportsStand'
  <2>1. \A i \in Reports : Live(i)' =>
          Live(i) /\ report'[i] = report[i] /\ report[i].comment \in Comments \ fall
    BY <1>1, <1>7 DEF Live, Data, RowsAreWellFormed
  <2> QED
    BY <1>1, <1>6, <2>1 DEF Data, ReportsStand
<1> QED
  BY <1>8, <1>9, <1>11, <1>12, <1>13, <1>14, PartsNext DEF Data

-----------------------------------------------------------------------------
LEMMA NextIInv == IInv /\ [Next]_vars => IInv'
<1> SUFFICES ASSUME IInv, [Next]_vars PROVE IInv'
  OBVIOUS
<1>1. CASE UNCHANGED vars
  <2>1. Tables /\ Session /\ Knowledge /\ Data
    BY Parts
  <2>2. Session' /\ Knowledge'
    BY <1>1, <2>1 DEF vars, tables, locks, Session, Knowledge, LockDiscipline, RequestsKnow,
                      RepliesOnTheirWay, P, C
  <2> QED
    BY <1>1, <2>1, <2>2, SameTables, PartsNext DEF vars
<1>2. ASSUME NEW r \in Requests, NEW p \in Proposals, RemoveFind(r, p)
      PROVE  IInv'
  <2> DEFINE t == [NoTarget EXCEPT !.proposal = p]
  <2>1. t \in Targets /\ t.proposal = p
    BY DEF NoTarget, Targets
  <2>2. Start(r, "delete", t)
    BY <1>2 DEF RemoveFind
  <2> HIDE DEF t
  <2> QED
    BY <2>1, <2>2, StartIInv
<1>3. ASSUME NEW r \in Requests, NEW p \in Proposals, NEW c \in Comments \cup {None},
             CreateFind(r, p, c)
      PROVE  IInv'
  <2> DEFINE t == [NoTarget EXCEPT !.proposal = p, !.parent = c]
  <2>1. t \in Targets /\ t.proposal = p /\ t.parent = c
    BY DEF NoTarget, Targets
  <2>2. Start(r, "insert", t) /\ (c = None \/ c \in CommentsOf(p))
    BY <1>3 DEF CreateFind, ParentFound
  <2> HIDE DEF t
  <2> QED
    BY <2>1, <2>2, StartIInv
<1>4. ASSUME NEW r \in Requests, NEW c \in Comments, NEW u \in Users, ReportFind(r, c, u)
      PROVE  IInv'
  <2> DEFINE t == [NoTarget EXCEPT !.comment = c, !.user = u]
  <2>1. t \in Targets /\ t.comment = c /\ t.user = u
    BY DEF NoTarget, Targets
  <2>2. Start(r, "report", t) /\ comment[c].phase # "unused"
    BY <1>4 DEF ReportFind
  <2> HIDE DEF t
  <2> QED
    BY <2>1, <2>2, StartIInv
<1>5. ASSUME NEW r \in Requests, NEW i \in Reports, UnreportFind(r, i)
      PROVE  IInv'
  <2> DEFINE t == [NoTarget EXCEPT !.report = i]
  <2>1. t \in Targets /\ t.report = i
    BY DEF NoTarget, Targets
  <2>2. Start(r, "unreport", t)
    BY <1>5 DEF UnreportFind
  <2> HIDE DEF t
  <2> QED
    BY <2>1, <2>2, StartIInv
<1> QED
  BY <1>1, <1>2, <1>3, <1>4, <1>5, ReportInsertIInv, CreateInsertIInv, CreateCountIInv,
     UnreportDeleteIInv, DeleteProposalIInv, CascadeIInv, RollbackIInv
     DEF Next, Abort

\* The inductive invariant holds in every state the forum's comments reach.
THEOREM Inductive == Spec => []IInv
BY InitIInv, NextIInv, PTL DEF Spec

\* Comments are counted: CommentsService.create moves a proposal's counter in
\* the transaction that stores the comment, and a removal leaves the counters
\* of other proposals exact, for any number of requests.
THEOREM CommentsAreCountedHolds == Spec => []CommentsAreCounted
<1>1. IInv => CommentsAreCounted
  BY DEF IInv
<1> QED
  BY <1>1, Inductive, PTL

\* Threads stay on their proposal: a reply that found its parent before a
\* removal, and inserts after it, is refused by the foreign key.
THEOREM ThreadsStayOnProposalHolds == Spec => []ThreadsStayOnProposal
<1>1. IInv => ThreadsStayOnProposal
  BY DEF IInv
<1> QED
  BY <1>1, Inductive, PTL

\* Reports name comments that are there, and nobody reports one twice.
THEOREM ReportsStandHolds == Spec => []ReportsStand
<1>1. IInv => ReportsStand
  BY DEF IInv
<1> QED
  BY <1>1, Inductive, PTL

-----------------------------------------------------------------------------
\* The refinement of Discussion, one lemma per statement that changes a table.

LEMMA SameView == UNCHANGED tables => UNCHANGED Promised!vars
BY DEF tables, Promised!vars, Flags, Live

LEMMA InitIsEmpty == Init => Promised!Init
BY DEF Init, Promised!Init, NoComment, NoReport, Flags, Live

\* The count and the COMMIT of create() post the comment.
LEMMA CreateCountPosts ==
  ASSUME IInv, NEW r \in Requests, CreateCount(r)
  PROVE  Promised!Next
<1> DEFINE p == P(r)  c == C(r)  above == target[r].parent
<1>1. /\ p \in Proposals /\ p \in proposals /\ c \in Comments /\ comment[c] = NoComment
      /\ at[r] = "count"
  BY DEF IInv, RequestsKnow, CreateCount
<1>2. above = None \/ above \in Promised!Below(p)
  BY <1>1 DEF IInv, RepliesOnTheirWay, Promised!Below
<1>3. above \in Comments \cup {None}
  BY DEF IInv, TypeOK, Targets
<1>4. Promised!Post(p, c, above)
  BY <1>1, <1>2 DEF CreateCount, Promised!Post, NoComment, Flags, Live
<1> QED
  BY <1>1, <1>3, <1>4 DEF Promised!Next

\* The INSERT of report() flags the comment.
LEMMA ReportInsertFlags ==
  ASSUME IInv, NEW r \in Requests, NEW i \in Reports, ReportInsert(r, i)
  PROVE  Promised!Next \/ UNCHANGED Promised!vars
<1> DEFINE c == C(r)  u == target[r].user
<1>1. CASE comment[c].phase = "live" /\ ~Reported(c, u)
  <2>1. c \in Comments /\ u \in Users
    BY DEF IInv, RequestsKnow, ReportInsert
  <2>2. /\ report[i] = NoReport
        /\ report' = [report EXCEPT ![i] = [phase |-> "live", comment |-> c, reporter |-> u]]
        /\ UNCHANGED <<proposals, commentsNumber, comment>>
    BY <1>1 DEF ReportInsert
  <2>3. <<c, u>> \notin Flags
    BY <1>1 DEF Flags, Reported
  <2>4. Flags' = Flags \cup {<<c, u>>}
    <3>1. /\ report'[i] = [phase |-> "live", comment |-> c, reporter |-> u]
          /\ \A j \in Reports \ {i} : report'[j] = report[j]
      BY <2>2 DEF IInv, TypeOK
    <3>2. ~Live(i) /\ Live(i)' /\ \A j \in Reports \ {i} : Live(j)' <=> Live(j)
      BY <2>2, <3>1 DEF Live, NoReport
    <3> QED
      BY <3>1, <3>2 DEF Flags
  <2>5. Promised!Flag(c, u)
    BY <1>1, <2>2, <2>3, <2>4 DEF Promised!Flag
  <2> QED
    BY <2>1, <2>5 DEF Promised!Next
<1>2. CASE ~(comment[c].phase = "live" /\ ~Reported(c, u))
  BY <1>2, SameView DEF ReportInsert, Rollback
<1> QED
  BY <1>1, <1>2

\* The DELETE of removeReport() takes the flag away: no second report sets it.
LEMMA UnreportDeleteUnflags ==
  ASSUME IInv, NEW r \in Requests, UnreportDelete(r)
  PROVE  Promised!Next \/ UNCHANGED Promised!vars
<1>1. target[r].report \in Reports /\ UNCHANGED <<proposals, commentsNumber, comment>>
  BY DEF IInv, RequestsKnow, UnreportDelete
<1> SUFFICES ASSUME NEW i \in Reports, i = target[r].report,
                    NEW flag, flag = <<report[i].comment, report[i].reporter>>
             PROVE  Promised!Next \/ UNCHANGED Promised!vars
  BY <1>1
<1>2. CASE Live(i)
  <2>1. /\ report'[i] = [report[i] EXCEPT !.phase = "gone"]
        /\ \A j \in Reports \ {i} : report'[j] = report[j]
    <3>1. report \in [Reports -> ReportRows]
      BY DEF IInv, TypeOK
    <3>2. report' = [report EXCEPT ![i].phase = "gone"]
      BY <1>2 DEF UnreportDelete
    <3> QED
      BY <1>1, <3>1, <3>2
  <2>2. ~Live(i)' /\ \A j \in Reports \ {i} : Live(j)' <=> Live(j)
    <3>1. report[i] \in ReportRows
      BY <1>1 DEF IInv, TypeOK
    <3>2. report'[i].phase = "gone"
      BY <2>1, <3>1 DEF ReportRows
    <3>3. ASSUME NEW j \in Reports \ {i} PROVE Live(j)' <=> Live(j)
      BY <2>1, <3>3 DEF Live
    <3> QED
      BY <3>2, <3>3 DEF Live
  <2>3. \A j \in Reports \ {i} : Live(j) => <<report[j].comment, report[j].reporter>> # flag
    BY <1>1, <1>2 DEF IInv, ReportsStand
  <2>4. flag \in Flags /\ Flags' = Flags \ {flag}
    BY <1>1, <1>2, <2>1, <2>2, <2>3 DEF Flags
  <2>5. Promised!Unflag(flag)
    BY <1>1, <2>4 DEF Promised!Unflag
  <2> QED
    BY <2>4, <2>5 DEF Promised!Next
<1>3. CASE ~Live(i)
  BY <1>1, <1>3, SameView DEF UnreportDelete, tables
<1> QED
  BY <1>2, <1>3

\* The cascade closes the proposal: what falls is what is below it.
LEMMA CascadeCloses ==
  ASSUME IInv, NEW r \in Requests, Cascade(r)
  PROVE  Promised!Next
<1> SUFFICES ASSUME NEW p, p = P(r) PROVE Promised!Next
  OBVIOUS
<1>1. p \in Proposals /\ p \in proposals
  BY DEF IInv, RequestsKnow, Cascade
<1>2. Falling(p) = Promised!Below(p)
  <2>1. Falling(p) = CommentsOf(p)
    BY <1>1, OnlyItsOwnFall, Parts
  <2> QED
    BY <2>1 DEF CommentsOf, Promised!Below
<1>3. Flags' = {x \in Flags : x[1] \notin Falling(p)}
  <2>1. \A j \in Reports :
          report'[j] = IF Live(j) /\ report[j].comment \in Falling(p)
                       THEN [report[j] EXCEPT !.phase = "gone"] ELSE report[j]
    BY DEF Cascade
  <2>2. \A j \in Reports : Live(j)' <=> Live(j) /\ report[j].comment \notin Falling(p)
    <3> SUFFICES ASSUME NEW j \in Reports
                 PROVE  Live(j)' <=> Live(j) /\ report[j].comment \notin Falling(p)
      OBVIOUS
    <3>1. report[j] \in ReportRows
      BY DEF IInv, TypeOK
    <3>2. [report[j] EXCEPT !.phase = "gone"].phase = "gone"
      BY <3>1 DEF ReportRows
    <3>3. CASE Live(j) /\ report[j].comment \in Falling(p)
      BY <2>1, <3>2, <3>3 DEF Live
    <3>4. CASE ~(Live(j) /\ report[j].comment \in Falling(p))
      BY <2>1, <3>4 DEF Live
    <3> QED
      BY <3>3, <3>4
  <2>3. \A j \in Reports : Live(j)' => report'[j] = report[j]
    BY <2>1, <2>2
  <2> QED
    BY <2>2, <2>3 DEF Flags
<1>4. Promised!Close(p)
  BY <1>1, <1>2, <1>3 DEF Cascade, Promised!Close
<1> QED
  BY <1>1, <1>4 DEF Promised!Next

LEMMA NextImplements == IInv /\ [Next]_vars => [Promised!Next]_(Promised!vars)
<1> SUFFICES ASSUME IInv, [Next]_vars PROVE Promised!Next \/ UNCHANGED Promised!vars
  OBVIOUS
<1>1. UNCHANGED vars => UNCHANGED tables
  BY DEF vars
<1>2. ASSUME NEW r \in Requests, NEW t, NEW stmt, Start(r, stmt, t) PROVE UNCHANGED tables
  BY <1>2 DEF Start
<1>3. ASSUME NEW r \in Requests,
             Rollback(r) \/ DeleteProposal(r) \/ \E c \in Comments : CreateInsert(r, c)
      PROVE  UNCHANGED tables
  BY <1>3 DEF Rollback, DeleteProposal, CreateInsert, tables
<1> QED
  BY <1>1, <1>2, <1>3, SameView, CreateCountPosts, ReportInsertFlags, UnreportDeleteUnflags,
     CascadeCloses DEF Next, RemoveFind, CreateFind, ReportFind, UnreportFind, Abort

\* Comments and reports are a Discussion to whoever reads them: no interleaving
\* of create, report, removeReport and remove shows a comment that is not
\* counted, a reply without its parent, a report that outlives its withdrawal,
\* or a removal by halves.
THEOREM ImplementsDiscussionHolds == Spec => ImplementsDiscussion
<1>1. IInv /\ [Next]_vars => [Promised!Next]_(Promised!vars)
  BY NextImplements
<1> QED
  BY <1>1, InitIsEmpty, Inductive, PTL DEF ImplementsDiscussion, Promised!Spec, Spec

-----------------------------------------------------------------------------
Working == {r \in Requests : at[r] # "idle"}

\* The next statement of r waits for nobody: the guards of its step, but for
\* the ids, which are bounded here and not in the database.
CanRun(r) ==
  \/ at[r] \in {"insert", "count"} /\ rowLock[P(r)] = None
  \/ at[r] = "report" /\ rowLock[comment[C(r)].proposal] = None
  \/ /\ at[r] = "unreport"
     /\ LET i == target[r].report
        IN  Live(i) => rowLock[comment[report[i].comment].proposal] = None
  \/ at[r] = "delete" /\ rowLock[P(r)] = None /\ keyShare[P(r)] = {}
  \/ at[r] = "cascade"

\* A cascade and a count wait for nobody, and everybody else for these two.
LEMMA OneCanRun == IInv => (Working # {} => \E r \in Working : CanRun(r))
<1> SUFFICES ASSUME IInv, NEW r \in Working, \A q \in Working : ~CanRun(q) PROVE FALSE
  OBVIOUS
<1>1. \A q \in Requests : at[q] # "cascade"
  BY DEF CanRun, Working
<1>2. \A p \in Proposals : rowLock[p] = None
  BY <1>1 DEF IInv, TypeOK, LockDiscipline
<1>3. \A q \in Requests : at[q] \in {"insert", "count", "delete"} => P(q) \in Proposals
  BY DEF IInv, RequestsKnow
<1>4. \A q \in Requests : at[q] \notin {"insert", "count"}
  BY <1>2, <1>3 DEF CanRun, Working
<1>5. \A p \in Proposals : keyShare[p] = {}
  BY <1>4 DEF IInv, TypeOK, LockDiscipline
<1>6. at[r] # "delete"
  BY <1>2, <1>3, <1>5 DEF CanRun, Working
<1>7. at[r] # "report"
  <2> SUFFICES ASSUME at[r] = "report" PROVE FALSE
    OBVIOUS
  <2>1. comment[C(r)].proposal \in Proposals
    BY DEF IInv, RequestsKnow, RowsAreWellFormed, Working
  <2> QED
    BY <1>2, <2>1 DEF CanRun
<1>8. at[r] # "unreport"
  <2> SUFFICES ASSUME at[r] = "unreport" PROVE FALSE
    OBVIOUS
  <2> DEFINE i == target[r].report
  <2>1. i \in Reports
    BY DEF IInv, RequestsKnow, Working
  <2>2. Live(i) => comment[report[i].comment].proposal \in Proposals
    BY <2>1 DEF IInv, RowsAreWellFormed, ReportsStand, Live
  <2> QED
    BY <1>2, <2>2 DEF CanRun
<1> QED
  BY <1>1, <1>4, <1>6, <1>7, <1>8 DEF IInv, TypeOK, Statements, Working

\* Comments, reports, withdrawals and removals never all wait: the only chains
\* of waiters end at a count or a cascade, so none of them is a deadlock.
THEOREM NeverAllWait == Spec => [](Working # {} => \E r \in Working : CanRun(r))
BY OneCanRun, Inductive, PTL
=============================================================================
