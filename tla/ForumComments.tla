---------------------------- MODULE ForumComments ----------------------------
(***************************************************************************)
(* Comments on proposals and reports of comments in govtool-pdf-backend:   *)
(* CommentsService.create, report and removeReport, and the cascade of     *)
(* ProposalsService.remove, run by concurrent requests.                    *)
(*                                                                         *)
(* One step is one SQL statement at READ COMMITTED, except that the last   *)
(* UPDATE of a transaction and its COMMIT are one step.  An INSERT takes a *)
(* key share of the rows its foreign keys name, which the UPDATE of a      *)
(* counter does not conflict with and a DELETE does; it is visible once    *)
(* committed.  The reads of one request before its first write only gate   *)
(* it and are one step.                                                    *)
(***************************************************************************)
EXTENDS Naturals, FiniteSets

CONSTANTS Proposals, Users, Requests, None,
          Comments, \* ids of comments, none handed out twice: the model's bound
          Reports   \* ids of reports

ASSUME CommentsAssumption ==
  /\ None \notin Proposals \cup Users \cup Requests \cup Comments \cup Reports
  /\ IsFiniteSet(Comments)

VARIABLES proposals,      \* committed proposals
          commentsNumber, \* the counter in the proposal's row
          comment,        \* every comment
          report,         \* every report
          keyShare,       \* requests holding a key share of each proposal row
          rowLock,        \* the request deleting each proposal row
          at,             \* the next statement of each request
          target          \* the rows it works on

tables == <<proposals, commentsNumber, comment, report>>
locks  == <<keyShare, rowLock>>
vars   == <<tables, locks, at, target>>

Phases == {"unused", "live", "gone"}
NoComment == [phase |-> "unused", proposal |-> None, parent |-> None]
NoReport == [phase |-> "unused", comment |-> None, reporter |-> None]
NoTarget == [proposal |-> None, comment |-> None, parent |-> None, report |-> None,
             user |-> None]
Statements == {"idle", "insert", "count", "report", "unreport", "delete", "cascade"}
Targets == [proposal : Proposals \cup {None}, comment : Comments \cup {None},
            parent : Comments \cup {None}, report : Reports \cup {None}, user : Users \cup {None}]
CommentRows == [phase : Phases, proposal : Proposals \cup {None}, parent : Comments \cup {None}]
ReportRows == [phase : Phases, comment : Comments \cup {None}, reporter : Users \cup {None}]

TypeOK ==
  /\ proposals \subseteq Proposals
  /\ commentsNumber \in [Proposals -> Nat]
  /\ comment \in [Comments -> CommentRows]
  /\ report \in [Reports -> ReportRows]
  /\ keyShare \in [Proposals -> SUBSET Requests]
  /\ rowLock \in [Proposals -> Requests \cup {None}]
  /\ at \in [Requests -> Statements]
  /\ target \in [Requests -> Targets]

Init ==
  /\ proposals = Proposals
  /\ commentsNumber = [p \in Proposals |-> 0]
  /\ comment = [c \in Comments |-> NoComment]
  /\ report = [i \in Reports |-> NoReport]
  /\ keyShare = [p \in Proposals |-> {}]
  /\ rowLock = [p \in Proposals |-> None]
  /\ at = [r \in Requests |-> "idle"]
  /\ target = [r \in Requests |-> NoTarget]

P(r) == target[r].proposal
C(r) == target[r].comment
CommentsOf(p) == {c \in Comments : comment[c].phase = "live" /\ comment[c].proposal = p}
Live(i) == report[i].phase = "live"

Goto(r, stmt) == at' = [at EXCEPT ![r] = stmt]

Start(r, stmt, t) ==
  /\ at[r] = "idle"
  /\ Goto(r, stmt)
  /\ target' = [target EXCEPT ![r] = t]
  /\ UNCHANGED <<tables, locks>>

\* The transaction is over, by COMMIT or ROLLBACK: its locks go.
Finish(r) ==
  /\ Goto(r, "idle")
  /\ target' = [target EXCEPT ![r] = NoTarget]
  /\ keyShare' = [p \in Proposals |-> keyShare[p] \ {r}]
  /\ rowLock' = [p \in Proposals |-> IF rowLock[p] = r THEN None ELSE rowLock[p]]

Rollback(r) == Finish(r) /\ UNCHANGED tables

-----------------------------------------------------------------------------
\* create()

\* Mutant: a reply may name a comment of another proposal.
ParentFoundAnywhere(p, c) == \E q \in proposals : c \in CommentsOf(q)

\* A reply's parent is a comment of the same proposal.
ParentFound(p, c) == c \in CommentsOf(p)

CreateFind(r, p, parent) ==
  /\ p \in proposals
  /\ parent = None \/ ParentFound(p, parent)
  /\ Start(r, "insert", [NoTarget EXCEPT !.proposal = p, !.parent = parent])

\* Mutant: the insert is committed before the counter is updated.
CreateInsertCommits(r, c) ==
  /\ at[r] = "insert" /\ rowLock[P(r)] = None
  /\ IF P(r) \in proposals
     THEN /\ comment[c] = NoComment
          /\ comment' = [comment EXCEPT ![c] = [phase |-> "live", proposal |-> P(r),
                                                parent |-> target[r].parent]]
          /\ target' = [target EXCEPT ![r].comment = c]
          /\ Goto(r, "count")
          /\ UNCHANGED <<proposals, commentsNumber, report, keyShare, rowLock>>
     ELSE Rollback(r)

\* INSERT: waits for a delete of the proposal, whose foreign key may then
\* refuse it.  The parent goes with the proposal and with nothing else.
CreateInsert(r, c) ==
  /\ at[r] = "insert" /\ rowLock[P(r)] = None
  /\ IF P(r) \in proposals
     THEN /\ comment[c] = NoComment
          /\ \A q \in Requests : C(q) # c
          /\ keyShare' = [keyShare EXCEPT ![P(r)] = @ \cup {r}]
          /\ target' = [target EXCEPT ![r].comment = c]
          /\ Goto(r, "count")
          /\ UNCHANGED <<tables, rowLock>>
     ELSE Rollback(r)

\* comments_number = comments_number + 1, on the row's latest version, and COMMIT.
CreateCount(r) ==
  /\ at[r] = "count" /\ rowLock[P(r)] = None
  /\ commentsNumber' = [commentsNumber EXCEPT ![P(r)] = @ + 1]
  /\ comment' = [comment EXCEPT ![C(r)] = [phase |-> "live", proposal |-> P(r),
                                           parent |-> target[r].parent]]
  /\ Finish(r)
  /\ UNCHANGED <<proposals, report>>

-----------------------------------------------------------------------------
\* report() and removeReport()

Reported(c, u) == \E i \in Reports : Live(i) /\ report[i].comment = c /\ report[i].reporter = u

ReportFind(r, c, u) ==
  /\ comment[c].phase = "live"
  /\ ~Reported(c, u)
  /\ Start(r, "report", [NoTarget EXCEPT !.comment = c, !.user = u])

\* INSERT, a transaction of its own: waits for a cascade that is deleting the
\* comment; the foreign key or the unique index may refuse it.
ReportInsert(r, i) ==
  LET c == C(r)
  IN  /\ at[r] = "report" /\ rowLock[comment[c].proposal] = None
      /\ IF comment[c].phase = "live" /\ ~Reported(c, target[r].user)
         THEN /\ report[i] = NoReport
              /\ report' = [report EXCEPT ![i] = [phase |-> "live", comment |-> c,
                                                  reporter |-> target[r].user]]
              /\ Finish(r)
              /\ UNCHANGED <<proposals, commentsNumber, comment>>
         ELSE Rollback(r)

UnreportFind(r, i) ==
  /\ Live(i)
  /\ Start(r, "unreport", [NoTarget EXCEPT !.report = i])

\* DELETE by id, a transaction of its own: the report may be gone by now.
UnreportDelete(r) ==
  LET i == target[r].report
  IN  /\ at[r] = "unreport"
      /\ Live(i) => rowLock[comment[report[i].comment].proposal] = None
      /\ report' = IF Live(i) THEN [report EXCEPT ![i].phase = "gone"] ELSE report
      /\ Finish(r)
      /\ UNCHANGED <<proposals, commentsNumber, comment>>

-----------------------------------------------------------------------------
\* ProposalsService.remove(), from its DELETE on

RemoveFind(r, p) ==
  /\ p \in proposals
  /\ Start(r, "delete", [NoTarget EXCEPT !.proposal = p])

DeleteProposal(r) ==
  /\ at[r] = "delete"
  /\ rowLock[P(r)] = None /\ keyShare[P(r)] = {}
  /\ IF P(r) \in proposals
     THEN /\ rowLock' = [rowLock EXCEPT ![P(r)] = r]
          /\ Goto(r, "cascade")
          /\ UNCHANGED <<tables, keyShare, target>>
     ELSE Rollback(r)

\* The comments of the proposal, and replies to them wherever they are.
Falling(p) ==
  {c \in Comments : comment[c].phase = "live" /\
     (c \in CommentsOf(p) \/ comment[c].parent \in CommentsOf(p))}

\* The cascades of the foreign keys, and COMMIT.
Cascade(r) ==
  /\ at[r] = "cascade"
  /\ proposals' = proposals \ {P(r)}
  /\ commentsNumber' = [commentsNumber EXCEPT ![P(r)] = 0]
  /\ comment' = [c \in Comments |->
       IF c \in Falling(P(r)) THEN [comment[c] EXCEPT !.phase = "gone"] ELSE comment[c]]
  /\ report' = [i \in Reports |->
       IF Live(i) /\ report[i].comment \in Falling(P(r))
       THEN [report[i] EXCEPT !.phase = "gone"] ELSE report[i]]
  /\ Finish(r)

-----------------------------------------------------------------------------
\* The request dies before its next statement: its transaction rolls back.
Abort(r) == at[r] # "idle" /\ Rollback(r)

Next ==
  \/ \E r \in Requests, p \in Proposals : RemoveFind(r, p)
  \/ \E r \in Requests, p \in Proposals, c \in Comments \cup {None} : CreateFind(r, p, c)
  \/ \E r \in Requests, c \in Comments, u \in Users : ReportFind(r, c, u)
  \/ \E r \in Requests, i \in Reports : UnreportFind(r, i) \/ ReportInsert(r, i)
  \/ \E r \in Requests, c \in Comments : CreateInsert(r, c)
  \/ \E r \in Requests :
       CreateCount(r) \/ UnreportDelete(r) \/ DeleteProposal(r) \/ Cascade(r) \/ Abort(r)

Spec == Init /\ [][Next]_vars

-----------------------------------------------------------------------------
\* The counter changes in the transaction that inserts the comment, so at every
\* commit it equals the comments stored, whatever comments, crashes and
\* removals of this and of other proposals come together.
CommentsAreCounted == \A p \in Proposals : commentsNumber[p] = Cardinality(CommentsOf(p))

\* "The parent must sit on the same proposal" (delta 34), and as long as the
\* reply is there so is what it replies to.
ThreadsStayOnProposal ==
  \A c \in Comments : comment[c].phase = "live" =>
    /\ comment[c].proposal \in proposals
    /\ comment[c].parent # None => comment[c].parent \in CommentsOf(comment[c].proposal)

\* A report names a comment that is there, and nobody reports it twice,
\* however reports, withdrawals and removals overlap.
ReportsStand ==
  /\ \A i \in Reports : Live(i) => comment[report[i].comment].phase = "live"
  /\ \A i, j \in Reports :
       Live(i) /\ Live(j) /\ report[i].comment = report[j].comment
         /\ report[i].reporter = report[j].reporter => i = j

\* Who holds a lock is at a statement that needs it.
LockDiscipline ==
  /\ \A r \in Requests, p \in Proposals :
       /\ r \in keyShare[p] <=> at[r] = "count" /\ P(r) = p
       /\ rowLock[p] = r <=> at[r] = "cascade" /\ P(r) = p
  /\ \A p \in Proposals : rowLock[p] # None => keyShare[p] = {}

\* What a request found still holds where a lock protects it.
RequestsKnow ==
  /\ \A r \in Requests :
       /\ at[r] \in {"insert", "count", "delete", "cascade"} => P(r) \in Proposals
       /\ at[r] \in {"count", "cascade"} => P(r) \in proposals
       /\ at[r] = "count" => C(r) \in Comments /\ comment[C(r)] = NoComment
       /\ at[r] = "report" =>
            C(r) \in Comments /\ comment[C(r)].phase # "unused" /\ target[r].user \in Users
       /\ at[r] = "unreport" => target[r].report \in Reports
  /\ \A q, r \in Requests : at[q] = "count" /\ at[r] = "count" /\ C(q) = C(r) => q = r

\* A reply on its way has its parent, unless the proposal is gone.
RepliesOnTheirWay ==
  \A r \in Requests : at[r] \in {"insert", "count"} /\ target[r].parent # None =>
    /\ target[r].parent \in Comments
    /\ comment[target[r].parent].phase # "unused"
    /\ comment[target[r].parent].proposal = P(r)
    /\ P(r) \in proposals => comment[target[r].parent].phase = "live"

RowsAreWellFormed ==
  /\ \A c \in Comments : comment[c].phase # "unused" => comment[c].proposal \in Proposals
  /\ \A c \in Comments : comment[c].phase = "unused" => comment[c] = NoComment
  /\ \A i \in Reports : report[i].phase # "unused" => report[i].comment \in Comments

IInv ==
  /\ TypeOK /\ LockDiscipline /\ RequestsKnow /\ RepliesOnTheirWay /\ RowsAreWellFormed
  /\ CommentsAreCounted /\ ThreadsStayOnProposal /\ ReportsStand

Flags == {<<report[i].comment, report[i].reporter>> : i \in {j \in Reports : Live(j)}}

Promised == INSTANCE Discussion WITH
  open <- proposals, size <- commentsNumber, post <- comment, flags <- Flags

\* The statements, locks, cascades and rollbacks implement Discussion: whatever
\* the interleaving, a comment and its count appear together, a withdrawal
\* withdraws, and a removal takes what is below its proposal and nothing else.
ImplementsDiscussion == Promised!Spec
=============================================================================
