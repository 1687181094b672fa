--------------------------- MODULE ForumProposals ---------------------------
(***************************************************************************)
(* Proposals and their contents (revisions) in govtool-pdf-backend:        *)
(* ProposalsService.create, remove, createContent and updateContent, run   *)
(* by concurrent requests against one Postgres database.                   *)
(*                                                                         *)
(* One step is one SQL statement.  Transactions run at READ COMMITTED: a   *)
(* statement sees what is committed when it starts and what its own        *)
(* transaction wrote.  What a transaction wrote is kept in the request's   *)
(* own variables until its commit; the rows it wrote stay locked until     *)
(* then.  A request may die between any two of its statements (crash,      *)
(* Prisma's transaction timeout, a deadlock victim), which rolls it back.  *)
(*                                                                         *)
(* Abstracted: the text of a content, its links and withdrawals (written   *)
(* in the content's own INSERT), request validation and ownership (a       *)
(* request refused there has changed nothing).  The hard-fork row of a     *)
(* content carries the content's id, since each belongs to one content.    *)
(***************************************************************************)
EXTENDS Naturals, FiniteSets

CONSTANTS Proposals,   \* ids the proposals sequence can hand out
          Contents,    \* ids the proposal_contents sequence can hand out
          TxHashes,    \* submission transaction hashes
          Requests,    \* requests the server handles concurrently
          None         \* no proposal, content, hash or request

ASSUME ProposalsAssumption ==
  /\ None \notin Proposals \cup Contents \cup TxHashes \cup Requests
  /\ Proposals \cap Contents = {} \* two sequences
  /\ IsFiniteSet(Contents) /\ IsFiniteSet(Requests)

VARIABLES proposals,   \* committed rows of "proposals"
          contents,    \* committed rows of "proposal_contents"
          row,         \* the columns of each committed content
          hardForks,   \* committed rows of "proposal_hard_fork_contents"
          used,        \* proposal and content ids handed out, never again
          rowLock,     \* who holds the lock of each row of "proposals"
          at,          \* the next statement of each request
          proposal,    \* the proposal a request works on
          content,     \* the content a request inserts or submits
          input,       \* the validated body of a request
          read,        \* hard-fork ids that remove() has read
          held         \* committed contents whose lock a request holds

tables  == <<proposals, contents, row, hardForks, used>>
session == <<at, proposal, content, input, read, held>>
vars    == <<tables, rowLock, session>>

Input == [isDraft : BOOLEAN, hardFork : BOOLEAN, txHash : TxHashes \cup {None}]
NoInput == [isDraft |-> FALSE, hardFork |-> FALSE, txHash |-> None]

Row == [proposal : Proposals \cup {None}, isDraft : BOOLEAN, revActive : BOOLEAN,
        submitted : BOOLEAN, txHash : TxHashes \cup {None}, hardFork : BOOLEAN]
NoRow == [proposal |-> None, isDraft |-> FALSE, revActive |-> FALSE,
          submitted |-> FALSE, txHash |-> None, hardFork |-> FALSE]

Statements == {"idle", "lock", "count", "insert", "deactivate", "commit",
               "readForks", "delete", "deleteForks", "update"}

TypeOK ==
  /\ proposals \subseteq Proposals
  /\ contents \subseteq Contents
  /\ row \in [Contents -> Row]
  /\ hardForks \subseteq Contents
  /\ used \subseteq Proposals \cup Contents
  /\ rowLock \in [Proposals -> Requests \cup {None}]
  /\ at \in [Requests -> Statements]
  /\ proposal \in [Requests -> Proposals \cup {None}]
  /\ content \in [Requests -> Contents \cup {None}]
  /\ input \in [Requests -> Input]
  /\ read \in [Requests -> SUBSET Contents]
  /\ held \in [Requests -> SUBSET Contents]

ContentsOf(p) == {c \in contents : row[c].proposal = p}

\* The content the item route shows: findOne's active, non-draft revision.
Public(c) == c \in contents /\ row[c].revActive /\ ~row[c].isDraft
Published(p) == \E c \in ContentsOf(p) : Public(c)

\* No other request has written this content and not yet committed.
RowFree(r, c) == \A q \in Requests \ {r} : c \notin held[q]

\* The row insertContent writes: always active, never submitted.
NewRow(p, in) ==
  [proposal |-> p, isDraft |-> in.isDraft, revActive |-> TRUE,
   submitted |-> FALSE, txHash |-> None, hardFork |-> in.hardFork]

\* The model's bound: ids are finite, so a request that will need one starts
\* only while one is left for it.
AwaitsId(r) == at[r] \in {"lock", "count", "insert"}
HasRoom == Cardinality({r \in Requests : AwaitsId(r)})
             < Cardinality(Contents \ used)

-----------------------------------------------------------------------------
Init ==
  /\ proposals = {} /\ contents = {} /\ hardForks = {} /\ used = {}
  /\ row = [c \in Contents |-> NoRow]
  /\ rowLock = [p \in Proposals |-> None]
  /\ at = [r \in Requests |-> "idle"]
  /\ proposal = [r \in Requests |-> None]
  /\ content = [r \in Requests |-> None]
  /\ input = [r \in Requests |-> NoInput]
  /\ read = [r \in Requests |-> {}]
  /\ held = [r \in Requests |-> {}]

Goto(r, stmt) == at' = [at EXCEPT ![r] = stmt]

\* The request has answered: its transaction, if any, is over.
Finish(r) ==
  /\ Goto(r, "idle")
  /\ proposal' = [proposal EXCEPT ![r] = None]
  /\ content' = [content EXCEPT ![r] = None]
  /\ input' = [input EXCEPT ![r] = NoInput]
  /\ read' = [read EXCEPT ![r] = {}]
  /\ held' = [held EXCEPT ![r] = {}]
  /\ rowLock' = [p \in Proposals |-> IF rowLock[p] = r THEN None ELSE rowLock[p]]

Rollback(r) == Finish(r) /\ UNCHANGED tables

\* create(): one transaction that only writes rows nobody else can see yet.
Create(p, c, in) ==
  /\ HasRoom
  /\ p \in Proposals \ used /\ c \in Contents \ used
  /\ used' = used \cup {p, c}
  /\ proposals' = proposals \cup {p}
  /\ contents' = contents \cup {c}
  /\ row' = [row EXCEPT ![c] = NewRow(p, in)]
  /\ hardForks' = IF in.hardFork THEN hardForks \cup {c} ELSE hardForks
  /\ UNCHANGED <<rowLock, session>>

-----------------------------------------------------------------------------
\* createContent()

\* The proposal is read and the body validated before the transaction.
ReviseFind(r, p, in) ==
  /\ at[r] = "idle" /\ HasRoom
  /\ p \in proposals
  /\ Goto(r, "lock")
  /\ proposal' = [proposal EXCEPT ![r] = p]
  /\ input' = [input EXCEPT ![r] = in]
  /\ UNCHANGED <<tables, rowLock, content, read, held>>

\* Mutant: SELECT without FOR UPDATE.
ReviseLockPlainSelect(r) ==
  /\ at[r] = "lock"
  /\ Goto(r, "count")
  /\ UNCHANGED <<tables, rowLock, proposal, content, input, read, held>>

\* SELECT ... FOR UPDATE waits for the row's lock; a row deleted meanwhile
\* yields no rows, which the code does not look at.
ReviseLock(r) ==
  /\ at[r] = "lock"
  /\ rowLock[proposal[r]] = None
  /\ rowLock' = IF proposal[r] \in proposals
                THEN [rowLock EXCEPT ![proposal[r]] = r] ELSE rowLock
  /\ Goto(r, "count")
  /\ UNCHANGED <<tables, proposal, content, input, read, held>>

SubmittedRevision(p) == \E c \in ContentsOf(p) : Public(c) /\ row[c].submitted

\* Mutant: the count is taken again until it is zero.
ReviseCountRetries(r) ==
  /\ at[r] = "count"
  /\ ~SubmittedRevision(proposal[r])
  /\ Goto(r, "insert")
  /\ UNCHANGED <<tables, rowLock, proposal, content, input, read, held>>

\* A submitted revision refuses the new one, which ends the transaction.
ReviseCount(r) ==
  /\ at[r] = "count"
  /\ IF SubmittedRevision(proposal[r])
     THEN Rollback(r)
     ELSE /\ Goto(r, "insert")
          /\ UNCHANGED <<tables, rowLock, proposal, content, input, read, held>>

\* insertContent(): the id is spent even if the transaction rolls back; the
\* foreign key refuses a content of a deleted proposal.
ReviseInsert(r, c) ==
  /\ at[r] = "insert"
  /\ c \in Contents \ used
  /\ IF proposal[r] \in proposals
     THEN /\ used' = used \cup {c}
          /\ content' = [content EXCEPT ![r] = c]
          /\ Goto(r, IF input[r].isDraft THEN "commit" ELSE "deactivate")
          /\ UNCHANGED <<proposals, contents, row, hardForks, rowLock,
                         proposal, input, read, held>>
     ELSE Rollback(r)

\* updateMany: every other active content of the proposal that is committed now.
ReviseDeactivate(r) ==
  LET others == {c \in ContentsOf(proposal[r]) : row[c].revActive}
  IN  /\ at[r] = "deactivate"
      /\ \A c \in others : RowFree(r, c)
      /\ held' = [held EXCEPT ![r] = others]
      /\ Goto(r, "commit")
      /\ UNCHANGED <<tables, rowLock, proposal, content, input, read>>

ReviseCommit(r) ==
  LET c == content[r]
  IN  /\ at[r] = "commit"
      /\ contents' = contents \cup {c}
      /\ row' = [d \in Contents |->
                   IF d = c THEN NewRow(proposal[r], input[r])
                   ELSE IF d \in held[r] THEN [row[d] EXCEPT !.revActive = FALSE]
                   ELSE row[d]]
      /\ hardForks' = IF input[r].hardFork THEN hardForks \cup {c} ELSE hardForks
      /\ Finish(r)
      /\ UNCHANGED <<proposals, used>>

-----------------------------------------------------------------------------
\* updateContent()

SubmitFind(r, c, h) ==
  /\ at[r] = "idle"
  /\ c \in contents
  /\ Goto(r, "update")
  /\ content' = [content EXCEPT ![r] = c]
  /\ input' = [input EXCEPT ![r].txHash = h]
  /\ UNCHANGED <<tables, rowLock, proposal, read, held>>

\* Mutants: the UPDATE's WHERE without submitted = false, without rev_active.
SubmittableTwice(c) == Public(c)
SubmittableSuperseded(c) == c \in contents /\ ~row[c].isDraft /\ ~row[c].submitted

Submittable(c) == Public(c) /\ ~row[c].submitted

\* One conditional UPDATE that commits by itself; it waits for the row's lock
\* (and for a row with the same hash that is being written) and looks at the
\* rows again after the wait.  A count of 0 or a hash in use is refused.
SubmitUpdate(r) ==
  LET c == content[r]
      h == input[r].txHash
  IN  /\ at[r] = "update"
      /\ \A d \in contents : d = c \/ row[d].txHash = h => RowFree(r, d)
      /\ row' = IF Submittable(c) /\ \A d \in contents : row[d].txHash # h
                THEN [row EXCEPT ![c] = [@ EXCEPT !.submitted = TRUE, !.txHash = h]]
                ELSE row
      /\ Finish(r)
      /\ UNCHANGED <<proposals, contents, hardForks, used>>

-----------------------------------------------------------------------------
\* remove()

RemoveFind(r, p) ==
  /\ at[r] = "idle"
  /\ p \in proposals
  /\ Goto(r, "readForks")
  /\ proposal' = [proposal EXCEPT ![r] = p]
  /\ UNCHANGED <<tables, rowLock, content, input, read, held>>

RemoveReadForks(r) ==
  /\ at[r] = "readForks"
  /\ read' = [read EXCEPT ![r] = {c \in ContentsOf(proposal[r]) : row[c].hardFork}]
  /\ Goto(r, "delete")
  /\ UNCHANGED <<tables, rowLock, proposal, content, input, held>>

\* DELETE waits for the row's lock and cascades to the contents committed
\* then; deleting a row that is gone fails and rolls back.
RemoveDelete(r) ==
  LET p == proposal[r]
  IN  /\ at[r] = "delete"
      /\ rowLock[p] = None
      /\ IF p \in proposals
         THEN /\ \A c \in ContentsOf(p) : RowFree(r, c)
              /\ rowLock' = [rowLock EXCEPT ![p] = r]
              /\ held' = [held EXCEPT ![r] = ContentsOf(p)]
              /\ Goto(r, "deleteForks")
              /\ UNCHANGED <<tables, proposal, content, input, read>>
         ELSE Rollback(r)

\* The hard-fork rows read before the delete go, and the transaction commits.
RemoveDeleteForks(r) ==
  /\ at[r] = "deleteForks"
  /\ proposals' = proposals \ {proposal[r]}
  /\ contents' = contents \ held[r]
  /\ row' = [c \in Contents |-> IF c \in held[r] THEN NoRow ELSE row[c]]
  /\ hardForks' = hardForks \ read[r]
  /\ Finish(r)
  /\ UNCHANGED used

\* The request dies before its next statement: its transaction rolls back.
Abort(r) == at[r] # "idle" /\ Rollback(r)

-----------------------------------------------------------------------------
Step(r) ==
  \/ ReviseLock(r) \/ ReviseCount(r) \/ (\E c \in Contents : ReviseInsert(r, c))
  \/ ReviseDeactivate(r) \/ ReviseCommit(r) \/ SubmitUpdate(r)
  \/ RemoveReadForks(r) \/ RemoveDelete(r) \/ RemoveDeleteForks(r)

Body == {in \in Input : in.txHash = None}

Next ==
  \/ \E p \in Proposals, c \in Contents, in \in Body : Create(p, c, in)
  \/ \E r \in Requests, p \in Proposals, in \in Body : ReviseFind(r, p, in)
  \/ \E r \in Requests, c \in Contents, h \in TxHashes : SubmitFind(r, c, h)
  \/ \E r \in Requests, p \in Proposals : RemoveFind(r, p)
  \/ \E r \in Requests : Step(r) \/ Abort(r)

Spec == Init /\ [][Next]_vars

-----------------------------------------------------------------------------
\* "Two concurrent non-draft revisions cannot both stay active"
\* (createContent): a proposal has one public revision at most, however its
\* revisions, submissions and removals interleave.
OneActiveRevision ==
  \A c, d \in contents :
    Public(c) /\ Public(d) /\ row[c].proposal = row[d].proposal => c = d

\* Every proposal has an active revision, so the single route never answers
\* with content null (findOne): deactivating the others and inserting the new
\* one are one transaction.
AlwaysARevision == \A p \in proposals : \E c \in ContentsOf(p) : row[c].revActive

\* A content never outlives its proposal (the cascade of remove against the
\* insert of createContent).
NoOrphanContent == \A c \in contents : row[c].proposal \in proposals

\* The strengthening that makes the three above inductive.

\* Ids come from sequences: what exists, or is being written, was handed out,
\* and no two requests insert the same content.
IdsAreFresh ==
  /\ proposals \cup contents \subseteq used
  /\ \A r \in Requests : at[r] \notin {"idle", "update"} =>
       proposal[r] \in Proposals \cap used
  /\ \A r \in Requests : at[r] \in {"deactivate", "commit"} =>
       /\ content[r] \in (Contents \cap used) \ contents
       /\ \A q \in Requests \ {r} :
            at[q] \in {"deactivate", "commit"} => content[q] # content[r]

\* From FOR UPDATE (or DELETE) to its end a request owns the proposal's row;
\* only one that found the row gone goes on without it, and never past the
\* foreign key.
LockDiscipline ==
  \A r \in Requests :
    /\ at[r] \in {"deactivate", "commit", "deleteForks"} => proposal[r] \in proposals
    /\ at[r] \in {"count", "insert", "deactivate", "commit", "deleteForks"}
         /\ proposal[r] \in proposals => rowLock[proposal[r]] = r

\* What a request has written stays what its statement found: every public
\* revision when it commits a new one, every content when it deletes.
HeldRowsAreCurrent ==
  \A r \in Requests :
    /\ at[r] \notin {"commit", "deleteForks"} => held[r] = {}
    /\ at[r] = "deactivate" => ~input[r].isDraft
    /\ at[r] = "commit" =>
         /\ held[r] \subseteq ContentsOf(proposal[r])
         /\ input[r].isDraft => held[r] = {}
         /\ ~input[r].isDraft => \A c \in ContentsOf(proposal[r]) : Public(c) => c \in held[r]
    /\ at[r] = "deleteForks" => held[r] = ContentsOf(proposal[r])

IInv ==
  /\ TypeOK
  /\ IdsAreFresh
  /\ LockDiscipline
  /\ HeldRowsAreCurrent
  /\ OneActiveRevision
  /\ AlwaysARevision
  /\ NoOrphanContent

\* Until it is removed, a proposal that was ever public stays public: no draft,
\* revision or failed request takes its public revision away.
PublishedStaysPublished ==
  [][\A p \in proposals \cap proposals' : Published(p) => Published(p)']_vars

\* A submission, once accepted, keeps its transaction hash for as long as the
\* content exists: it is neither undone nor overwritten by a second one.
SubmissionStands ==
  [][\A c \in contents \cap contents' :
       row[c].submitted => row'[c].submitted /\ row'[c].txHash = row[c].txHash]_vars

Working == {r \in Requests : at[r] # "idle"}

\* The next statement of r waits for nobody: the guards of its steps.
CanRun(r) ==
  \/ at[r] \in {"count", "commit", "readForks", "deleteForks"}
  \/ at[r] = "lock" /\ rowLock[proposal[r]] = None
  \/ at[r] = "insert" /\ Contents \ used # {}
  \/ /\ at[r] = "deactivate"
     /\ \A c \in ContentsOf(proposal[r]) : row[c].revActive => RowFree(r, c)
  \/ /\ at[r] = "update"
     /\ \A d \in contents :
          d = content[r] \/ row[d].txHash = input[r].txHash => RowFree(r, d)
  \/ /\ at[r] = "delete" /\ rowLock[proposal[r]] = None
     /\ proposal[r] \in proposals => \A c \in ContentsOf(proposal[r]) : RowFree(r, c)

\* Of the requests under way one can always run: however revisions, submissions
\* and removals wait for each other's row locks, they never all wait.
SomeRequestRuns ==
  /\ \A r \in Working : CanRun(r) => ENABLED Step(r)
  /\ Working # {} => \E r \in Working : CanRun(r)

\* The revisions a proposal has published, and the one the item route shows.
PublishedRevisions(p) == {c \in ContentsOf(p) : ~row[c].isDraft}
ShownRevision(p) ==
  IF Published(p) THEN CHOOSE c \in ContentsOf(p) : Public(c) ELSE None

View == INSTANCE PublicRevisions WITH
  open <- proposals,
  revisions <- [p \in Proposals |-> PublishedRevisions(p)],
  shown <- [p \in Proposals |-> ShownRevision(p)],
  stamp <- [c \in Contents |-> row[c].txHash]

\* The statements, locks and rollbacks implement PublicRevisions: whatever the
\* interleaving, a reader sees revisions replaced atomically and for good,
\* only the shown one submitted, and removal all at once.
ImplementsPublicRevisions == View!Spec

\* SPEC 8.2, DELETE: "One transaction deletes the proposal and everything under
\* it: ... hard-fork rows"; comment in remove(): "they go explicitly".  A
\* revision that commits after ReadForks breaks it: no run states it (README,
\* "Where the code departs").
HardForksGoWithProposal ==
  \A c \in hardForks : c \in contents /\ row[c].hardFork

\* SPEC 8.3 (delta 27): a proposal whose active content was submitted takes no
\* further revision, so a submitted content stays the public one.  A submission
\* that commits after ReviseCount breaks it: no run states it (README).
SubmittedStaysPublic == \A c \in contents : row[c].submitted => Public(c)
=============================================================================
