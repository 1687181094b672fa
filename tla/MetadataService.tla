--------------------------- MODULE MetadataService ---------------------------
(***************************************************************************)
(* govtool-metadata-service: the document behind an anchor, a pair of a    *)
(* url and the hash the document should have.  Requests look for content,  *)
(* then for a recent failure, then fetch, and store what came: each of     *)
(* these is a database call or a fetch of its own, in no transaction, so   *)
(* requests interleave between any two and may die between any two.        *)
(*                                                                         *)
(* A document is named by its hash.  Bodies are the answers that are no    *)
(* document: another status, too long, not JSON.  Time is counted in ticks *)
(* and only as far as the longest window (Old).  Reports with the same     *)
(* content are one, and of the failures of an anchor the rows the code     *)
(* cannot tell apart are the count and the latest.  What a url serves is   *)
(* what a fetch of it returns, anything at any time.                       *)
(***************************************************************************)
EXTENDS Naturals, Sequences

CONSTANTS Hashes, Bodies, Urls,
          Anchors,       \* the pairs requests ask for
          Requests,      \* requests handled at once
          Backoff,       \* ERROR_BACKOFF_MS
          RefreshWindow, \* REFRESH_WINDOW_MS
          Old,           \* ages from here on are one: no window is longer
          Nothing        \* no answer, or one without a body

ASSUME MetadataServiceAssumption ==
  /\ Anchors \subseteq [hash : Hashes, url : Urls]
  /\ Old \in Nat /\ RefreshWindow \in 0..Old
  /\ Backoff \in Seq(0..Old) /\ Backoff # <<>>
  /\ Hashes \cap Bodies = {} /\ Nothing \notin Hashes \cup Bodies

VARIABLES content,  \* the hashes of the stored documents
          bodies,   \* fetch_body
          reports,  \* fetch_report
          failures, \* each anchor's error rows in metadata
          job       \* each request

serviceVars == <<content, bodies, reports, failures, job>>

Answers == Hashes \cup Bodies \cup {Nothing}
Reports == [anchor : Anchors, got : Answers]
NoReport == [anchor |-> Nothing, got |-> Nothing]
NoFailure == [count |-> 0, age |-> Old, report |-> NoReport]
Idle == [at |-> "idle", kind |-> "any", anchor |-> Nothing, got |-> Nothing, age |-> Old]

ServiceTypeOK ==
  /\ content \subseteq Hashes
  /\ bodies \subseteq Bodies
  /\ reports \subseteq Reports
  /\ failures \in [Anchors -> [count : 0..Len(Backoff), age : 0..Old,
                               report : Reports \cup {NoReport}]]
  /\ job \in [Requests ->
       [at : {"idle", "content", "failure", "window", "fetch", "find", "create", "body",
              "report", "record"},
        kind : {"resolve", "refresh", "verify", "any"}, anchor : Anchors \cup {Nothing},
        got : Answers,
        age : 0..Old]] \* of the failure found, of the fetch, then of its answer

ServiceInit ==
  /\ content = {} /\ bodies = {} /\ reports = {}
  /\ failures = [a \in Anchors |-> NoFailure]
  /\ job = [r \in Requests |-> Idle]

Database == <<content, bodies, reports, failures>>

Step(r, at) == job' = [job EXCEPT ![r].at = at]
Fetch(r) == job' = [job EXCEPT ![r].at = "fetch", ![r].age = 0]
End(r) == job' = [job EXCEPT ![r] = Idle]

-----------------------------------------------------------------------------
\* resolve(), refresh() and verify().  A resolve with `invalidate` reads what
\* a refresh reads and does what it does; one without a url fetches nothing.

Ask(r, kind, a) ==
  /\ job[r].at = "idle"
  /\ job' = [job EXCEPT ![r] = [at |-> IF kind = "verify" THEN "fetch" ELSE "content",
                                kind |-> kind, anchor |-> a, got |-> Nothing, age |-> 0]]
  /\ UNCHANGED Database

FindContent(r) ==
  /\ job[r].at = "content"
  /\ \/ job[r].anchor.hash \in content /\ End(r)
     \/ job[r].anchor.hash \notin content /\ Step(r, "failure")
  /\ UNCHANGED Database

\* Mutant: a replay counts as a check.
ReplayTouches(r) ==
  /\ End(r)
  /\ failures' = [failures EXCEPT ![job[r].anchor].age = 0]
  /\ UNCHANGED <<content, bodies, reports>>

Replay(r) == End(r) /\ UNCHANGED Database

FindLatestFailure(r) ==
  LET f == failures[job[r].anchor]
  IN  /\ job[r].at = "failure"
      /\ \/ /\ job[r].kind = "refresh" /\ f.count > 0 /\ f.age < RefreshWindow
            /\ Replay(r)
         \/ /\ job[r].kind = "refresh" /\ (f.count = 0 \/ f.age >= RefreshWindow)
            /\ Fetch(r)
            /\ UNCHANGED Database
         \/ /\ job[r].kind = "resolve"
            /\ job' = [job EXCEPT ![r].at = "window",
                                  ![r].age = IF f.count > 0 THEN f.age ELSE Old]
            /\ UNCHANGED Database

\* errorWindow(), of the failures counted now and the age read before.
ErrorWindow(r) ==
  LET n == failures[job[r].anchor].count
      window == Backoff[IF n = 0 THEN 1 ELSE n]
  IN  /\ job[r].at = "window"
      /\ \/ job[r].age < window /\ Replay(r)
         \/ job[r].age >= window /\ Fetch(r) /\ UNCHANGED Database

-----------------------------------------------------------------------------
\* fetchAndRecord(), storeContent() and storeReport()

\* Mutant: only documents that were asked for are kept.
AfterFetchKeepsOwn(got, a) ==
  CASE got = a.hash -> "find" [] got \in Bodies -> "body" [] OTHER -> "report"

\* A document is stored under the hash it has, whichever was asked for.
AfterFetch(got, a) ==
  CASE got \in Hashes -> "find" [] got \in Bodies -> "body" [] OTHER -> "report"

\* From here on it makes no difference who asked.
FetchReturns(r) ==
  /\ job[r].at = "fetch"
  /\ \E got \in Answers :
       job' = [job EXCEPT ![r].at = AfterFetch(got, job[r].anchor), ![r].kind = "any",
                          ![r].got = got, ![r].age = 0]
  /\ UNCHANGED Database

\* Mutant: a success goes on to the report.
StoredReportsToo(r) == Step(r, "report")

Stored(r) ==
  \/ job[r].got = job[r].anchor.hash /\ End(r)
  \/ job[r].got # job[r].anchor.hash /\ Step(r, "report")

FindStored(r) ==
  /\ job[r].at = "find"
  /\ \/ job[r].got \in content /\ Stored(r)
     \/ job[r].got \notin content /\ Step(r, "create")
  /\ UNCHANGED Database

\* A second row for the hash, if another request created one meanwhile: of
\* the same bytes.
StoreContent(r) ==
  /\ job[r].at = "create"
  /\ content' = content \cup {job[r].got}
  /\ Stored(r)
  /\ UNCHANGED <<bodies, reports, failures>>

StoreBody(r) ==
  /\ job[r].at = "body"
  /\ bodies' = bodies \cup {job[r].got}
  /\ Step(r, "report")
  /\ UNCHANGED <<content, reports, failures>>

Report(r) == [anchor |-> job[r].anchor, got |-> job[r].got]

StoreReport(r) ==
  /\ job[r].at = "report"
  /\ reports' = reports \cup {Report(r)}
  /\ Step(r, "record")
  /\ UNCHANGED <<content, bodies, failures>>

\* The row is dated by the end of its fetch: it need not be the latest.
RecordFailure(r) ==
  LET f == failures[job[r].anchor]
      n == IF f.count < Len(Backoff) THEN f.count + 1 ELSE f.count
      latest == \/ f.count = 0
                \/ job[r].age <= f.age
  IN  /\ job[r].at = "record"
      /\ failures' = [failures EXCEPT ![job[r].anchor] =
           IF latest THEN [count |-> n, age |-> job[r].age, report |-> Report(r)]
           ELSE [f EXCEPT !.count = n]]
      /\ End(r)
      /\ UNCHANGED <<content, bodies, reports>>

-----------------------------------------------------------------------------
\* A database call fails; the service dies by failing every request's.
Abort(r) ==
  /\ job[r].at # "idle"
  /\ End(r)
  /\ UNCHANGED Database

Dated == {"fetch", "find", "create", "body", "report", "record"}
Older(age) == IF age < Old THEN age + 1 ELSE age

TimePasses ==
  /\ failures' = [a \in Anchors |-> [failures[a] EXCEPT !.age = Older(@)]]
  /\ job' = [r \in Requests |->
       IF job[r].at \in Dated THEN [job[r] EXCEPT !.age = Older(@)] ELSE job[r]]
  /\ UNCHANGED <<content, bodies, reports>>

Work(r) ==
  \/ FindContent(r) \/ FindLatestFailure(r) \/ ErrorWindow(r) \/ FetchReturns(r)
  \/ FindStored(r) \/ StoreContent(r) \/ StoreBody(r) \/ StoreReport(r) \/ RecordFailure(r)

ServiceNext ==
  \/ \E r \in Requests :
       \/ \E kind \in {"resolve", "refresh", "verify"}, a \in Anchors : Ask(r, kind, a)
       \/ Work(r) \/ Abort(r)
  \/ TimePasses

ServiceSpec == ServiceInit /\ [][ServiceNext]_serviceVars

\* Database calls answer, every stage of a fetch has a timeout, time passes.
ServiceFairSpec ==
  ServiceSpec /\ WF_serviceVars(TimePasses) /\ \A r \in Requests : WF_serviceVars(Work(r))

-----------------------------------------------------------------------------
Kept(got) == got = Nothing \/ got \in content \cup bodies

\* Where each request stands and what it has stored by then.
JobsStoreInOrder ==
  \A r \in Requests :
    /\ job[r].at # "idle" => job[r].anchor \in Anchors
    /\ job[r].at \in {"find", "create"} => job[r].got \in Hashes
    /\ job[r].at = "body" => job[r].got \in Bodies
    /\ job[r].at \in {"report", "record"} => Kept(job[r].got)
    /\ job[r].at = "record" => Report(r) \in reports

\* Only what is not the document asked for is a failure: a stored success is
\* never counted into the back-off of its anchor.
OnlyFailuresAreRecorded ==
  /\ \A r \in Requests :
       job[r].at \in {"body", "report", "record"} => job[r].got # job[r].anchor.hash
  /\ \A x \in reports : x.got # x.anchor.hash

\* storeReport(): a failure that is replayed names a report of its anchor that
\* is stored, and the report's body can be read back, from fetch_body or as
\* the content it is, though each is a statement of its own and a request may
\* die between any two.
ReportsAreComplete ==
  /\ \A a \in Anchors : failures[a].count > 0 =>
       failures[a].report \in reports /\ failures[a].report.anchor = a
  /\ \A x \in reports : Kept(x.got)

ServiceIInv == ServiceTypeOK /\ JobsStoreInOrder /\ OnlyFailuresAreRecorded /\ ReportsAreComplete

\* resolve(): the back-off delays a document and never loses it.  An anchor
\* whose url comes to serve its document for good is resolved, if it keeps
\* being asked for and calls stop failing, however often it failed before.
Recovers ==
  \A a \in Anchors :
    (/\ <>[][\A r \in Requests :
               FetchReturns(r) /\ job[r].anchor = a => job'[r].got = a.hash]_serviceVars
     /\ []<><<\E r \in Requests : Ask(r, "resolve", a)>>_serviceVars
     /\ <>[][\A r \in Requests : ~Abort(r)]_serviceVars)
    => <>(a.hash \in content)

\* config.ts: "At most one real refetch per (url, hash) per window, whoever
\* asks": no two retries of one anchor that are fetching began within a window.
\* Retries that arrive during a fetch break it: no run states it (README,
\* "Where the code departs").
OneRefetchPerWindow ==
  \A r, s \in Requests :
    /\ job[r].at = "fetch" /\ job[r].kind = "refresh" /\ job[r].age < RefreshWindow
    /\ job[s].at = "fetch" /\ job[s].kind = "refresh" /\ job[s].age < RefreshWindow
    /\ job[r].anchor = job[s].anchor
    => r = s
=============================================================================
