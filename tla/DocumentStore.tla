--------------------------- MODULE DocumentStore ---------------------------
(***************************************************************************)
(* DocumentStore of govtool-backend: the anchored documents of the current *)
(* snapshots, fetched ahead of the requests that show them.  Fills overlap *)
(* (the warmer does not await them), share one limit on the fetches under  *)
(* way, and may name, drop and name again an anchor whose fetch is under   *)
(* way; a retry through the metadata routes makes the store forget one.    *)
(*                                                                         *)
(* One step is what runs between two awaits.  An Entry object is named by  *)
(* an element of Entries; one that is neither in the store nor being       *)
(* fetched is garbage.  A store with no metadata service never fills.      *)
(***************************************************************************)
EXTENDS Naturals, Sequences, FiniteSets, SequencesExt

CONSTANTS DocAnchors, Entries, Fills, \* Entries bounds the objects alive at once
          Concurrency,   \* DOCUMENT_FETCH_CONCURRENCY
          DocMaxRetries, \* DOCUMENT_MAX_RETRIES
          MaxUnanswered, \* DOCUMENT_MAX_UNANSWERED
          None

ASSUME DocumentStoreAssumption ==
  /\ Concurrency \in Nat \ {0} /\ DocMaxRetries \in Nat /\ MaxUnanswered \in Nat \ {0}
  /\ None \notin Entries \cup DocAnchors /\ IsFiniteSet(Entries)

VARIABLES entries,     \* the Map from anchors to entries
          object,      \* every Entry object
          fetching,    \* slots taken
          queue,       \* attempts waiting for one
          answeredAll,
          fill         \* each fill() under way and what its Promise.all waits for

storeVars == <<entries, object, fetching, queue, answeredAll, fill>>

\* What an anchor may cost: each failure after as many attempts without answer
\* as may precede one.
Budget == (DocMaxRetries + 1) * MaxUnanswered

Unused == [anchor |-> None, document |-> FALSE, failed |-> FALSE, failures |-> 0,
           unanswered |-> 0, due |-> TRUE, attempt |-> "none", asks |-> 0]

StoreTypeOK ==
  /\ entries \in [DocAnchors -> Entries \cup {None}]
  /\ object \in [Entries ->
       [anchor : DocAnchors \cup {None}, document : BOOLEAN, failed : BOOLEAN,
        failures : 0..DocMaxRetries + 1, unanswered : 0..MaxUnanswered - 1, due : BOOLEAN,
        attempt : {"none", "waiting", "granted", "asked"},
        asks : 0..Budget + 1]] \* history: how often the service was asked, capped
  /\ fetching \in 0..Concurrency
  /\ queue \in Seq(Entries)
  /\ answeredAll \in BOOLEAN
  /\ fill \in [Fills -> [at : {"idle", "settling"}, awaits : SUBSET Entries]]

StoreInit ==
  /\ entries = [a \in DocAnchors |-> None]
  /\ object = [e \in Entries |-> Unused]
  /\ fetching = 0 /\ queue = <<>>
  /\ answeredAll = FALSE
  /\ fill = [f \in Fills |-> [at |-> "idle", awaits |-> {}]]

InStore(e) == \E a \in DocAnchors : entries[a] = e
Answered(e) == object[e].document \/ object[e].failed

\* The entries of the store m, with what each object now holds.
Keep(m, es) ==
  /\ entries' = m
  /\ object' = [e \in Entries |->
       IF es[e].attempt = "none" /\ \A a \in DocAnchors : m[a] # e THEN Unused ELSE es[e]]

AskFor(x) == [x EXCEPT !.attempt = "asked", !.asks = IF @ > Budget THEN @ ELSE @ + 1]

-----------------------------------------------------------------------------
\* fill()

\* The entries of the named anchors: those they have, and new ones.
Naming(A) ==
  {n \in [A -> Entries] :
     /\ \A a \in A : IF entries[a] # None THEN n[a] = entries[a] ELSE object[n[a]] = Unused
     /\ \A a, b \in A : n[a] = n[b] => a = b}

Due(e) ==
  /\ object[e].attempt = "none"
  /\ ~object[e].document
  /\ object[e].failures <= DocMaxRetries
  /\ object[e].due

\* The attempts take the free slots in order, the others wait.
Fill(f, A) ==
  /\ fill[f].at = "idle"
  /\ \E n \in Naming(A) :
       LET named == {n[a] : a \in A}
           starting == {e \in named : Due(e)}
           free == Concurrency - fetching
       IN  \E order \in SetToSeqs(starting) :
             LET now == {order[i] : i \in {i \in DOMAIN order : i <= free}}
                 Next1(e) == IF e \in named /\ object[e] = Unused
                             THEN [Unused EXCEPT !.anchor = CHOOSE a \in A : n[a] = e]
                             ELSE object[e]
                 es == [e \in Entries |->
                          CASE e \in now -> AskFor(Next1(e))
                            [] e \in starting \ now -> [Next1(e) EXCEPT !.attempt = "waiting"]
                            [] OTHER -> Next1(e)]
             IN  /\ Keep([a \in DocAnchors |-> IF a \in A THEN n[a] ELSE None], es)
                 /\ fetching' = fetching + Cardinality(now)
                 /\ queue' = queue \o SubSeq(order, Cardinality(now) + 1, Len(order))
                 /\ fill' = [fill EXCEPT ![f] = [at |-> "settling",
                                awaits |-> {e \in named : es[e].attempt # "none"}]]
  /\ UNCHANGED answeredAll

FillDone(f) ==
  /\ fill[f].at = "settling" /\ fill[f].awaits = {}
  /\ fill' = [fill EXCEPT ![f].at = "idle"]
  /\ answeredAll' = (answeredAll \/ \A e \in Entries : InStore(e) => Answered(e))
  /\ UNCHANGED <<entries, object, fetching, queue>>

-----------------------------------------------------------------------------
\* limited() and attempt()

\* Mutant: a slot is handed on and counted free as well.
SettledTwice(e, x) ==
  /\ Keep(entries, [g \in Entries |->
       CASE g = e -> [x EXCEPT !.attempt = "none"]
         [] g # e /\ queue # <<>> /\ g = Head(queue) -> [object[g] EXCEPT !.attempt = "granted"]
         [] OTHER -> object[g]])
  /\ queue' = IF queue = <<>> THEN queue ELSE Tail(queue)
  /\ fetching' = fetching - 1
  /\ fill' = [f \in Fills |-> [fill[f] EXCEPT !.awaits = @ \ {e}]]
  /\ UNCHANGED answeredAll

\* The attempt at e leaves it as x and hands its slot to the next that waits.
Settled(e, x) ==
  /\ \/ /\ queue = <<>>
        /\ Keep(entries, [object EXCEPT ![e] = [x EXCEPT !.attempt = "none"]])
        /\ fetching' = fetching - 1
        /\ UNCHANGED queue
     \/ /\ queue # <<>>
        /\ Keep(entries, [object EXCEPT ![e] = [x EXCEPT !.attempt = "none"],
                                       ![Head(queue)].attempt = "granted"])
        /\ queue' = Tail(queue)
        /\ UNCHANGED fetching
  /\ fill' = [f \in Fills |-> [fill[f] EXCEPT !.awaits = @ \ {e}]]
  /\ UNCHANGED answeredAll

\* With the slot it was handed: the entry may have been dropped meanwhile.
Begin(e) ==
  /\ object[e].attempt = "granted"
  /\ \/ /\ ~InStore(e)
        /\ Settled(e, object[e])
     \/ /\ InStore(e)
        /\ object' = [object EXCEPT ![e] = AskFor(@)]
        /\ UNCHANGED <<entries, fetching, queue, answeredAll, fill>>

\* recordFailure(), before the last retry with a delay.
CountFailure(x) ==
  [x EXCEPT !.unanswered = 0, !.failures = @ + 1, !.failed = TRUE, !.due = FALSE]

Resolves(e) ==
  /\ object[e].attempt = "asked"
  /\ Settled(e, [object[e] EXCEPT !.document = TRUE, !.failed = FALSE,
                                 !.failures = 0, !.unanswered = 0])

ReportsFailure(e) ==
  /\ object[e].attempt = "asked"
  /\ Settled(e, CountFailure(object[e]))

\* Mutant: an attempt without an answer teaches nothing, however many.
NoAnswerLeft(e) ==
  /\ object[e].attempt = "asked"
  /\ Settled(e, object[e])

\* Mutant: it is asked again at once, in the slot the attempt holds.
NoAnswerAgain(e) ==
  /\ object[e].attempt = "asked"
  /\ object' = [object EXCEPT ![e].attempt = "granted"]
  /\ UNCHANGED <<entries, fetching, queue, answeredAll, fill>>

\* The metadata service gives no answer.
NoAnswer(e) ==
  /\ object[e].attempt = "asked"
  /\ \/ /\ object[e].unanswered + 1 < MaxUnanswered
        /\ Settled(e, [object[e] EXCEPT !.unanswered = @ + 1])
     \/ /\ object[e].unanswered + 1 >= MaxUnanswered
        /\ Settled(e, CountFailure(object[e]))

\* retryAt is reached.
RetryDue(e) ==
  /\ ~object[e].due
  /\ object' = [object EXCEPT ![e].due = TRUE]
  /\ UNCHANGED <<entries, fetching, queue, answeredAll, fill>>

\* Mutant: whatever the entry holds.
ForgetAny(a) ==
  /\ entries[a] # None
  /\ Keep([entries EXCEPT ![a] = None], object)
  /\ UNCHANGED <<fetching, queue, answeredAll, fill>>

\* forget()
Forget(a) ==
  /\ entries[a] # None /\ ~object[entries[a]].document
  /\ Keep([entries EXCEPT ![a] = None], object)
  /\ UNCHANGED <<fetching, queue, answeredAll, fill>>

Settles(e) == Begin(e) \/ Resolves(e) \/ ReportsFailure(e) \/ NoAnswer(e)

StoreNext ==
  \/ \E f \in Fills : FillDone(f) \/ \E A \in SUBSET DocAnchors : Fill(f, A)
  \/ \E e \in Entries : Settles(e) \/ RetryDue(e)
  \/ \E a \in DocAnchors : Forget(a)

StoreSpec == StoreInit /\ [][StoreNext]_storeVars

\* The metadata client gives up on every fetch after two minutes, promises
\* that have settled run on, and each block brings a fill.
StoreFairness ==
  /\ \A e \in Entries : WF_storeVars(Settles(e))
  /\ \A f \in Fills : WF_storeVars(FillDone(f))
  /\ WF_storeVars(\E f \in Fills, A \in SUBSET DocAnchors : Fill(f, A))

StoreFairSpec == StoreSpec /\ StoreFairness

-----------------------------------------------------------------------------
Holders == {e \in Entries : object[e].attempt \in {"granted", "asked"}}

\* limited(): the slots counted are the slots held, and none is free while an
\* attempt waits, whichever fills, answers and dropped entries come together.
SlotsAreAccounted ==
  /\ fetching = Cardinality(Holders)
  /\ queue # <<>> => fetching = Concurrency
  /\ ToSet(queue) = {e \in Entries : object[e].attempt = "waiting"}
  /\ \A i, j \in DOMAIN queue : queue[i] = queue[j] => i = j

\* A fill waits for attempts under way and for nothing else: were an attempt
\* over and still awaited, its fill would never check the store again.
AwaitedAttemptsRun ==
  \A f \in Fills : \A e \in fill[f].awaits : object[e].attempt # "none"

EntriesNameTheirAnchor ==
  \A a \in DocAnchors : entries[a] # None => object[entries[a]].anchor = a

\* Header comment: a failure is tried again up to DOCUMENT_MAX_RETRIES times,
\* each after at most DOCUMENT_MAX_UNANSWERED attempts without an answer; so
\* one entry costs the service a bounded number of requests.
AskedWithinBudget == \A e \in Entries : object[e].asks <= Budget

\* What the failures and the attempts without answer of an entry stand for.
Spent(x) == x.failures * MaxUnanswered + x.unanswered

\* An attempt is at an entry that has no document and a retry left; and while
\* there is no document, every request but the one under way is accounted.
EntrySound(x) ==
  /\ x.attempt # "none" => ~x.document /\ x.failures <= DocMaxRetries
  /\ ~x.document => x.asks <= Spent(x) + (IF x.attempt = "asked" THEN 1 ELSE 0)
  /\ x.asks <= Budget

AskedIsSpent == \A e \in Entries : EntrySound(object[e])

StoreIInv ==
  /\ StoreTypeOK /\ SlotsAreAccounted /\ AwaitedAttemptsRun /\ EntriesNameTheirAnchor
  /\ AskedWithinBudget /\ AskedIsSpent

\* "A resolved document is kept for good", and a failure whose retries are
\* spent is kept until the anchor goes: no fetch of an older or a second
\* entry, and no forget, undoes what the store answers.
AnswersKept ==
  LET Refilled == \E f \in Fills : fill[f].at = "idle" /\ fill'[f].at = "settling"
  IN  \A a \in DocAnchors : entries[a] # None =>
        /\ object[entries[a]].document =>
             \/ entries'[a] = entries[a] /\ object'[entries[a]].document
             \/ entries'[a] = None /\ Refilled
        /\ object[entries[a]].failures > DocMaxRetries =>
             \/ entries'[a] = entries[a] /\ object'[entries[a]].failures > DocMaxRetries
             \/ entries'[a] = None

AnswersStay == [][AnswersKept]_storeVars

\* Every fill ends, though it joins attempts of other fills and its own wait
\* for slots that dropped entries hold.
FillsSettle == \A f \in Fills : fill[f].at = "settling" ~> fill[f].at = "idle"

\* "one anchor the service cannot answer does not keep the searches waiting
\* for good": once the snapshots name the same anchors and none is forgotten,
\* the searches open.
SearchesOpen ==
  (\E A \in SUBSET DocAnchors : <>[](A = {a \in DocAnchors : entries[a] # None})) => <>answeredAll
=============================================================================
