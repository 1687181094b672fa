# GovTool, specified and verified

TLA+ modules for the services behind GovTool, the TLC configurations that check
them on small instances, and theorems about them checked by TLAPS.
`PROJECT.json` names, for every definition, the source lines it stands for.

What keeps state of its own, and is specified:

| program | state | modules |
|---|---|---|
| `govtool-pdf-backend`, the proposal forum | Postgres, written by concurrent transactions | `ForumProposals`, `ForumVotes`, `ForumPolls`, `ForumComments`, and what they promise: `PublicRevisions`, `Ballot`, `Discussion` |
| `govtool-backend`, the API | in-memory caches, filled by overlapping fetches | `WalletCache`, `SnapshotWarmer`, `DocumentStore` |
| `govtool-metadata-service` | Postgres, written by single statements | `MetadataService` |
| `govtool-provider-blockfrost`, a chain data provider | a semaphore, a queue and a token bucket | `ProviderHttp` |
| `frontend`, the page in the browser | React state, and the local storage that outlives it | `PendingTransaction`, `WalletSession` |
| `frontend/src/pdf-ui` with the forum's auth routes | session storage, a shared cookie, the user shown | `ForumSession` |

Contents: 1 inventory · 2 modules and how they correspond to the code · 3 runs
and bounds · 4 fairness · 5 proofs · 6 where the code departs from what it says ·
7 limits of the models · 8 not modelled.

## 1 Inventory

Paths are under `src/govtool/` unless they say otherwise.

### Proposal forum (`govtool-pdf-backend`)

Stateless NestJS processes over one Postgres database. Prisma runs each
`$transaction` at READ COMMITTED; everything else is one statement that commits
by itself. Requests therefore interleave at every statement, wait for each
other's row locks, may deadlock, and may die with their transaction rolled back.

*Proposals and contents* (`src/proposals/proposals.service.ts`). A proposal has
contents (revisions), one of them active; a revision may be a draft; an active,
published one may be marked submitted with a transaction hash. Operations:
`create`, `createContent` (a revision: lock the proposal, refuse if the active
content is submitted, insert, deactivate the others), `updateContent` (submit:
one conditional UPDATE that takes no lock on the proposal), `remove` (read the
hard-fork ids, delete the proposal and by cascade its contents, delete the
hard-fork rows). Correct if: one public revision at most; always one active;
published stays published; no content outlives its proposal; a submission
stands; and a reader sees each operation as one step.

*Votes* (`src/proposals/proposal-votes.service.ts`). One vote per user and
proposal, and two counters in the proposal's row. `create`, `update` (flip), the
cascade of a removal. Correct if the counters equal the votes whenever nobody is
half-way, and nobody is kept waiting for good.

*Polls* (`src/polls/polls.service.ts`). At most one active poll per proposal (a
partial unique index), closed once, votes and counters like those of proposals
but only while the poll is active. Correct if, besides, a closed tally is final.

*Comments and reports* (`src/comments/comments.service.ts`). Comments, replies,
a counter per proposal, reports unique by comment and reporter. Correct if the
counter is exact, a reply stays on its parent's proposal, reports name comments
that exist, and a reader sees each operation as one step.

*Login* (`src/auth/`). One-shot challenges consumed by a DELETE, an access JWT,
and a refresh JWT in a cookie; every use of a token reloads its user, so a
blocked account has none. *Query language and serialisation* (`src/query/`):
pure. *Proxy* (`src/proxy/`): pure I/O.

### API backend (`govtool-backend`)

One Node process; a step is what runs between two awaits. Everything is lost by
a restart and nothing needs to survive one.

*Wallet-state cache* (`src/cache/cache.service.ts`). Maps from keys to promises,
one Map per namespace, least recently used first, at most `cacheMaxEntries`.
`getOrSet` shares one fetch between its readers; `getOrSetStaleWhileRevalidate`
answers the old value and refreshes in the background. `noteTip` and `noteBlock`
hear of new blocks from the warmer and from transaction status checks, and drop
the Maps of the wallet namespaces. Correct if a read after a confirmation is not
answered from before it, nothing stays from a block that left the chain, no
failed fetch stays cached, and an entry is refreshed by one fetch at a time and
never left marked as being refreshed.

*Warmer* (`src/cache/cache-warmer.service.ts`). A timer asks for the tip and, if
it changed, reads the shared snapshots again. Correct if refreshes do not
overlap, a block is not marked done while a snapshot is older than it, and the
snapshots come to show the tip.

*Document store* (`src/metadata/document-store.ts`). The anchored documents of
the snapshots, fetched ahead with limited concurrency, bounded retries, and two
counters (reported failures, attempts without an answer). Searches wait until
every stored entry has been answered once. Correct if no slot leaks, requests
per anchor are bounded, answers stay, every fill ends and the searches open.

*Upload rate limiter* (`src/ipfs/upload-rate-limiter.ts`): fixed windows per
client and for all, a bounded table of clients.

*Routes* (`src/drep/`, `src/proposal/`, `src/transaction/`, ...): choose the
namespace they read through and map provider answers to responses.

### Metadata service (`govtool-metadata-service`)

`src/services/metadataService.ts`: content rows found by hash alone, error rows
found by (url, hash), reports and bodies of failed fetches. `resolve` answers
content, replays a recent failure for a back-off window, or fetches; `refresh`
does so with a fixed window; `verify` always fetches. Look-up, fetch and the
three or four inserts are separate calls in no transaction. Correct if every
failure it replays has its report and the report its body, and if the back-off
only ever delays a document.

### The rest

*Providers* (`govtool-provider-{koios,blockfrost,dbsync}`). The two HTTP clients
share a semaphore between their calls and retry with a pause outside it; the
Blockfrost client also paces itself with a token bucket, which a 429 empties.
Correct if it does not outrun the server, no waiter is forgotten and every call
ends. The db-sync provider is SQL. *HTTP fetcher* (`govtool-metadata-http`),
*pinning*, *fixture provider*, *data contract*: stateless.
`src/gov-action-loader`, deployment, docs and end-to-end tests keep no state.

### Frontend (`frontend/src`)

*Pending transaction* (`context/pendingTransaction/`). One transaction at a time
is waited for. It is kept in React state and, under the stake key that sent it,
in local storage. An effect asks the backend every few seconds whether it is on
chain, refetches what it changed, and reports success, or failure after three
minutes. Correct if what the page was told about is reported in the end, and
"in progress" does not stay for good.

*Wallet* (`context/wallet.tsx`). `enable` connects a wallet in several awaits;
`disconnectWallet` may come between them; `buildSignSubmitConwayCertTx` keeps
the values of the rendering it began in while the wallet signs. The page
remembers the stake keys it registered until the chain shows them. Correct if a
registration that was confirmed is not forgotten, as the next transaction would
repeat it.

*Forum session* (`pdf-ui/context/context.jsx`, `pdf-ui/lib/helpers.js`). A JWT
in the tab's session storage and the user the page shows, under whatever wallet
the host page has connected. Restored when the wallet changes, refreshed by a
timer, dropped when it is another wallet's. Correct if, once synced, the user
and the JWT are the connected wallet's, and a blocked account does not stay.

The pages, forms and lists render what they are given.

### How they interact

```
browser --HTTP--> govtool-backend --provider interface--> chain (tip, DReps, ...)
   |                 |  WalletCache <--noteTip-- SnapshotWarmer <--timer
   |                 |       ^------noteBlock--- transaction status route
   |                 |  DocumentStore <--fill-- SnapshotWarmer
   |                 +--HTTP--> metadata service --HTTP--> urls, IPFS gateways
   +--HTTP--> govtool-pdf-backend --> Postgres
   |             auth routes <-- ForumSession (pdf-ui) <--walletStatus-- host page
   +-- wallet extension <-- WalletSession, over PendingTransaction
```

The pending transaction's status route is the one that calls `noteBlock`, so the
refetches of `PendingTransaction` are the reads whose freshness `WalletCache` is
about. The provider interface of `govtool-backend` is, in one of its
implementations, `ProviderHttp`.

The forum components share one database and meet in `remove`, whose DELETE
cascades into all of them. Each forum module contains that removal with the
rows it concerns; the cascades touch disjoint tables. The cache and the warmer
meet in `noteTip` and in the snapshot entries; the document store is handed
anchors by the warmer and asks the metadata service.

### What is hard here

Checks made in one statement and relied on in a later one; counters kept beside
the rows they count; locks taken in opposite orders; promises that settle after
their entry was evicted, cleared or replaced; refreshes that overlap; forks and
rollbacks of the chain; slots handed on to work that is no longer wanted;
statements outside a transaction; back-off that must end; effects and handlers
that go on with the values of an earlier rendering; a wallet, an account or a
cookie that changes while an answer is awaited. `PROJECT.json` lists
each under `hazards` with its line and the properties that cover it.

## 2 Modules and how they correspond to the code

Each module says in its header what one step is. Operators carry the code's
names where they can; a definition marked *Mutant* is a plausible bug, used only
to show that a property would notice it.

**Forum modules.** One action per SQL statement. `at[r]` is the next statement
of request `r`, and `target`, `proposal`, `content`, `input` are its locals. The
last UPDATE of a transaction and its COMMIT are one step in votes, polls and
comments, since the row is locked and nothing is visible in between. Row locks
are variables: `rowLock` and `voteLock` for rows written, `keyShare` for the
share an INSERT takes on the row its foreign key names, which conflicts with a
DELETE and not with an UPDATE of a counter. `Abort` (a crash, Prisma's timeout)
may end any request at any statement; `BreakDeadlock` is Postgres's detector.

* `ForumProposals` — `Create`; `ReviseFind/Lock/Count/Insert/Deactivate/Commit`
  (`createContent`); `SubmitFind/Update` (`updateContent`); `RemoveFind`,
  `DeleteProposal`, and the hard-fork delete (`remove`). A request's own writes
  stay in its locals until `ReviseCommit`.
* `PublicRevisions` — what readers are promised: publishing, submitting and
  closing in single steps. `ForumProposals` implements it, with the shown
  revision, the published ones and the stamps read from the committed rows.
* `ForumVotes`, `ForumPolls` — `create`/`update` of a vote as find, write,
  count; both implement `Ballot`, in which the tally follows the votes in the
  same step, a closed ballot is final and a discarded one is gone.
* `ForumComments` — `create` with replies, `report`, `removeReport`, the cascade
  of a removal. It implements `Discussion`, in which a comment and its count
  appear together, a user has flagged a comment or not, and closing a proposal
  takes what is below it and nothing else; the flags are read off the reports.

**`WalletCache`.** A namespace's Map is a sequence of entries, an entry is named
by the fetch that filled it, a tip is a position in a chain given as a constant
(block number, slot, hash). `Hit`, `Miss`, `Stale` are the branches of the two
reads; `Resolve` and `Failed` what the continuations of a refresh do, in the Map
their closure captured; `NoteTip`, `NoteBlock` the two ways to hear of a block,
with answers in flight delivered in any order. `since` and `confirmed` are
history: what a client had been told when its request was made.

**`SnapshotWarmer`.** Each call of `refreshIfNeeded` is `Enter`, `GetTip`, then
`Skip` or `Warm`, a read and a store per snapshot, `Settle`. Snapshots are also
revalidated by requests (`Read`) and evicted when they share their namespace.

**`DocumentStore`.** `entries` is the Map, `object` the Entry objects, which
outlive their place in it while their fetch runs; `fetching` and `queue` are the
code's `active` and `waiting`, names `ProviderHttp` has too. `Fill` takes the free slots in the
order of the code's loop, `Settled` hands a slot on, `Begin` is an attempt that
gets its slot late, `Resolves`, `ReportsFailure`, `NoAnswer` its three ends.

**`MetadataService`.** `job[r].at` is the next call of a request:
content, failure, window, fetch, then find/create (`storeContent`), body, report
(`storeReport`), record (the error row). A document is named by its hash; a body
that is no document is a separate kind of answer. What a url serves is what a
fetch returns: anything, at any time. A failing call and a dying service are
both `Abort`, which loses the job and keeps the tables.

**`ProviderHttp`.** A step is what runs between two awaits. `Run` is
`Limiter.run` up to the first await of its task, `Wake` the continuation of one
that queued (it does not look at `active` again), `Release` the `finally`, `Take`
one round of the bucket's loop, `Conclude` what `text` does with an outcome. The
bucket is refilled by the clock rather than at each look, in units of a tick, so
that it has no fractions; `server` is the same bucket as the server meters it.
A bucket that is never empty is the Koios client.

**`PendingTransaction`, `WalletSession`.** The second extends the first by the
component that calls the hook. A handler or a continuation sets React state;
`Render` is the next rendering with the effects whose dependencies changed, the
cleanup of the old ones first; `shown` and `rendered` are what closures of that
rendering see. `check` is the effect's `checkTransaction` (status, refetch,
wait), `torn` the ones that still await a refetch after their effect was torn
down. `Attach`, `ReadKeys`, `Enabled` are the awaits of `enable`; `Build`,
`Submit`, `Record` those of `buildSignSubmitConwayCertTx`. `Reload` keeps the
local storage and nothing else. `raced` is history, see `NothingLost`.

**`ForumSession`.** A request is handled by the server when it is sent and its
answer is delivered later; between the two the wallet may change, another tab
may change the cookie, an account may be blocked, the JWT may age. `Move` is the
rendering with another wallet and `Sync` its effect. `call[c]` is a run of
`loginUserToApp`; `restoring` runs carry `isStale`, sign-ins do not. `loop` is
the refresh the timer waits for: one at a time, which the minute between two
ticks stands for. `overtaken` is history, see `SignedInAsWallet`.

## 3 Runs and bounds

Every run is exhaustive. Model values are interchangeable and symmetric in the
runs that check no liveness; runs under fairness use no symmetry.

| run | what it asks | instance |
|---|---|---|
| `proposals` | `OneActiveRevision`, `SubmissionStands`, `ImplementsPublicRevisions`, and `SomeRequestRuns`: the requests never all wait for each other | 2 proposals, 3 contents, 2 hashes, 3 requests |
| `votes` | `ImplementsBallot`, `RequestsDrain` | 1 proposal, 2 users, 3 requests |
| `polls` | `OneActivePoll`, `ClosedPollIsFinal`, `ImplementsBallot`, `SomeRequestRuns` | 1 proposal, 2 polls, 2 users, 3 requests |
| `comments` | `ImplementsDiscussion` | 2 proposals, 3 comments, 2 reports, 3 requests |
| `wallet_cache` | `PlainReadsAreFresh`, `SettledCacheIsOnChain`, `NoFailureIsKept`, `OneRefreshPerMark` | 2 requests, 2 wallets, 3 live fetches, 1 entry per namespace, three workloads |
| `warmer` | `DoneMeansComplete`, `SnapshotsCatchUp` | 2 overlapping calls, 2 snapshots, a fork switch at one height |
| `documents` | `AnswersStay`, `FillsSettle`, `SearchesOpen` | 2 anchors, 3 entry objects, 2 fills, 1 slot, 1 retry, 2 attempts without answer |
| `metadata` | `ReportsAreComplete`, `Recovers` | 1 anchor, 2 documents, 1 body, 2 requests, back-off of 1 and 2 ticks |
| `provider` | `WithinRate`, `NoLostWakeup`, `CallsEnd` | 3 calls, 1 slot, 1 retry, a burst of 1 1/2 tokens |
| `wallet` | `NothingLost`, `RegistrationsKept` | 2 wallets with a key each, 2 transactions, 2 connections or reloads |
| `pending` | `InProgressEnds` | 1 wallet with two keys, 1 transaction, 2 connections or reloads |
| `login` | `SignedInAsWallet`, `BlockedSignsOut` | 2 wallets, 2 calls, 2 changes of the wallet, 1 sign-in, 1 change by another tab, 1 blocked account |

The runs of the first nine modules also check their inductive invariant `IInv`
(`provider` its two conjuncts that are about the code, `wallet_cache` a type
invariant), the cheap way to find out whether it can be proved; `wallet` and
`login` a type invariant. An `IInv` has named conjuncts, and they say more than
the type: `LockDiscipline`, `CommentsAreCounted`, `ThreadsStayOnProposal`, `ReportsStand`,
`SlotsAreAccounted`, `AskedWithinBudget`, `AtMostOneRefresh`,
`CountersMatchVotes`, `NoOrphanContent` and others are checked as part of it.

Why the bounds suffice to see the interesting cases:

* *Requests.* Each forum race needs one request that checks, one that
  invalidates the check, and one that holds a lock or removes the proposal: three.
  A deadlock needs two, and a third to wait for both.
* *Ids* (`Contents`, `Polls`, `Comments`, `Reports`) stand for sequences that
  never hand an id out twice, so a run ends when they are spent; that is why
  these runs say `CHECK_DEADLOCK FALSE`. Three contents are a first revision and
  two that race; two polls are one that is closed and its successor.
* *`Fetches`* bounds the fetches alive or cached at once, not their number: an id
  is used again when its fetch is neither. `MaxEntries = 1` makes every second
  key evict. The chain of a workload is finite and its end stops the run.
* *Workloads*: two readers across a block; one while it switches to
  another block of the same height and rolls back; one searching and listing
  across a block. Together they take every branch; all crossed would be too many.
* *`asks`* in `DocumentStore` is history and is capped one above its bound, which
  is enough to see the bound exceeded.
* *Ages* in `MetadataService` stop counting at `Old`, the longest window: no
  comparison the code makes tells older ages apart. The count of failures stops
  at the length of the back-off for the same reason.

* *Provider.* Three calls over one slot: a holder, one that waits to be woken and
  one that barges in between. A call is made once, which is the bound that makes
  `CallsEnd` true: newcomers without end can starve a sleeper.
* *Wallet.* Two transactions make one recorded over the other possible, two
  wallets a change of key between any two awaits, two connections a reload or a
  reconnection with the local storage of before. `pending` has two keys in one
  wallet, so the key can change without the wallet.
* *Login.* Two calls are a restore and a sign-in that overlap, or two restores;
  two changes of the wallet lead away and back, so that an answer can come back
  to the wallet it was asked for with another in between.

`documents` and `metadata` check deadlock too; the others may stop when their
ids or bounds are spent.

Every property of a passing run has a mutant in `PROJECT.json`: a dropped guard,
lock, index or reset in one definition, with which TLC finds the property
violated.

## 4 Fairness

Safety needs none. Seven runs check liveness:

* `votes`: each statement of a request eventually runs if it can (`WF` of
  `Step`), and Postgres breaks a deadlock. `RequestsDrain` says that once no
  more requests arrive all under way are answered. Without that condition a
  DELETE can starve: overlapping key shares of new votes may keep the row busy
  for ever, in the model as in Postgres.
* `warmer`: the timer fires, and the provider answers or times out (`WF`). Reads
  may fail; strong fairness of a snapshot's read and store says that one asked
  for again and again does not fail for ever. `SnapshotsCatchUp` asks for a tip
  that rests.
* `documents`: every fetch ends, as the metadata client gives up after two
  minutes; continuations run; each block brings a fill. Nothing is assumed of
  the metadata service: it may never answer.
* `metadata`: calls answer and stages of a fetch time out (`WF` of `Work`), time
  passes. What clients and urls must do for `Recovers` is in the property: the
  url serves the document from some time on, the anchor keeps being asked for,
  calls stop failing. Nothing is assumed of how requests share the time.
* `provider`: the clock runs (`WF` of `Clock`) and each call's next step happens,
  as promises that are resolved run, timers fire, and a request comes back or
  times out (`WF` of `Step`). Nothing is assumed of outcomes.
* `pending`: React renders, the interval fires, refetches come back (`WF`); time
  passes and the backend, asked again and again, answers a status in the end
  (`SF`): `checkTransaction` looks at the time only after the status, so a
  backend that fails for ever keeps a transaction in progress for ever. Nothing
  is assumed of the chain: a transaction may never land.
* `login`: effects run, the loop's timer fires, answers or errors arrive, and
  tokens age (`WF`). People, wallets, other tabs and administrators owe nothing.

## 5 Proofs

`*Proofs` modules extend the module they are about. `BackendProofs` extends four
that share no name: hence `HttpSpec`, `ServiceSpec` and `StoreSpec` for what the
others call `Spec`, and so for `Init`, `Next`, `TypeOK`. Proved for every value of
the constants that satisfies the module's `ASSUME`:

| module | theorems |
|---|---|
| `ForumProposalsProofs` | `Inductive`, `OneActiveRevisionHolds`, `AlwaysARevisionHolds`, `NoOrphanContentHolds`, `PublishedStaysPublishedHolds`, `SubmissionStandsHolds`, `ImplementsPublicRevisionsHolds`, `NeverAllWait` |
| `ForumVotesProofs` | `Inductive`, `CountersMatchVotesHolds`, `VotesGoWithProposalHolds`, `ImplementsBallotHolds`, `NeverAllWait`, `OnlyCyclesAreBroken` |
| `ForumPollsProofs` | `Inductive`, `OneActivePollHolds`, `CountersMatchVotesHolds`, `ClosedPollIsFinalHolds`, `ImplementsBallotHolds`, `NeverAllWait` |
| `ForumCommentsProofs` | `Inductive`, `CommentsAreCountedHolds`, `ThreadsStayOnProposalHolds`, `ReportsStandHolds`, `ImplementsDiscussionHolds`, `NeverAllWait` |
| `BackendProofs` | of `SnapshotWarmer`: `WarmerInductive`, `AtMostOneRefreshHolds`, `DoneMeansCompleteHolds`, `MarksGoForwardHolds`; of `DocumentStore`: `StoreInductive`, `AnswersStayHolds`, `NoFillIsStuckHolds`, `AttemptsAdvanceHolds`; of `MetadataService`: `ServiceInductive`, `ReportsAreCompleteHolds`, `OnlyFailuresAreRecordedHolds`; of `ProviderHttp`: `SemaphoreAndBucket`, `NoWakeupIsLost`, `PacingKeepsTheRate` |
| `WalletCacheProofs` | `Inductive`, `TypeCorrect`, `PlainReadsAreFreshHolds`, `SettledCacheIsOnChainHolds`, `NoFailureIsKeptHolds`, `OneRefreshPerMarkHolds` |
| `WalletSessionProofs` | `Inductive`, `TypeCorrect`, `NothingLostHolds`, `RegistrationsKeptHolds`, `AlertsAreTrueHolds` |
| `ForumSessionProofs` | `Inductive`, `TypeCorrect`, `SignedInAsWalletHolds` |

The assumptions are that `None` (or `Nothing`) is not an id, that the sets that
are counted are finite (of a proposal's revisions and requests too, since the
model counts the ids left), that proposals and contents are numbered apart; for
the metadata service, that no window exceeds `Old`
and a document is not a body that is none; for the provider, at least one slot
(the constructor's `Math.max(1, ...)`) and a burst of at least one token; for the
cache, at least one entry per namespace, and that blocks count from 1 and have
hashes; for the sessions, that connection states are not wallets, that no two
wallets share a stake key, and at least one attempt of a refetch.

The argument in each:

* *Proposals.* `OneActiveRevision` is not inductive: a request about to commit
  would add a second public revision. The strengthening says who holds the row
  (from FOR UPDATE to its end a request owns it; one that found the row gone is
  stopped by the foreign key) and that what it has read of the rows it owns is
  still what is there (every public revision it will deactivate). With that,
  each commit replaces all the others. The same facts give the refinement: only
  four steps change committed rows (`WritingSteps`), and each maps to a step of
  `PublicRevisions` or, for a draft revision or a refused submission, to a
  stutter; `Stamps` adds that a transaction hash is only ever on a submitted,
  published content.
* *Votes and comments.* The counters are off by one while a transaction is
  between its two writes. The invariant ties each half-done request to the row
  it wrote (`LockDiscipline`) and the row to what the request knows
  (`HeldRowsAreCurrent`), so a counter plus what its holders still owe equals
  the rows. That the votes implement `Ballot` follows step by step, statements
  that commit nothing mapping to stutters. Comments implement `Discussion` the
  same way, with two places where it takes an argument. A reply appears under a
  parent that an earlier statement found and no lock kept: the parent goes with its
  proposal only, so were it gone the foreign key would have ended the request, and
  from the insert on the key share keeps the proposal (`RepliesOnTheirWay`). And the
  cascade also takes replies wherever they are, which are those below the proposal
  and no others, since no thread leaves it.
* *Polls.* As for votes, with one more thing a request may rely on: a vote is
  counted by an UPDATE whose WHERE asks for an active poll, in the transaction
  that wrote the vote, so a counter and its votes move together or not at all,
  and a closed poll's tally is what it was at the closing.
* *Provider.* `active` counts exactly the calls that pace or ask (`Accounted`),
  the queue holds each waiting call once, and holders plus woken calls fill the
  slots while somebody waits. A call that leaves wakes one, and one that barges
  in only adds to the holders. `tokens` is at most `server` at every step
  (`BucketBelowServer`: both gain alike, and a 429 only takes from the client's),
  and a request is sent only with a token, so `server` stays at 0 or more.
* *Wallet cache.* The invariant is in two halves, both stated of any fetches, Maps
  and promises (`Sound(fs, ms, gs)`, `Fresh(fs, ms, gs, ss)`), so that a step is
  followed in two moves: what the handler does, then what no longer is referred
  to (`BecomeSound`, `BecomeFresh`). `Sound` links the objects: a Map has one
  entry per key, none failed; a refresh is in no Map while it runs; what it is
  over still carries the mark it was started for, and no other refresh is over
  it; an entry that is marked has its refresh in the same Map, so replacing,
  failing and clearing each take the mark along. `Fresh` compares versions: what
  one getOrSet has cached is at least as recent as the block the mark names, on a
  growing chain also as any block a client was told of, and a promise is as
  recent as what was confirmed when it was handed out. That is why `noteBlock`
  may keep the Map for a block at or below the mark.
* *Warmer.* The flag `refreshing` is up exactly while a call works
  (`FlagTellsWork`), and no entry, answer in flight or finished warm is older than a tip
  that has been marked or is being warmed (`NothingOlder`): so an overlapping
  revalidation cannot put an older snapshot in after the block is marked done.
  A call at work read its tip after the last marking (`TipsComeAfterMarks`), since
  the one before it had ended, so marks never go back.
* *Documents.* `fetching` is the number of objects whose attempt has a slot and
  the queue names each that waits once (`Accounts`, stated of any objects, so that
  a fill's new contents can be counted before they are kept); the slots a fill
  takes are the first of its order, and the others join the queue only when none
  is left. That one entry costs a bounded number of requests is not inductive: a
  request under way may be the last the budget has. `AskedIsSpent` says more: an
  attempt is only ever at an entry without a document and with a retry left, and
  while there is no document the requests made, but for one under way, are at most
  what its failures and unanswered attempts stand for (`Spent`). The first half is
  also why answers stay: a late fetch cannot be at an entry that has one.
* *Metadata.* Each request carries, for where it stands, what it has stored by
  then (`Sound`); the tables only grow; so an error row finds its report and the
  report its body, and dying in between loses neither.

* *Pending transaction.* What is watched is what its key stores
  (`WatchesStored`), and success is reported only of what is on the chain
  (`SuccessLanded`), by a check that is on or by one that was torn down and still
  awaits a refetch. So a reset takes away only what was reported. A registration
  is forgotten only by the reconcile effect, which takes what was in doubt when it
  asked; `DoubtIsKept` says that none of it is reported, and that nothing which
  runs before the effect's answer will report it. Looking for this invariant
  found a race one flow cannot run into: a transaction that does not register,
  recorded for the same key while the check of an earlier one is at work, is reset
  by that check when it ends. `UpdateTransaction` names it in `raced`.
* *Forum session.* A check that is not stale is one of the wallet the page has
  synced with (`ChecksAreCurrent`), what a call has heard is about its own wallet
  (`Sound`), and a token left by a check that is not stale is that wallet's
  (`JwtOfHost`). A sync that found nobody starts no check of somebody else
  (`NobodyElse`), so when no check is under way the user shown is the wallet's
  (`UserOfHost`). A step that only a sign-in, a username or a cookie of another
  wallet could take against this sets `overtaken`.

* *Nobody waits for ever.* `CanRun(r)` is read off the guards: the next statement
  of `r` waits for nobody (or, in the polls, the detector will end the wait). Of
  proposals: contents are held only by a request about to commit, which waits for
  nobody; a proposal's row by one whose next statements wait for contents at most
  (`LocksAreHeld`); and an insert finds an id (`RoomForIds`). Of polls: a vote that
  holds its key share waits for nobody; a flip that waits for its poll waits for the
  cascade, which waits for that flip (`Deadlocked`); everybody else waits for one of
  these. Of votes: a count after an insert waits for nobody; the count
  of a flip waits for a cascade only, which then waits for that flip (`InCycle`),
  and the detector ends it, but nobody whose next statement could run
  (`OnlyCyclesAreBroken`); everybody else waits for one of these. Of comments: a
  cascade and a count wait for nobody, everybody else for one of these. All four are
  `NeverAllWait`.
* *No fill waits for ever.* An attempt that is awaited has a slot or is in the
  queue, and then every slot is taken (`NoFillIsStuck`); the end of an attempt
  brings the queue forward, and no step puts an awaited attempt back or adds one
  (`AttemptsAdvance`).
* *Alerts.* A success is reported of a transaction seen on the chain by the check
  that reports it (`SuccessLanded`); a failure only by `Unresolved`, and nothing
  makes a late transaction young (`AlertsAreTrue`).

Only model-checked: all liveness, and that what `CanRun` names is `ENABLED`, which
is the half of `SomeRequestRuns` the prover cannot express. What safety has to say
for liveness is proved: `NeverAllWait` and `OnlyCyclesAreBroken` for
`RequestsDrain`, `NoFillIsStuck` and `AttemptsAdvance` for `FillsSettle`,
`NoLostWakeup` for `CallsEnd`; what is left to TLC is that fair steps, each of
which brings one of them forward, bring all of them to their end. The state
formulas of these theorems (`CanRun`, `InCycle`, `AttemptsAdvance`, ...) stand
beside their proofs.

## 6 Where the code departs from what it says

Met while modelling. No run states them, since the code does not keep them; the
first four have their formulas in the modules, to be checked against a fix, and
TLC finds each violated within the bounds of that module's run.

1. `ForumProposals`, `SubmittedStaysPublic`: `updateContent` takes no lock of the
   proposal, so a submission that commits between `createContent`'s count
   (proposals.service.ts:219) and its `updateMany` (:225) is deactivated by the
   revision it should have refused. SPEC.md:775-777: "If the proposal's active
   non-draft content has `prop_submitted`: 400 BD `Proposal can't be updated, it
   has been already submited`".
2. `ForumProposals`, `HardForksGoWithProposal`: `remove` reads the hard-fork ids
   (proposals.service.ts:193) before it locks the proposal, so the row of a
   revision committed in between stays. SPEC.md:762-764: "One transaction
   deletes the proposal and everything under it: contents, links, withdrawals,
   constitution and hard-fork rows".
3. `WalletCache`, `FreshAfterConfirmation`: a background refresh under way when
   the wallet's state is cleared asks its own, dropped Map whether its entry is
   still there (cache.service.ts:157) and stores the old answer in the new one.
   cache.service.ts:16-17: "an entry read before that block must not answer the
   read after it". The proposal list has the same gap: its key leaves out the
   votes it was computed from, read an await earlier (proposal.service.ts:184).
   Both also keep what was read on a fork that is gone, so `SettledCacheIsOnChain`
   speaks of the reads that are one getOrSet.
4. `MetadataService`, `OneRefetchPerWindow`: nothing marks a retry's fetch as
   under way, so retries that arrive during it find no failure and fetch too
   (metadataService.ts:363). config.ts:27: "At most one real refetch per (url,
   hash) per window, whoever asks."
5. `DocumentStore`: `forget` drops an entry that is still pending, and the fill
   that ends next may open the searches although that anchor had no answer.
   document-store.ts:112: "Whether every anchor named so far has had an answer".
6. `ProviderHttp`: `Limiter.run` counts a holder down before the one it wakes
   counts itself up, so a call that runs in between takes the slot too, and as
   long as others wait the excess stays. http.ts:56: "at most `limit` holders at
   once, FIFO". The Koios client's `withSlot` is the same.
7. `PendingTransaction`: an effect torn down while a refetch is under way reports
   when it comes back and resets whatever is pending then (`TornRefetched`).
   usePendingTransaction.ts:81-82: "Set once the transaction is resolved or this
   effect is torn down, so a check still in flight cannot report again". And
   `updateTransaction`, called from the rendering in which a flow began, may store
   under a stake key the page has left.
8. `ForumSession`: a sign-in or a username begun under one wallet and answered
   under another signs the first one's user in, until the next transition of the
   wallet; only restores carry `isStale`.

One more is outside the models, in the building of transactions:
`isGuardrailScriptUsed` is set where a treasury withdrawal is built
(wallet.tsx:1454) and nowhere else, so a protocol parameter change is built
without the guardrail's witness unless a withdrawal was built before it, although
"Treasury withdrawal and parameter change proposals attach the guardrail script
only when the enacted constitution names one" (CHANGELOG.md). It is reset after
a success only (:885), so a withdrawal that failed leaves it set.

## 7 Limits of the models

* `PlainReadsAreFresh` is stated while the chain grows: `noteBlock` compares
  slots and heights and cannot tell a switch to another block of the same
  height, which `noteTip` then corrects (`SettledCacheIsOnChain`). That in turn
  supposes that no block becomes the tip a second time (`TipsDiffer`): after a
  switch to another block and back between two looks of the warmer the mark is
  the tip again, and an entry read in between stays until it expires. TLC shows
  it on a chain a, b, a. Forks in the
  workloads use distinct slots.
* A block heard of by `noteBlock` has no hash; the mark it leaves is not told
  apart from a tip's with that slot.
* `CacheService.delete` and `clear` are called by no route and are left out; so
  is a `DocumentStore` without a metadata service, which never fills.
* Content rows of the metadata service are kept as hashes: two racing inserts
  leave two rows of the same bytes, which nothing that is read tells apart. Its
  IPFS gateways and their blacklist are part of what a fetch returns.
* `ProviderHttp` counts time in ticks; a sleep ends with a tick and never early.
  `WithinRate` is about the requests sent, not about those a proxy delays.
* `NothingLost` and `SignedInAsWallet` except races that the code has and that
  are named at the property (`raced`, `overtaken`): they say that nothing else
  breaks the promise. `overtaken` is dropped by the next sync, so the promise
  holds again from then on.
* `WalletSession` has one page. Two tabs share the local storage, and one would
  clear what the other stored; that is not modelled. Building a transaction is
  one step, which may fail; certificates, scripts and redeemers are not modelled.
* People are slower than a rendering: handlers of clicks find a page that shows
  its state. Continuations and timers need not.
* `ForumSession` has one refresh of the loop under way at a time, and the forum's
  other requests, which only read the JWT, are left out. A wallet stands for its
  stake key, its DRep key and its account.
* Validation and ownership checks that refuse a request before it has written
  anything are the same as a request that was never made, and are left out.
* Text, dates, links and paging are data no property is about.

## 8 Not modelled

* *Pages and forms* (`frontend/src/components`, `frontend/src/pages`, nearly all
  of `pdf-ui`), the largest part of the repository by far: rendering of what an
  API answered, with local form state and one request per click.
* *Upload rate limiter* (`ipfs/upload-rate-limiter.ts`): one synchronous function
  over two counters; nothing interleaves with it.
* *Backend routes, providers' row mapping, SQL*: pure functions from answers to
  answers. `drep`, `proposal` and `transaction` are modelled as far as they
  choose and combine cache reads.
* *Query language, serialisation, validation* of the forum and of metadata
  documents: pure parsing.
* *Proxies, HTTP fetcher, pinning*: one request in, one out.
* *`src/gov-action-loader`*, a load-test helper; *fixture provider* and *data
  contract*; deployment, docs and end-to-end tests.
