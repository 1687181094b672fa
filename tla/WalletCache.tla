---------------------------- MODULE WalletCache ----------------------------
(***************************************************************************)
(* The wallet-state namespaces of govtool-backend's CacheService: reads    *)
(* through getOrSet and getOrSetStaleWhileRevalidate, and what noteTip and *)
(* noteBlock clear, against a provider whose tip moves while answers are   *)
(* in flight.                                                              *)
(*                                                                         *)
(* One step is what runs between two awaits.  An entry is named by the     *)
(* fetch that filled it.  A namespace's Map is the sequence of its         *)
(* entries, least recently used first.  A clear drops the Map and leaves   *)
(* it to the fetches under way, whose closures captured it: they are lost. *)
(***************************************************************************)
EXTENDS Naturals, Sequences, SequencesExt

CONSTANTS Requests,
          Keys,       \* wallets
          Fetches,    \* fetches alive at one time: the model's bound
          MaxEntries, \* cacheMaxEntries
          Workloads,  \* the tips the provider shows, one after the other,
                      \* and the routes each request takes
          Hashes,     \* of blocks
          None

ASSUME WalletCacheAssumption ==
  /\ None \notin Requests \cup Keys \cup Fetches \cup Hashes
  /\ MaxEntries \in Nat \ {0}
  /\ \A w \in Workloads :
       /\ w.chain \in Seq([block : Nat \ {0}, slot : Nat, hash : Hashes]) \ {<<>>}
       /\ w.routes \in [Requests -> SUBSET {"info", "search", "list"}]

VARIABLES load,    \* the workload
          tip,     \* the provider's tip, as a position of Chain
          answers, \* tips and inclusion blocks in flight from the provider
          mark,    \* CacheService.mark
          confirmed, \* the latest block a client was told its transaction is in
          cache,   \* the Map of each namespace
          fetch,   \* every fetch that is under way or cached
          at,      \* what each request waits for
          got,     \* the promise it waits on
          since    \* what was confirmed when it was made

cached == <<cache, fetch, got>>
chain  == <<load, tip, answers, mark, confirmed>>
vars   == <<chain, cached, at, since>>

Namespaces == {"info", "search", "rows", "list"}
Chain == load.chain
Positions == 1..Len(Chain)
NoFetch == [state |-> "free", kind |-> "set", ns |-> "info", key |-> None, version |-> 0,
            over |-> None, lost |-> FALSE, expired |-> FALSE, refreshing |-> FALSE]
FetchStates == {"free", "waiting", "read", "done", "failed"}
NoMark == [block |-> 0, slot |-> 0, hash |-> None]

TypeOK ==
  /\ load \in Workloads
  /\ tip \in Positions /\ confirmed \in Positions \cup {0}
  /\ answers \in [{"tip", "transaction"} -> Positions \cup {0}]
  /\ mark \in {NoMark} \cup {Chain[i] : i \in Positions}
                \cup {[Chain[i] EXCEPT !.hash = None] : i \in Positions}
  /\ cache \in [Namespaces -> Seq(Fetches)]
  /\ \A n \in Namespaces :
       /\ Len(cache[n]) <= MaxEntries
       /\ \A i, j \in DOMAIN cache[n] :
            fetch[cache[n][i]].key = fetch[cache[n][j]].key => i = j
  /\ fetch \in [Fetches ->
       [state : FetchStates, kind : {"set", "refresh"}, ns : Namespaces,
        key : Keys \cup {None}, version : Positions \cup {0}, over : Fetches \cup {None},
        lost : BOOLEAN, expired : BOOLEAN, refreshing : BOOLEAN]]
  /\ at \in [Requests -> {"idle", "rows", "answer"}]
  /\ got \in [Requests -> Fetches \cup {None}]
  /\ since \in [Requests -> Positions \cup {0}]

Init ==
  /\ load \in Workloads
  /\ tip = 1 /\ confirmed = 0 /\ mark = NoMark
  /\ answers = [a \in {"tip", "transaction"} |-> 0]
  /\ cache = [n \in Namespaces |-> <<>>]
  /\ fetch = [f \in Fetches |-> NoFetch]
  /\ at = [r \in Requests |-> "idle"]
  /\ got = [r \in Requests |-> None]
  /\ since = [r \in Requests |-> 0]

-----------------------------------------------------------------------------
\* The Map of a namespace

Running(fs) == {f \in Fetches : fs[f].state \in {"waiting", "read"}}

Entry(n, k) == {f \in ToSet(cache[n]) : fetch[f].key = k}

\* delete(): a key has one entry at most.
Delete(map, gone) ==
  LET found == {i \in DOMAIN map : map[i] \in gone}
  IN  IF found = {} THEN map ELSE RemoveAt(map, CHOOSE i \in found : TRUE)

Keyed(k) == {f \in Fetches : fetch[f].key = k}

\* touch(): delete and set again, so that it is the most recently used.
Touch(map, k, f) == Append(Delete(map, Keyed(k)), f)

\* Mutant: nothing is evicted.
StoreUnbounded(map, k, f) == Touch(map, k, f)

\* store(), evicting the least recently used beyond the limit.
Store(map, k, f) ==
  LET touched == Touch(map, k, f)
  IN  IF Len(touched) > MaxEntries THEN Tail(touched) ELSE touched

\* The next Maps, fetches and promises; a fetch nothing refers to is garbage.
Become(fs, maps, gs) ==
  LET Referenced(f) ==
        \/ f \in Running(fs)
        \/ \E n \in Namespaces : f \in ToSet(maps[n])
        \/ \E r \in Requests : gs[r] = f
        \/ \E g \in Running(fs) : fs[g].over = f
  IN  /\ cache' = maps
      /\ got' = gs
      /\ fetch' = [f \in Fetches |-> IF Referenced(f) THEN fs[f] ELSE NoFetch]

Hit(r, n, k) ==
  \E e \in Entry(n, k) :
    /\ ~fetch[e].expired
    /\ Become(fetch, [cache EXCEPT ![n] = Touch(@, k, e)], [got EXCEPT ![r] = e])

\* The rest of getOrSet(): call the action, store its promise at once.
Miss(r, n, k, state, version) ==
  \E f \in Fetches :
    /\ fetch[f] = NoFetch
    /\ \A e \in Entry(n, k) : fetch[e].expired
    /\ Become([fetch EXCEPT ![f] = [NoFetch EXCEPT !.state = state, !.version = version,
                                                   !.ns = n, !.key = k]],
              [cache EXCEPT ![n] = Store(@, k, f)],
              [got EXCEPT ![r] = f])

\* An expired entry answers, and one refresh of it starts.
Stale(r, n, k) ==
  \E e \in Entry(n, k) :
    LET touched == [cache EXCEPT ![n] = Touch(@, k, e)]
        handed == [got EXCEPT ![r] = e]
    IN  /\ fetch[e].expired
        /\ \/ fetch[e].refreshing /\ Become(fetch, touched, handed)
           \/ /\ ~fetch[e].refreshing
              /\ \E f \in Fetches :
                   /\ fetch[f] = NoFetch
                   /\ Become([fetch EXCEPT ![e].refreshing = TRUE,
                                ![f] = [NoFetch EXCEPT !.state = "waiting", !.kind = "refresh",
                                                       !.ns = n, !.key = k, !.over = e]],
                             touched, handed)

-----------------------------------------------------------------------------
\* Requests

Asks(r, route, next) ==
  /\ at[r] = "idle" /\ route \in load.routes[r]
  /\ at' = [at EXCEPT ![r] = next]
  /\ since' = [since EXCEPT ![r] = confirmed]
  /\ UNCHANGED chain

\* The reads that are one getOrSet over the provider: accountInfo, drepInfo,
\* drepVotingPower, adaHolderCurrentDelegation and the like.
ReadInfo(r, k) ==
  /\ Asks(r, "info", "answer")
  /\ Hit(r, "info", k) \/ Miss(r, "info", k, "waiting", 0)

\* getCachedDReps(search)
ReadSearch(r, k) ==
  /\ Asks(r, "search", "answer")
  /\ \/ Hit(r, "search", k)
     \/ Stale(r, "search", k)
     \/ Entry("search", k) = {} /\ Miss(r, "search", k, "waiting", 0)

\* GET /proposal/list reads the votes of the DRep first.
ReadRows(r, k) ==
  /\ Asks(r, "list", "rows")
  /\ Hit(r, "rows", k) \/ Miss(r, "rows", k, "waiting", 0)

\* With the votes at hand, the list is read: a miss is computed from them and
\* from the shared snapshot, which is no wallet state, and its key names the
\* DRep and not the votes.
ReadList(r) ==
  /\ at[r] = "rows" /\ fetch[got[r]].state = "done"
  /\ at' = [at EXCEPT ![r] = "answer"]
  /\ LET k == fetch[got[r]].key
     IN  Hit(r, "list", k) \/ Miss(r, "list", k, "read", fetch[got[r]].version)
  /\ UNCHANGED <<chain, since>>

Reply(r) ==
  /\ at[r] = "answer" /\ fetch[got[r]].state = "done"
  /\ at' = [at EXCEPT ![r] = "idle"]
  /\ since' = [since EXCEPT ![r] = 0]
  /\ Become(fetch, cache, [got EXCEPT ![r] = None])
  /\ UNCHANGED chain

-----------------------------------------------------------------------------
\* Fetches

ProviderReads(f) ==
  /\ fetch[f].state = "waiting"
  /\ fetch' = [fetch EXCEPT ![f].state = "read", ![f].version = tip]
  /\ UNCHANGED <<chain, cache, got, at, since>>

\* cache.get(cacheKey) === entry, in the Map the closure captured.
StillThere(f) ==
  IF fetch[f].lost THEN fetch[f].over # None
  ELSE fetch[f].over \in ToSet(cache[fetch[f].ns])

Resolve(f) ==
  LET done == [fetch EXCEPT ![f].state = "done", ![f].over = None]
      n == fetch[f].ns
  IN  /\ fetch[f].state = "read"
      /\ \/ /\ fetch[f].kind = "set" \/ ~StillThere(f)
            /\ Become(done, cache, got)
         \/ /\ fetch[f].kind = "refresh" /\ StillThere(f)
            /\ Become(done, [cache EXCEPT ![n] = Store(@, fetch[f].key, f)], got)
      /\ UNCHANGED <<chain, at, since>>

\* Those who wait get the error.
Refused(f) ==
  /\ at' = [r \in Requests |-> IF got[r] = f THEN "idle" ELSE at[r]]
  /\ since' = [r \in Requests |-> IF got[r] = f THEN 0 ELSE since[r]]

\* Mutant: only a refresh that succeeds takes its mark off the entry.
FailedMarked(f) ==
  [g \in Fetches |->
     IF g = f THEN [fetch[f] EXCEPT !.state = "failed", !.over = None]
     ELSE IF fetch[g].lost /\ fetch[g].over = f THEN [fetch[g] EXCEPT !.over = None]
     ELSE fetch[g]]

\* finally(): the entry may be refreshed again.
Failed(f) ==
  [g \in Fetches |->
     IF g = f THEN [fetch[f] EXCEPT !.state = "failed", !.over = None]
     ELSE IF g = fetch[f].over THEN [fetch[g] EXCEPT !.refreshing = FALSE]
     ELSE IF fetch[g].lost /\ fetch[g].over = f THEN [fetch[g] EXCEPT !.over = None]
     ELSE fetch[g]]

\* Mutant: a failure stays in the cache until it expires.
FailKept(f) ==
  /\ fetch[f].state \in {"waiting", "read"}
  /\ Refused(f)
  /\ Become(Failed(f), cache, [r \in Requests |-> IF got[r] = f THEN None ELSE got[r]])
  /\ UNCHANGED chain

\* A getOrSet takes its own promise out of its Map, a refresh leaves the entry
\* to be refreshed again.
Fail(f) ==
  /\ fetch[f].state \in {"waiting", "read"}
  /\ Refused(f)
  /\ Become(Failed(f),
            [n \in Namespaces |-> Delete(cache[n], {f})],
            [r \in Requests |-> IF got[r] = f THEN None ELSE got[r]])
  /\ UNCHANGED chain

Expire(f) ==
  /\ \E n \in Namespaces : f \in ToSet(cache[n])
  /\ ~fetch[f].expired
  /\ fetch' = [fetch EXCEPT ![f].expired = TRUE]
  /\ UNCHANGED <<chain, cache, got, at, since>>

-----------------------------------------------------------------------------
\* Blocks

NewTip ==
  /\ tip < Len(Chain)
  /\ tip' = tip + 1
  /\ UNCHANGED <<load, answers, mark, confirmed, cached, at, since>>

\* Block i is still on the chain when the tip is j.
OnChain(i, j) == \A k \in i+1..j : Chain[k].block > Chain[i].block

\* The provider answers the warmer's health check or a transaction's status.
AnswerTip ==
  /\ answers["tip"] = 0
  /\ answers' = [answers EXCEPT !["tip"] = tip]
  /\ UNCHANGED <<load, tip, mark, confirmed, cached, at, since>>

AnswerTransaction(i) ==
  /\ answers["transaction"] = 0
  /\ i <= tip /\ OnChain(i, tip)
  /\ answers' = [answers EXCEPT !["transaction"] = i]
  /\ UNCHANGED <<load, tip, mark, confirmed, cached, at, since>>

\* clearWalletState()
Clear ==
  LET Kept(f) == IF StillThere(f) THEN fetch[f].over ELSE None
  IN  Become([f \in Fetches |-> IF f \in Running(fetch)
                                THEN [fetch[f] EXCEPT !.lost = TRUE, !.over = Kept(f)]
                                ELSE fetch[f]],
             [n \in Namespaces |-> <<>>], got)

\* Mutant: the height alone names a block.
SameHeight(a, b) == a.block = b.block

\* isSameBlock()
SameBlock(a, b) ==
  /\ a.block = b.block
  /\ IF a.hash # None /\ b.hash # None THEN a.hash = b.hash ELSE a.slot = b.slot

\* noteTip()
NoteTip ==
  LET t == Chain[answers["tip"]]
  IN  /\ answers["tip"] # 0
      /\ answers' = [answers EXCEPT !["tip"] = 0]
      /\ mark' = t
      /\ IF SameBlock(t, mark) THEN UNCHANGED cached ELSE Clear
      /\ UNCHANGED <<load, tip, confirmed, at, since>>

\* Mutant: the block is marked and the wallet's state kept.
NoteBlockMarkOnly ==
  LET i == answers["transaction"]
  IN  /\ i # 0
      /\ answers' = [answers EXCEPT !["transaction"] = 0]
      /\ confirmed' = IF i > confirmed THEN i ELSE confirmed
      /\ mark' = IF Chain[i].block > mark.block THEN [Chain[i] EXCEPT !.hash = None] ELSE mark
      /\ UNCHANGED <<load, tip, cached, at, since>>

\* noteBlock(), called by getTransactionStatus() before it answers the client.
NoteBlock ==
  LET i == answers["transaction"]
  IN  /\ i # 0
      /\ answers' = [answers EXCEPT !["transaction"] = 0]
      /\ confirmed' = IF i > confirmed THEN i ELSE confirmed
      /\ \/ /\ Chain[i].block <= mark.block
            /\ UNCHANGED <<mark, cached>>
         \/ /\ Chain[i].block > mark.block
            /\ mark' = [Chain[i] EXCEPT !.hash = None]
            /\ Clear
      /\ UNCHANGED <<load, tip, at, since>>

Next ==
  \/ \E r \in Requests, k \in Keys : ReadInfo(r, k) \/ ReadSearch(r, k) \/ ReadRows(r, k)
  \/ \E r \in Requests : ReadList(r) \/ Reply(r)
  \/ \E f \in Fetches : ProviderReads(f) \/ Resolve(f) \/ Fail(f) \/ Expire(f)
  \/ NewTip \/ AnswerTip \/ NoteTip \/ NoteBlock
  \/ \E i \in Positions : AnswerTransaction(i)

Spec == Init /\ [][Next]_vars

-----------------------------------------------------------------------------
Entries == UNION {ToSet(cache[n]) : n \in Namespaces}

ReadsThePast(r) ==
  at[r] = "answer" /\ fetch[got[r]].state = "done" /\ fetch[got[r]].version < since[r]

\* Comment on WALLET_STATE_NAMESPACES: the frontend reads the wallet's state
\* again as soon as /transaction/status says it landed, "so an entry read
\* before that block must not answer the read after it".  A search that is
\* refreshed while the state is cleared breaks this, and so does the list of
\* proposals: no run states it (README, "Where the code departs").
FreshAfterConfirmation == \A r \in Requests : ~ReadsThePast(r)

\* The reads that are one getOrSet keep it, as long as the chain grows:
\* whoever joins whose fetch, and whatever is evicted, cleared or fails.
ChainGrows == \A i, j \in Positions : i < j => Chain[i].block < Chain[j].block

PlainReadsAreFresh ==
  ChainGrows => \A r \in Requests : ReadsThePast(r) => fetch[got[r]].ns # "info"

\* No block is the tip twice, and those at one height differ in slot and hash.
TipsDiffer ==
  \A i, j \in Positions :
    i # j /\ Chain[i].block = Chain[j].block =>
      Chain[i].slot # Chain[j].slot /\ Chain[i].hash # Chain[j].hash

\* Comment on noteTip(): a rollback and a fork switch clear too.  Once the tip
\* the cache has noted is the provider's, nothing that one getOrSet has cached
\* was read from a block that is no longer on the chain.
SettledCacheIsOnChain ==
  TipsDiffer /\ SameBlock(mark, Chain[tip]) =>
    \A e \in ToSet(cache["info"]) :
      fetch[e].state = "done" => OnChain(fetch[e].version, tip)

\* A failed read is asked again: whichever Map, clear, eviction or later fetch
\* it meets, no failure is left for the next reader.
NoFailureIsKept == \A e \in Entries : fetch[e].state # "failed"

\* An entry marked refreshing has one refresh under way that will unmark or
\* replace it: without any it would be served stale for as long as it is used,
\* and with two the older answer could come last.
OneRefreshPerMark ==
  /\ \A e \in Entries : fetch[e].refreshing =>
       \E f \in Running(fetch) : fetch[f].kind = "refresh" /\ fetch[f].over = e /\ ~fetch[f].lost
  /\ \A f, g \in Running(fetch) : fetch[f].over # None /\ fetch[f].over = fetch[g].over => f = g
=============================================================================
