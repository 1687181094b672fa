--------------------------- MODULE SnapshotWarmer ---------------------------
(***************************************************************************)
(* The shared snapshots of govtool-backend (the DRep directory and the     *)
(* proposals) and CacheWarmerService, which reads them again after every   *)
(* block, while requests read them through getOrSetStaleWhileRevalidate    *)
(* and revalidate them on their own.                                       *)
(*                                                                         *)
(* One step is what runs between two awaits.  What the warmer tells        *)
(* noteTip() is in WalletCache; the documents it fetches afterwards are    *)
(* not awaited and touch no snapshot.                                      *)
(***************************************************************************)
EXTENDS Naturals, Sequences, FiniteSets

CONSTANTS Invocations, \* calls of refreshIfNeeded() that may overlap
          Snapshots,   \* the snapshots it warms
          Crowded,     \* those sharing their namespace with other keys
          Chain        \* the tips the provider shows, one after the other

ASSUME WarmerAssumption ==
  /\ Crowded \subseteq Snapshots
  /\ Len(Chain) \in Nat \ {0}

VARIABLES tip,        \* the provider's tip, as a position of Chain
          entry,      \* the cache entry of each snapshot
          started,    \* onModuleInit(): no, warming, or yes, the timer runs
          refreshing, \* CacheWarmerService.refreshing
          lastTip,    \* CacheWarmerService.lastTip, 0 for null
          call        \* each call of refreshIfNeeded()

vars == <<tip, entry, started, refreshing, lastTip, call>>

Positions == 1..Len(Chain)
NoEntry == [state |-> "none", version |-> 0, stale |-> FALSE, refresh |-> "none", next |-> 0]
NoCall == [at |-> "idle", force |-> FALSE, tip |-> 0,
           warm |-> [s \in Snapshots |-> "none"], version |-> [s \in Snapshots |-> 0]]
Fresh(v) == [NoEntry EXCEPT !.state = "done", !.version = v]

TypeOK ==
  /\ tip \in Positions /\ lastTip \in Positions \cup {0}
  /\ started \in {"no", "warming", "yes"} /\ refreshing \in BOOLEAN
  /\ entry \in [Snapshots -> [state : {"none", "waiting", "read", "done"},
                              version : Positions \cup {0}, stale : BOOLEAN,
                              refresh : {"none", "waiting", "read"}, next : Positions \cup {0}]]
  /\ call \in [Invocations ->
       [at : {"idle", "tip", "told", "warming"}, force : BOOLEAN, tip : Positions \cup {0},
        warm : [Snapshots -> {"none", "waiting", "read", "ok", "failed"}],
        version : [Snapshots -> Positions \cup {0}]]]

Init ==
  /\ tip = 1 /\ lastTip = 0
  /\ started = "no" /\ refreshing = FALSE
  /\ entry = [s \in Snapshots |-> NoEntry]
  /\ call = [i \in Invocations |-> NoCall]

NewTip ==
  /\ tip < Len(Chain)
  /\ tip' = tip + 1
  /\ UNCHANGED <<entry, started, refreshing, lastTip, call>>

-----------------------------------------------------------------------------
\* CacheWarmerService.  A call that finds another at work returns.

\* Mutant: the flag goes up when the tip has been read.
EnterLate(i, force) ==
  /\ ~refreshing /\ call[i] = NoCall
  /\ call' = [call EXCEPT ![i].at = "tip", ![i].force = force]
  /\ UNCHANGED <<tip, entry, refreshing, lastTip>>

Enter(i, force) ==
  /\ ~refreshing /\ call[i] = NoCall
  /\ refreshing' = TRUE
  /\ call' = [call EXCEPT ![i].at = "tip", ![i].force = force]
  /\ UNCHANGED <<tip, entry, lastTip>>

OnModuleInit(i) == started = "no" /\ started' = "warming" /\ Enter(i, TRUE)

Tick(i) == started = "yes" /\ UNCHANGED started /\ Enter(i, FALSE)

\* getTip(): the provider's answer, or null when it has none or fails.
GetTip(i, t) ==
  /\ call[i].at = "tip" /\ t \in {tip, 0}
  /\ call' = [call EXCEPT ![i].at = "told", ![i].tip = t]
  /\ UNCHANGED <<tip, entry, started, refreshing, lastTip>>

\* Mutant: the height alone names a block.
SameHeight(x, y) == x.block = y.block

\* isSameBlock() of two tips, which carry slot and hash.
SameBlock(x, y) == x.block = y.block /\ x.hash = y.hash

Leave(i) ==
  /\ refreshing' = FALSE
  /\ started' = "yes"
  /\ call' = [call EXCEPT ![i] = NoCall]

\* The block the last complete refresh was for, and nobody forces another.
Repeated(i) ==
  /\ ~call[i].force
  /\ call[i].tip # 0 /\ lastTip # 0
  /\ SameBlock(Chain[call[i].tip], Chain[lastTip])

Skip(i) ==
  /\ call[i].at = "told" /\ Repeated(i)
  /\ Leave(i)
  /\ UNCHANGED <<tip, entry, lastTip>>

Warm(i) ==
  /\ call[i].at = "told" /\ ~Repeated(i)
  /\ call' = [call EXCEPT ![i].at = "warming", ![i].warm = [s \in Snapshots |-> "waiting"]]
  /\ UNCHANGED <<tip, entry, started, refreshing, lastTip>>

WarmRead(i, s) ==
  /\ call[i].warm[s] = "waiting"
  /\ call' = [call EXCEPT ![i].warm[s] = "read", ![i].version[s] = tip]
  /\ UNCHANGED <<tip, entry, started, refreshing, lastTip>>

\* Mutant: a revalidation under way stores its answer whatever entry it finds.
WarmSetKeepsRefresh(i, s) ==
  /\ call[i].warm[s] = "read"
  /\ call' = [call EXCEPT ![i].warm[s] = "ok"]
  /\ entry' = [entry EXCEPT ![s] = [Fresh(call[i].version[s]) EXCEPT
                                      !.refresh = entry[s].refresh, !.next = entry[s].next]]
  /\ UNCHANGED <<tip, started, refreshing, lastTip>>

\* CacheService.refresh(): what other reads of the old entry bring is dropped.
WarmSet(i, s) ==
  /\ call[i].warm[s] = "read"
  /\ call' = [call EXCEPT ![i].warm[s] = "ok"]
  /\ entry' = [entry EXCEPT ![s] = Fresh(call[i].version[s])]
  /\ UNCHANGED <<tip, started, refreshing, lastTip>>

WarmFail(i, s) ==
  /\ call[i].warm[s] \in {"waiting", "read"}
  /\ call' = [call EXCEPT ![i].warm[s] = "failed", ![i].version[s] = 0]
  /\ UNCHANGED <<tip, entry, started, refreshing, lastTip>>

\* Promise.allSettled(), and only a complete refresh marks the block done.
Settle(i) ==
  /\ call[i].at = "warming"
  /\ \A s \in Snapshots : call[i].warm[s] \in {"ok", "failed"}
  /\ lastTip' = IF \A s \in Snapshots : call[i].warm[s] = "ok" THEN call[i].tip ELSE lastTip
  /\ Leave(i)
  /\ UNCHANGED <<tip, entry>>

-----------------------------------------------------------------------------
\* Requests read a snapshot with getOrSetStaleWhileRevalidate.

Change(s, e) ==
  /\ entry' = [entry EXCEPT ![s] = e]
  /\ UNCHANGED <<tip, started, refreshing, lastTip, call>>

ReadMiss(s) == entry[s].state = "none" /\ Change(s, [NoEntry EXCEPT !.state = "waiting"])

ReadStale(s) ==
  /\ entry[s].stale /\ entry[s].refresh = "none"
  /\ Change(s, [entry[s] EXCEPT !.refresh = "waiting"])

FetchRead(s) ==
  \/ entry[s].state = "waiting" /\ Change(s, [entry[s] EXCEPT !.state = "read", !.version = tip])
  \/ entry[s].refresh = "waiting" /\ Change(s, [entry[s] EXCEPT !.refresh = "read", !.next = tip])

FetchDone(s) ==
  \/ entry[s].state = "read" /\ Change(s, [entry[s] EXCEPT !.state = "done"])
  \/ entry[s].refresh = "read" /\ Change(s, Fresh(entry[s].next))

\* A failed getOrSet takes its entry out, a failed revalidation leaves it.
FetchFail(s) ==
  \/ entry[s].state \in {"waiting", "read"} /\ Change(s, NoEntry)
  \/ entry[s].refresh # "none" /\ Change(s, [entry[s] EXCEPT !.refresh = "none", !.next = 0])

Expire(s) ==
  /\ entry[s].state # "none" /\ ~entry[s].stale
  /\ Change(s, [entry[s] EXCEPT !.stale = TRUE])

\* Other keys of the namespace push the snapshot out.
Evict(s) == s \in Crowded /\ entry[s].state # "none" /\ Change(s, NoEntry)

Read(s) ==
  \/ ReadMiss(s) \/ ReadStale(s) \/ FetchRead(s) \/ FetchDone(s) \/ FetchFail(s)
  \/ Expire(s) \/ Evict(s)

Next ==
  \/ NewTip
  \/ \E i \in Invocations :
       \/ OnModuleInit(i) \/ Tick(i) \/ Skip(i) \/ Warm(i) \/ Settle(i)
       \/ \E t \in Positions \cup {0} : GetTip(i, t)
       \/ \E s \in Snapshots : WarmRead(i, s) \/ WarmSet(i, s) \/ WarmFail(i, s)
  \/ \E s \in Snapshots : Read(s)

Spec == Init /\ [][Next]_vars

\* The timer ticks, the provider answers or fails within its client's time
\* limits, and one that is asked again and again succeeds at last.
Fairness ==
  /\ WF_vars(\E i \in Invocations : OnModuleInit(i) \/ Tick(i))
  /\ WF_vars(\E i \in Invocations, t \in Positions \cup {0} : GetTip(i, t))
  /\ WF_vars(\E i \in Invocations : Skip(i) \/ Warm(i) \/ Settle(i))
  /\ \A s \in Snapshots :
       /\ SF_vars(\E i \in Invocations : WarmRead(i, s))
       /\ SF_vars(\E i \in Invocations : WarmSet(i, s))
       /\ WF_vars(FetchRead(s)) /\ WF_vars(FetchDone(s))

FairSpec == Spec /\ Fairness

-----------------------------------------------------------------------------
\* The flag is up while a call is at work, and one call is at work at a time.
FlagTellsWork ==
  /\ refreshing <=> \E i \in Invocations : call[i].at # "idle"
  /\ \A i, j \in Invocations : call[i].at # "idle" /\ call[j].at # "idle" => i = j
  /\ \A i \in Invocations :
       /\ call[i].at = "idle" => call[i] = NoCall
       /\ call[i].at \in {"tip", "told"} => \A s \in Snapshots : call[i].warm[s] = "none"

\* Whatever the entry of a snapshot shows or will show was read at tip t or later.
NotBefore(s, t) ==
  /\ entry[s].state \in {"read", "done"} => t <= entry[s].version
  /\ entry[s].refresh = "read" => t <= entry[s].next

NothingOlder ==
  /\ lastTip <= tip
  /\ \A s \in Snapshots : NotBefore(s, lastTip)
  /\ \A i \in Invocations :
       /\ call[i].tip <= tip
       /\ \A s \in Snapshots :
            /\ call[i].warm[s] = "read" => call[i].tip <= call[i].version[s]
            /\ call[i].warm[s] = "read" => lastTip <= call[i].version[s]
            /\ call[i].warm[s] = "ok" => NotBefore(s, call[i].tip)

IInv == TypeOK /\ FlagTellsWork /\ NothingOlder

\* Comments in refreshIfNeeded(): a tick that lands while the tip is read, or
\* while one of the warms is still running, starts no second copy.
AtMostOneRefresh ==
  \A i, j \in Invocations :
    LET Busy(k) == \/ call[k].at # "idle"
                   \/ \E s \in Snapshots : call[k].warm[s] \in {"waiting", "read"}
    IN  Busy(i) /\ Busy(j) => i = j

\* "Only a complete refresh marks the block done": while a block is marked
\* done, no snapshot is served from before it, whatever revalidations were
\* under way when the warmer stored its own.
DoneMeansComplete ==
  lastTip # 0 => \A s \in Snapshots : entry[s].state = "done" => entry[s].version >= lastTip

\* Once the chain rests, whatever fails on the way, the snapshots come to show
\* its tip and stay there.
SnapshotsCatchUp ==
  \A i \in Positions :
    <>[](tip = i) => <>[](\A s \in Snapshots : entry[s].state = "done" => entry[s].version = i)
=============================================================================
