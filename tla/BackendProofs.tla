---------------------------- MODULE BackendProofs ----------------------------
(***************************************************************************)
(* The safety of four programs behind the API, whose modules share no      *)
(* state: SnapshotWarmer for every chain of tips, every number of calls    *)
(* and every set of snapshots; MetadataService for any anchors, requests   *)
(* and windows; ProviderHttp for any number of calls, any limit and any    *)
(* rate; DocumentStore for any anchors, fills, slots and retries.          *)
(***************************************************************************)
EXTENDS SnapshotWarmer, DocumentStore, MetadataService, ProviderHttp, FiniteSetTheorems,
        SequenceTheorems, TLAPS

-----------------------------------------------------------------------------
\* SnapshotWarmer

Tips == Positions \cup {0}
CacheEntries == [state : {"none", "waiting", "read", "done"}, version : Tips,
                 stale : BOOLEAN, refresh : {"none", "waiting", "read"}, next : Tips]
WarmStates == {"none", "waiting", "read", "ok", "failed"}
RefreshCalls == [at : {"idle", "tip", "told", "warming"}, force : BOOLEAN, tip : Tips,
          warm : [Snapshots -> WarmStates], version : [Snapshots -> Tips]]

LEMMA WarmerTypeParts ==
  TypeOK <=> /\ tip \in Positions /\ lastTip \in Tips
             /\ started \in {"no", "warming", "yes"} /\ refreshing \in BOOLEAN
             /\ entry \in [Snapshots -> CacheEntries] /\ call \in [Invocations -> RefreshCalls]
BY DEF TypeOK, Tips, CacheEntries, RefreshCalls, WarmStates

LEMMA TipsAreNumbers == Tips \subseteq Nat /\ Positions \subseteq Tips
BY DEF Tips, Positions

LEMMA Constructors ==
  /\ NoEntry \in CacheEntries /\ NoCall \in RefreshCalls
  /\ \A v \in Tips : Fresh(v) \in CacheEntries
BY DEF NoEntry, NoCall, Fresh, CacheEntries, RefreshCalls, WarmStates, Tips

LEMMA InitWarmer == Init => IInv
<1> SUFFICES ASSUME Init PROVE IInv
  OBVIOUS
<1> USE DEF Init
<1>1. TypeOK
  <2>1. 1 \in Positions /\ 0 \in Tips
    BY WarmerAssumption DEF Positions, Tips
  <2> QED
    BY <2>1, Constructors, WarmerTypeParts
<1>2. FlagTellsWork
  BY DEF FlagTellsWork, NoCall
<1>3. NothingOlder
  BY DEF NothingOlder, NotBefore, NoEntry, NoCall
<1> QED
  BY <1>1, <1>2, <1>3 DEF IInv

\* An entry may become one that is no older, as far as any marked tip can tell.
LEMMA ChangeIInv ==
  ASSUME IInv, NEW s \in Snapshots, NEW e \in CacheEntries, Change(s, e),
         \A t \in Tips : t <= tip /\ NotBefore(s, t) =>
           /\ e.state \in {"read", "done"} => t <= e.version
           /\ e.refresh = "read" => t <= e.next
  PROVE  IInv'
<1>1. /\ entry' = [entry EXCEPT ![s] = e]
      /\ UNCHANGED <<tip, started, refreshing, lastTip, call>>
  BY DEF Change
<1>2. TypeOK'
  BY <1>1, WarmerTypeParts DEF IInv, TypeOK, CacheEntries, Tips
<1>3. FlagTellsWork'
  BY <1>1 DEF IInv, FlagTellsWork
<1>4. /\ entry \in [Snapshots -> CacheEntries] /\ lastTip \in Tips
      /\ call \in [Invocations -> RefreshCalls]
  BY WarmerTypeParts DEF IInv
<1>5. ASSUME NEW t \in Tips, NEW o \in Snapshots, t <= tip, NotBefore(o, t)
      PROVE  NotBefore(o, t)'
  BY <1>1, <1>4, <1>5 DEF NotBefore
<1>6. NothingOlder'
  <2>1. \A o \in Snapshots : NotBefore(o, lastTip)'
    <3>1. PICK t \in Tips : t = lastTip
      BY <1>4
    <3>2. \A o \in Snapshots : NotBefore(o, t)'
      BY <1>5, <3>1 DEF IInv, NothingOlder
    <3> QED
      BY <1>1, <3>1, <3>2 DEF NotBefore
  <2>2. ASSUME NEW i \in Invocations, NEW o \in Snapshots, call[i].warm[o] = "ok"
        PROVE  NotBefore(o, call[i].tip)'
    <3>1. PICK t \in Tips : t = call[i].tip
      BY <1>4 DEF RefreshCalls
    <3>2. NotBefore(o, t)'
      BY <1>5, <2>2, <3>1 DEF IInv, NothingOlder
    <3> QED
      BY <1>1, <3>1, <3>2 DEF NotBefore
  <2> QED
    BY <1>1, <2>1, <2>2 DEF IInv, NothingOlder, NotBefore
<1> QED
  BY <1>2, <1>3, <1>6 DEF IInv

-----------------------------------------------------------------------------
\* What the requests do to an entry.
LEMMA ReadIInv ==
  ASSUME IInv, NEW s \in Snapshots, Read(s)
  PROVE  IInv'
<1>1. entry[s] \in CacheEntries /\ tip \in Positions /\ tip \in Tips
  BY WarmerTypeParts, TipsAreNumbers DEF IInv
<1>2. CASE ReadMiss(s)
  <2> DEFINE e == [NoEntry EXCEPT !.state = "waiting"]
  <2>1. e \in CacheEntries /\ e.state = "waiting" /\ e.refresh = "none"
    BY Constructors DEF NoEntry, CacheEntries
  <2> QED
    BY <1>2, <2>1, ChangeIInv DEF ReadMiss
<1>3. CASE ReadStale(s)
  <2> DEFINE e == [entry[s] EXCEPT !.refresh = "waiting"]
  <2>1. e \in CacheEntries /\ e.state = entry[s].state /\ e.version = entry[s].version
        /\ e.refresh = "waiting"
    BY <1>1 DEF CacheEntries
  <2> QED
    BY <1>3, <2>1, ChangeIInv DEF ReadStale, NotBefore
<1>4. CASE entry[s].state = "waiting"
           /\ Change(s, [entry[s] EXCEPT !.state = "read", !.version = tip])
  <2> DEFINE e == [entry[s] EXCEPT !.state = "read", !.version = tip]
  <2>1. e \in CacheEntries /\ e.version = tip /\ e.refresh = entry[s].refresh
        /\ e.next = entry[s].next
    BY <1>1 DEF CacheEntries
  <2> QED
    BY <1>4, <2>1, ChangeIInv DEF NotBefore
<1>5. CASE entry[s].refresh = "waiting"
           /\ Change(s, [entry[s] EXCEPT !.refresh = "read", !.next = tip])
  <2> DEFINE e == [entry[s] EXCEPT !.refresh = "read", !.next = tip]
  <2>1. e \in CacheEntries /\ e.next = tip /\ e.state = entry[s].state
        /\ e.version = entry[s].version
    BY <1>1 DEF CacheEntries
  <2> QED
    BY <1>5, <2>1, ChangeIInv DEF NotBefore
<1>6. CASE entry[s].state = "read" /\ Change(s, [entry[s] EXCEPT !.state = "done"])
  <2> DEFINE e == [entry[s] EXCEPT !.state = "done"]
  <2>1. e \in CacheEntries /\ e.version = entry[s].version /\ e.refresh = entry[s].refresh
        /\ e.next = entry[s].next
    BY <1>1 DEF CacheEntries
  <2> QED
    BY <1>6, <2>1, ChangeIInv DEF NotBefore
<1>7. CASE entry[s].refresh = "read" /\ Change(s, Fresh(entry[s].next))
  <2> DEFINE e == Fresh(entry[s].next)
  <2>1. e \in CacheEntries /\ e.version = entry[s].next /\ e.refresh = "none"
    BY <1>1, Constructors DEF CacheEntries, Fresh, NoEntry
  <2> QED
    BY <1>7, <2>1, ChangeIInv DEF NotBefore
<1>8. CASE Change(s, NoEntry)
  BY <1>8, Constructors, ChangeIInv DEF NoEntry
<1>9. CASE Change(s, [entry[s] EXCEPT !.refresh = "none", !.next = 0])
  <2> DEFINE e == [entry[s] EXCEPT !.refresh = "none", !.next = 0]
  <2>1. e \in CacheEntries /\ e.state = entry[s].state /\ e.version = entry[s].version
        /\ e.refresh = "none"
    BY <1>1 DEF CacheEntries, Tips
  <2> QED
    BY <1>9, <2>1, ChangeIInv DEF NotBefore
<1>10. CASE Expire(s)
  <2> DEFINE e == [entry[s] EXCEPT !.stale = TRUE]
  <2>1. e \in CacheEntries /\ e.state = entry[s].state /\ e.version = entry[s].version
        /\ e.refresh = entry[s].refresh /\ e.next = entry[s].next
    BY <1>1 DEF CacheEntries
  <2> QED
    BY <1>10, <2>1, ChangeIInv DEF Expire, NotBefore
<1> QED
  BY <1>2, <1>3, <1>4, <1>5, <1>6, <1>7, <1>8, <1>9, <1>10
     DEF Read, FetchRead, FetchDone, FetchFail, Evict

LEMMA NewTipIInv == ASSUME IInv, NewTip PROVE IInv'
<1>1. /\ tip < Len(Chain) /\ tip' = tip + 1
      /\ UNCHANGED <<entry, started, refreshing, lastTip, call>>
  BY DEF NewTip
<1>2. tip \in Positions /\ lastTip \in Tips /\ call \in [Invocations -> RefreshCalls]
  BY WarmerTypeParts DEF IInv
<1>3. tip' \in Positions /\ tip \in Nat /\ tip' = tip + 1
  BY <1>1, <1>2, WarmerAssumption DEF Positions
<1>4. TypeOK'
  BY <1>1, <1>3 DEF IInv, TypeOK
<1>5. FlagTellsWork'
  BY <1>1 DEF IInv, FlagTellsWork
<1>6. NothingOlder'
  <2>1. lastTip <= tip'
    <3>1. lastTip \in Nat /\ lastTip <= tip
      BY <1>2, TipsAreNumbers DEF IInv, NothingOlder
    <3> QED
      BY <1>3, <3>1
  <2>2. ASSUME NEW i \in Invocations
        PROVE  call[i].tip <= tip'
    <3>1. call[i].tip \in Nat /\ call[i].tip <= tip
      BY <1>2, TipsAreNumbers DEF IInv, NothingOlder, RefreshCalls
    <3> QED
      BY <1>3, <3>1
  <2> QED
    BY <1>1, <2>1, <2>2 DEF IInv, NothingOlder, NotBefore
<1> QED
  BY <1>4, <1>5, <1>6 DEF IInv

-----------------------------------------------------------------------------
\* The warmer.  The call at work is the only one.
LEMMA EnterIInv ==
  ASSUME IInv, NEW i \in Invocations, NEW force \in BOOLEAN, Enter(i, force),
         started' \in {"warming", "yes"}
  PROVE  IInv'
<1>1. /\ ~refreshing /\ call[i] = NoCall /\ refreshing' = TRUE
      /\ call' = [call EXCEPT ![i].at = "tip", ![i].force = force]
      /\ UNCHANGED <<tip, entry, lastTip>>
  BY DEF Enter
<1>2. call \in [Invocations -> RefreshCalls]
  BY WarmerTypeParts DEF IInv
<1>3. /\ call'[i] = [NoCall EXCEPT !.at = "tip", !.force = force]
      /\ \A j \in Invocations \ {i} : call'[j] = call[j]
      /\ call' \in [Invocations -> RefreshCalls]
  BY <1>1, <1>2, Constructors DEF RefreshCalls
<1>4. /\ call'[i].at = "tip" /\ call'[i].tip = 0
      /\ \A s \in Snapshots : call'[i].warm[s] = "none"
  BY <1>3 DEF NoCall
<1>5. TypeOK'
  BY <1>1, <1>3, WarmerTypeParts DEF IInv, TypeOK, RefreshCalls, WarmStates, Tips
<1>6. FlagTellsWork'
  BY <1>1, <1>3, <1>4 DEF IInv, FlagTellsWork
<1>7. NothingOlder'
  <2>1. 0 <= tip
    BY WarmerTypeParts DEF IInv, Positions
  <2> QED
    BY <1>1, <1>3, <1>4, <2>1 DEF IInv, NothingOlder, NotBefore
<1> QED
  BY <1>5, <1>6, <1>7 DEF IInv

LEMMA GetTipIInv ==
  ASSUME IInv, NEW i \in Invocations, NEW t \in Tips, GetTip(i, t)
  PROVE  IInv'
<1>1. /\ call[i].at = "tip" /\ t \in {tip, 0}
      /\ call' = [call EXCEPT ![i].at = "told", ![i].tip = t]
      /\ UNCHANGED <<tip, entry, started, refreshing, lastTip>>
  BY DEF GetTip
<1>2. call \in [Invocations -> RefreshCalls] /\ tip \in Nat
  BY WarmerTypeParts, TipsAreNumbers DEF IInv
<1>3. /\ call'[i].at = "told" /\ call'[i].tip = t /\ call'[i].warm = call[i].warm
      /\ \A j \in Invocations \ {i} : call'[j] = call[j]
      /\ call' \in [Invocations -> RefreshCalls]
  BY <1>1, <1>2 DEF RefreshCalls
<1>4. \A s \in Snapshots : call'[i].warm[s] = "none"
  BY <1>1, <1>3 DEF IInv, FlagTellsWork
<1>5. TypeOK'
  BY <1>1, <1>3, WarmerTypeParts DEF IInv, TypeOK, RefreshCalls, WarmStates, Tips
<1>6. FlagTellsWork'
  BY <1>1, <1>3, <1>4 DEF IInv, FlagTellsWork
<1>7. NothingOlder'
  BY <1>1, <1>2, <1>3, <1>4 DEF IInv, NothingOlder, NotBefore
<1> QED
  BY <1>5, <1>6, <1>7 DEF IInv

LEMMA LeaveIInv ==
  ASSUME IInv, NEW i \in Invocations, call[i].at # "idle", Leave(i),
         UNCHANGED <<tip, entry>>, lastTip' \in Tips, lastTip' <= tip,
         \A s \in Snapshots : NotBefore(s, lastTip)'
  PROVE  IInv'
<1>1. /\ refreshing' = FALSE /\ started' = "yes"
      /\ call' = [call EXCEPT ![i] = NoCall]
  BY DEF Leave
<1>2. call \in [Invocations -> RefreshCalls] /\ tip \in Nat
  BY WarmerTypeParts, TipsAreNumbers DEF IInv
<1>3. /\ call'[i] = NoCall /\ \A j \in Invocations \ {i} : call'[j] = call[j]
      /\ call' \in [Invocations -> RefreshCalls]
  BY <1>1, <1>2, Constructors
<1>4. \A j \in Invocations : call'[j] = NoCall
  BY <1>3 DEF IInv, FlagTellsWork
<1>5. TypeOK'
  BY <1>1, <1>3, WarmerTypeParts DEF IInv, TypeOK, RefreshCalls, WarmStates, Tips
<1>6. FlagTellsWork'
  <2>1. \A j \in Invocations : call'[j].at = "idle"
    BY <1>4 DEF NoCall
  <2>2. ~refreshing'
    BY <1>1
  <2> QED
    BY <1>4, <2>1, <2>2 DEF FlagTellsWork
<1>7. NothingOlder'
  <2>1. \A j \in Invocations : call'[j].tip = 0 /\ \A s \in Snapshots : call'[j].warm[s] = "none"
    BY <1>4 DEF NoCall
  <2> QED
    BY <1>2, <2>1 DEF NothingOlder
<1> QED
  BY <1>5, <1>6, <1>7 DEF IInv

LEMMA SkipIInv == ASSUME IInv, NEW i \in Invocations, Skip(i) PROVE IInv'
<1>1. call[i].at # "idle" /\ Leave(i) /\ UNCHANGED <<tip, entry, lastTip>>
  BY DEF Skip
<1>2. lastTip' \in Tips /\ lastTip' <= tip /\ \A s \in Snapshots : NotBefore(s, lastTip)'
  BY <1>1, WarmerTypeParts DEF IInv, NothingOlder, NotBefore
<1> QED
  BY <1>1, <1>2, LeaveIInv

LEMMA SettleIInv == ASSUME IInv, NEW i \in Invocations, Settle(i) PROVE IInv'
<1>1. /\ call[i].at # "idle" /\ Leave(i) /\ UNCHANGED <<tip, entry>>
      /\ lastTip' = IF \A s \in Snapshots : call[i].warm[s] = "ok" THEN call[i].tip ELSE lastTip
  BY DEF Settle
<1>2. call[i] \in RefreshCalls /\ lastTip \in Tips
  BY WarmerTypeParts DEF IInv
<1>3. lastTip' \in Tips /\ lastTip' <= tip /\ \A s \in Snapshots : NotBefore(s, lastTip)'
  <2>1. CASE lastTip' = lastTip
    BY <1>1, <1>2, <2>1 DEF IInv, NothingOlder, NotBefore
  <2>2. CASE /\ \A s \in Snapshots : call[i].warm[s] = "ok"
             /\ lastTip' = call[i].tip
    BY <1>1, <1>2, <2>2 DEF IInv, NothingOlder, NotBefore, RefreshCalls
  <2> QED
    BY <1>1, <2>1, <2>2
<1> QED
  BY <1>1, <1>3, LeaveIInv

\* A step of the call at work on its warms.
LEMMA WorkIInv ==
  ASSUME IInv, NEW i \in Invocations, call[i].at # "idle",
         NEW c \in RefreshCalls, call' = [call EXCEPT ![i] = c],
         c.at = "warming", c.tip = call[i].tip,
         entry' \in [Snapshots -> CacheEntries],
         UNCHANGED <<tip, started, refreshing, lastTip>>,
         \A s \in Snapshots :
           /\ NotBefore(s, lastTip)'
           /\ c.warm[s] = "read" => c.tip <= c.version[s] /\ lastTip <= c.version[s]
           /\ c.warm[s] = "ok" =>
                /\ entry'[s].state \in {"read", "done"} => c.tip <= entry'[s].version
                /\ entry'[s].refresh = "read" => c.tip <= entry'[s].next
  PROVE  IInv'
<1>1. call \in [Invocations -> RefreshCalls]
  BY WarmerTypeParts DEF IInv
<1>2. /\ call'[i] = c /\ \A j \in Invocations \ {i} : call'[j] = call[j]
      /\ call' \in [Invocations -> RefreshCalls]
  BY <1>1
<1>3. TypeOK'
  BY <1>2, WarmerTypeParts DEF IInv, TypeOK, RefreshCalls, CacheEntries, WarmStates, Tips
<1>4. FlagTellsWork'
  BY <1>2 DEF IInv, FlagTellsWork
<1>5. NothingOlder'
  <2>1. \A j \in Invocations \ {i} : call'[j] = NoCall
    BY <1>2 DEF IInv, FlagTellsWork
  <2>2. \A j \in Invocations \ {i} :
          call'[j].tip <= tip /\ \A s \in Snapshots : call'[j].warm[s] = "none"
    BY <1>2, <2>1 DEF IInv, NothingOlder, NoCall
  <2>3. lastTip' <= tip' /\ c.tip <= tip'
    BY DEF IInv, NothingOlder
  <2> QED
    BY <1>2, <2>2, <2>3 DEF NothingOlder, NotBefore
<1> QED
  BY <1>3, <1>4, <1>5 DEF IInv

LEMMA WarmIInv == ASSUME IInv, NEW i \in Invocations, Warm(i) PROVE IInv'
<1>1. /\ call[i].at = "told"
      /\ call' = [call EXCEPT ![i].at = "warming", ![i].warm = [s \in Snapshots |-> "waiting"]]
      /\ UNCHANGED <<tip, entry, started, refreshing, lastTip>>
  BY DEF Warm
<1>2. call[i] \in RefreshCalls /\ entry \in [Snapshots -> CacheEntries]
  BY WarmerTypeParts DEF IInv
<1> DEFINE c == [call[i] EXCEPT !.at = "warming", !.warm = [s \in Snapshots |-> "waiting"]]
<1>3. /\ c \in RefreshCalls /\ call' = [call EXCEPT ![i] = c]
      /\ c.at = "warming" /\ c.tip = call[i].tip /\ \A s \in Snapshots : c.warm[s] = "waiting"
  BY <1>1, <1>2 DEF RefreshCalls, WarmStates
<1>4. \A s \in Snapshots : NotBefore(s, lastTip)'
  BY <1>1 DEF IInv, NothingOlder, NotBefore
<1> HIDE DEF c
<1> QED
  BY <1>1, <1>2, <1>3, <1>4, WorkIInv

\* A call with a warm in some state is the one at work.
LEMMA Warming ==
  ASSUME IInv, NEW i \in Invocations, NEW s \in Snapshots, call[i].warm[s] # "none"
  PROVE  call[i].at = "warming"
BY WarmerTypeParts DEF IInv, FlagTellsWork, NoCall, RefreshCalls

LEMMA WarmReadIInv ==
  ASSUME IInv, NEW i \in Invocations, NEW s \in Snapshots, WarmRead(i, s)
  PROVE  IInv'
<1>1. /\ call[i].warm[s] = "waiting"
      /\ call' = [call EXCEPT ![i].warm[s] = "read", ![i].version[s] = tip]
      /\ UNCHANGED <<tip, entry, started, refreshing, lastTip>>
  BY DEF WarmRead
<1>2. call[i] \in RefreshCalls /\ entry \in [Snapshots -> CacheEntries] /\ tip \in Tips
  BY WarmerTypeParts, TipsAreNumbers DEF IInv
<1>3. call[i].at = "warming"
  BY <1>1, Warming
<1> DEFINE c == [call[i] EXCEPT !.warm[s] = "read", !.version[s] = tip]
<1>4. /\ c \in RefreshCalls /\ call' = [call EXCEPT ![i] = c]
      /\ c.at = "warming" /\ c.tip = call[i].tip
      /\ c.warm = [call[i].warm EXCEPT ![s] = "read"]
      /\ c.version = [call[i].version EXCEPT ![s] = tip]
  BY <1>1, <1>2, <1>3 DEF RefreshCalls, WarmStates
<1>5. ASSUME NEW o \in Snapshots
      PROVE  /\ NotBefore(o, lastTip)'
             /\ c.warm[o] = "read" => c.tip <= c.version[o] /\ lastTip <= c.version[o]
             /\ c.warm[o] = "ok" =>
                  /\ entry'[o].state \in {"read", "done"} => c.tip <= entry'[o].version
                  /\ entry'[o].refresh = "read" => c.tip <= entry'[o].next
  <2>1. NotBefore(o, lastTip)'
    BY <1>1 DEF IInv, NothingOlder, NotBefore
  <2>2. CASE o = s
    BY <1>2, <1>4, <2>1, <2>2 DEF IInv, NothingOlder, RefreshCalls
  <2>3. CASE o # s
    BY <1>1, <1>2, <1>4, <2>1, <2>3 DEF IInv, NothingOlder, NotBefore, RefreshCalls
  <2> QED
    BY <2>2, <2>3
<1> HIDE DEF c
<1> QED
  BY <1>1, <1>2, <1>3, <1>4, <1>5, WorkIInv

LEMMA WarmSetIInv ==
  ASSUME IInv, NEW i \in Invocations, NEW s \in Snapshots, WarmSet(i, s)
  PROVE  IInv'
<1>1. /\ call[i].warm[s] = "read"
      /\ call' = [call EXCEPT ![i].warm[s] = "ok"]
      /\ entry' = [entry EXCEPT ![s] = Fresh(call[i].version[s])]
      /\ UNCHANGED <<tip, started, refreshing, lastTip>>
  BY DEF WarmSet
<1>2. call[i] \in RefreshCalls /\ entry \in [Snapshots -> CacheEntries]
  BY WarmerTypeParts DEF IInv
<1>3. call[i].at = "warming"
  BY <1>1, Warming
<1> DEFINE c == [call[i] EXCEPT !.warm[s] = "ok"]
<1>4. /\ c \in RefreshCalls /\ call' = [call EXCEPT ![i] = c]
      /\ c.at = "warming" /\ c.tip = call[i].tip /\ c.version = call[i].version
      /\ c.warm = [call[i].warm EXCEPT ![s] = "ok"]
  BY <1>1, <1>2, <1>3 DEF RefreshCalls, WarmStates
<1>5. /\ call[i].version[s] \in Tips
      /\ call[i].tip <= call[i].version[s] /\ lastTip <= call[i].version[s]
  BY <1>1, <1>2 DEF IInv, NothingOlder, RefreshCalls
<1>6. /\ entry' \in [Snapshots -> CacheEntries]
      /\ entry'[s].version = call[i].version[s] /\ entry'[s].refresh = "none"
      /\ \A o \in Snapshots \ {s} : entry'[o] = entry[o]
  BY <1>1, <1>2, <1>5, Constructors DEF Fresh, NoEntry
<1>7. ASSUME NEW o \in Snapshots
      PROVE  /\ NotBefore(o, lastTip)'
             /\ c.warm[o] = "read" => c.tip <= c.version[o] /\ lastTip <= c.version[o]
             /\ c.warm[o] = "ok" =>
                  /\ entry'[o].state \in {"read", "done"} => c.tip <= entry'[o].version
                  /\ entry'[o].refresh = "read" => c.tip <= entry'[o].next
  <2>1. CASE o = s
    BY <1>1, <1>2, <1>4, <1>5, <1>6, <2>1 DEF NotBefore, RefreshCalls
  <2>2. CASE o # s
    BY <1>1, <1>2, <1>4, <1>6, <2>2 DEF IInv, NothingOlder, NotBefore, RefreshCalls
  <2> QED
    BY <2>1, <2>2
<1> HIDE DEF c
<1> QED
  BY <1>1, <1>3, <1>4, <1>6, <1>7, WorkIInv

LEMMA WarmFailIInv ==
  ASSUME IInv, NEW i \in Invocations, NEW s \in Snapshots, WarmFail(i, s)
  PROVE  IInv'
<1>1. /\ call[i].warm[s] \in {"waiting", "read"}
      /\ call' = [call EXCEPT ![i].warm[s] = "failed", ![i].version[s] = 0]
      /\ UNCHANGED <<tip, entry, started, refreshing, lastTip>>
  BY DEF WarmFail
<1>2. call[i] \in RefreshCalls /\ entry \in [Snapshots -> CacheEntries] /\ 0 \in Tips
  BY WarmerTypeParts DEF IInv, Tips
<1>3. call[i].at = "warming"
  BY <1>1, Warming
<1> DEFINE c == [call[i] EXCEPT !.warm[s] = "failed", !.version[s] = 0]
<1>4. /\ c \in RefreshCalls /\ call' = [call EXCEPT ![i] = c]
      /\ c.at = "warming" /\ c.tip = call[i].tip
      /\ c.warm = [call[i].warm EXCEPT ![s] = "failed"]
      /\ c.version = [call[i].version EXCEPT ![s] = 0]
  BY <1>1, <1>2, <1>3 DEF RefreshCalls, WarmStates
<1>5. ASSUME NEW o \in Snapshots
      PROVE  /\ NotBefore(o, lastTip)'
             /\ c.warm[o] = "read" => c.tip <= c.version[o] /\ lastTip <= c.version[o]
             /\ c.warm[o] = "ok" =>
                  /\ entry'[o].state \in {"read", "done"} => c.tip <= entry'[o].version
                  /\ entry'[o].refresh = "read" => c.tip <= entry'[o].next
  <2>1. NotBefore(o, lastTip)'
    BY <1>1 DEF IInv, NothingOlder, NotBefore
  <2>2. CASE o = s
    BY <1>2, <1>4, <2>1, <2>2 DEF RefreshCalls
  <2>3. CASE o # s
    BY <1>1, <1>2, <1>4, <2>1, <2>3 DEF IInv, NothingOlder, NotBefore, RefreshCalls
  <2> QED
    BY <2>2, <2>3
<1> HIDE DEF c
<1> QED
  BY <1>1, <1>2, <1>3, <1>4, <1>5, WorkIInv

-----------------------------------------------------------------------------
LEMMA NextWarmer == IInv /\ [Next]_vars => IInv'
<1> SUFFICES ASSUME IInv, [Next]_vars PROVE IInv'
  OBVIOUS
<1>1. CASE NewTip
  BY <1>1, NewTipIInv
<1>2. ASSUME NEW i \in Invocations,
             OnModuleInit(i) \/ Tick(i) \/ Skip(i) \/ Warm(i) \/ Settle(i)
      PROVE  IInv'
  <2>1. CASE OnModuleInit(i)
    BY <2>1, EnterIInv DEF OnModuleInit
  <2>2. CASE Tick(i)
    BY <2>2, EnterIInv DEF Tick
  <2> QED
    BY <1>2, <2>1, <2>2, SkipIInv, WarmIInv, SettleIInv
<1>3. ASSUME NEW i \in Invocations, NEW t \in Positions \cup {0}, GetTip(i, t)
      PROVE  IInv'
  BY <1>3, GetTipIInv DEF Tips
<1>4. ASSUME NEW i \in Invocations, NEW s \in Snapshots,
             WarmRead(i, s) \/ WarmSet(i, s) \/ WarmFail(i, s)
      PROVE  IInv'
  BY <1>4, WarmReadIInv, WarmSetIInv, WarmFailIInv
<1>5. ASSUME NEW s \in Snapshots, Read(s)
      PROVE  IInv'
  BY <1>5, ReadIInv
<1>6. CASE UNCHANGED vars
  BY <1>6 DEF vars, IInv, TypeOK, FlagTellsWork, NothingOlder, NotBefore
<1> QED
  BY <1>1, <1>2, <1>3, <1>4, <1>5, <1>6 DEF Next

\* Every reachable state satisfies the invariant.
THEOREM WarmerInductive == Spec => []IInv
<1>1. Init => IInv
  BY InitWarmer
<1>2. IInv /\ [Next]_vars => IInv'
  BY NextWarmer
<1> QED
  BY <1>1, <1>2, PTL DEF Spec

\* Two refreshes never overlap.
THEOREM AtMostOneRefreshHolds == Spec => []AtMostOneRefresh
<1>1. IInv => AtMostOneRefresh
  <2> SUFFICES ASSUME IInv, NEW i \in Invocations, NEW j \in Invocations,
                      \/ call[i].at # "idle"
                      \/ \E s \in Snapshots : call[i].warm[s] \in {"waiting", "read"},
                      \/ call[j].at # "idle"
                      \/ \E s \in Snapshots : call[j].warm[s] \in {"waiting", "read"}
               PROVE  i = j
    BY DEF AtMostOneRefresh
  <2>1. call[i].at # "idle" /\ call[j].at # "idle"
    BY Warming
  <2> QED
    BY <2>1 DEF IInv, FlagTellsWork
<1> QED
  BY <1>1, WarmerInductive, PTL

\* A block marked done is never undone by an older answer.
THEOREM DoneMeansCompleteHolds == Spec => []DoneMeansComplete
<1>1. IInv => DoneMeansComplete
  BY DEF IInv, NothingOlder, NotBefore, DoneMeansComplete
<1> QED
  BY <1>1, WarmerInductive, PTL

\* refreshIfNeeded() of a tip marks no earlier block than the last one did: the
\* tip of a call at work was read after the last refresh had been marked.
TipsComeAfterMarks == \A i \in Invocations : call[i].tip # 0 => lastTip <= call[i].tip

MarksGoForward == lastTip' = 0 \/ lastTip <= lastTip'

LEMMA NextMark ==
  ASSUME IInv, TipsComeAfterMarks, [Next]_vars
  PROVE  TipsComeAfterMarks' /\ MarksGoForward
<1>1. /\ lastTip \in Nat /\ tip \in Nat /\ lastTip <= tip
      /\ call \in [Invocations -> RefreshCalls] /\ \A i \in Invocations : call[i].tip \in Nat
      /\ NoCall.tip = 0 /\ FlagTellsWork
  BY WarmerTypeParts, TipsAreNumbers DEF IInv, NothingOlder, RefreshCalls, NoCall
<1>2. ASSUME NEW i \in Invocations, Settle(i)
      PROVE  TipsComeAfterMarks' /\ MarksGoForward
  <2>1. \A j \in Invocations : call'[j].tip = 0
    BY <1>1, <1>2 DEF Settle, Leave, FlagTellsWork
  <2>2. lastTip' \in {lastTip, call[i].tip}
    BY <1>2 DEF Settle
  <2> QED
    BY <1>1, <2>1, <2>2 DEF TipsComeAfterMarks, MarksGoForward
<1>3. ASSUME NEW i \in Invocations, NEW t \in Positions \cup {0}, GetTip(i, t)
      PROVE  TipsComeAfterMarks' /\ MarksGoForward
  <2>1. /\ lastTip' = lastTip /\ t \in {tip, 0}
        /\ \A j \in Invocations : call'[j].tip = IF j = i THEN t ELSE call[j].tip
    BY <1>1, <1>3 DEF GetTip, RefreshCalls
  <2> QED
    BY <1>1, <2>1 DEF TipsComeAfterMarks, MarksGoForward
<1>4. ASSUME lastTip' = lastTip, \A j \in Invocations : call'[j].tip \in {call[j].tip, 0}
      PROVE  TipsComeAfterMarks' /\ MarksGoForward
  BY <1>1, <1>4 DEF TipsComeAfterMarks, MarksGoForward
<1>5. ASSUME NEW i \in Invocations, OnModuleInit(i) \/ Tick(i) \/ Skip(i) \/ Warm(i)
      PROVE  TipsComeAfterMarks' /\ MarksGoForward
  <2>1. lastTip' = lastTip /\ \A j \in Invocations : call'[j].tip \in {call[j].tip, 0}
    BY <1>1, <1>5 DEF OnModuleInit, Tick, Enter, Skip, Leave, Warm, RefreshCalls
  <2> QED
    BY <1>4, <2>1
<1>6. ASSUME NEW i \in Invocations, NEW s \in Snapshots,
             WarmRead(i, s) \/ WarmSet(i, s) \/ WarmFail(i, s)
      PROVE  TipsComeAfterMarks' /\ MarksGoForward
  <2>1. lastTip' = lastTip
    BY <1>6 DEF WarmRead, WarmSet, WarmFail
  <2>2. \A j \in Invocations : call'[j].tip = call[j].tip
    <3> USE <1>1 DEF RefreshCalls
    <3>1. CASE WarmRead(i, s)
      BY <3>1 DEF WarmRead
    <3>2. CASE WarmSet(i, s)
      BY <3>2 DEF WarmSet
    <3>3. CASE WarmFail(i, s)
      BY <3>3 DEF WarmFail
    <3> QED
      BY <1>6, <3>1, <3>2, <3>3
  <2> QED
    BY <1>4, <2>1, <2>2
<1>7. CASE UNCHANGED vars \/ NewTip \/ \E s \in Snapshots : Read(s)
  <2>1. lastTip' = lastTip /\ call' = call
    BY <1>7 DEF vars, NewTip, Read, ReadMiss, ReadStale, FetchRead, FetchDone, FetchFail, Expire,
                Evict, Change
  <2> QED
    BY <1>4, <2>1
<1> QED
  BY <1>2, <1>3, <1>5, <1>6, <1>7 DEF Next

\* CacheWarmerService.refreshIfNeeded(): what marks a block done never returns to
\* an earlier one, whichever calls the timer starts and whatever they wait for.
THEOREM MarksGoForwardHolds == Spec => [][MarksGoForward]_vars
<1>1. Init => TipsComeAfterMarks
  BY DEF Init, TipsComeAfterMarks, NoCall
<1>2. IInv /\ TipsComeAfterMarks /\ [Next]_vars => TipsComeAfterMarks' /\ [MarksGoForward]_vars
  BY NextMark
<1> QED
  BY <1>1, <1>2, WarmerInductive, PTL DEF Spec

-----------------------------------------------------------------------------
\* MetadataService

Jobs == [at : {"idle", "content", "failure", "window", "fetch", "find", "create", "body",
               "report", "record"},
         kind : {"resolve", "refresh", "verify", "any"}, anchor : Anchors \cup {Nothing},
         got : Answers, age : 0..Old]
Failures == [count : 0..Len(Backoff), age : 0..Old, report : Reports \cup {NoReport}]

LEMMA ServiceTypeParts ==
  ServiceTypeOK <=> /\ content \subseteq Hashes /\ bodies \subseteq Bodies
             /\ reports \subseteq Reports
             /\ failures \in [Anchors -> Failures] /\ job \in [Requests -> Jobs]
BY DEF ServiceTypeOK, Jobs, Failures

LEMMA Ages == 0 \in 0..Old /\ Old \in 0..Old
BY MetadataServiceAssumption

\* What the invariant asks of one request.
Sound(x) ==
  /\ x.at # "idle" => x.anchor \in Anchors
  /\ x.at \in {"find", "create"} => x.got \in Hashes
  /\ x.at = "body" => x.got \in Bodies
  /\ x.at \in {"report", "record"} => Kept(x.got)
  /\ x.at = "record" => [anchor |-> x.anchor, got |-> x.got] \in reports
  /\ x.at \in {"body", "report", "record"} => x.got # x.anchor.hash

LEMMA SoundParts ==
  JobsStoreInOrder /\ OnlyFailuresAreRecorded
  <=> (\A r \in Requests : Sound(job[r])) /\ \A x \in reports : x.got # x.anchor.hash
BY DEF JobsStoreInOrder, OnlyFailuresAreRecorded, Sound, Report

\* The job of a request that moves on, as a value of its own.
LEMMA Moved ==
  ASSUME NEW r \in Requests, job[r] \in Jobs, NEW stage \in {"report", "record"}
  PROVE  \E x \in Jobs : /\ x = [job[r] EXCEPT !.at = stage]
                         /\ x.at = stage /\ x.anchor = job[r].anchor /\ x.got = job[r].got
<1> DEFINE x == [job[r] EXCEPT !.at = stage]
<1>1. x \in Jobs /\ x.at = stage /\ x.anchor = job[r].anchor /\ x.got = job[r].got
  BY DEF Jobs
<1> QED
  BY <1>1

LEMMA InitService == ServiceInit => ServiceIInv
<1> SUFFICES ASSUME ServiceInit PROVE ServiceIInv
  OBVIOUS
<1> USE DEF ServiceInit
<1>1. ServiceTypeOK
  <2>1. Len(Backoff) \in Nat /\ 0 \in 0..Len(Backoff) /\ Old \in 0..Old
    BY MetadataServiceAssumption
  <2>2. Idle \in Jobs /\ NoFailure \in Failures
    BY <2>1 DEF Idle, Jobs, NoFailure, Failures, Answers
  <2> QED
    BY <2>2, ServiceTypeParts
<1>2. JobsStoreInOrder /\ OnlyFailuresAreRecorded
  BY SoundParts DEF Sound, Idle
<1>3. ReportsAreComplete
  BY DEF ReportsAreComplete, NoFailure
<1> QED
  BY <1>1, <1>2, <1>3 DEF ServiceIInv

\* A step of one request that takes nothing out of the tables, and leaves the
\* failures alone.
LEMMA GrowIInv ==
  ASSUME ServiceIInv, NEW r \in Requests, NEW x \in Jobs,
         job' = [job EXCEPT ![r] = x], failures' = failures,
         content \subseteq content', content' \subseteq Hashes,
         bodies \subseteq bodies', bodies' \subseteq Bodies,
         reports \subseteq reports', reports' \subseteq Reports,
         \A y \in reports' \ reports : y.got # y.anchor.hash /\ Kept(y.got)',
         Sound(x)'
  PROVE  ServiceIInv'
<1>1. ServiceTypeOK'
  BY ServiceTypeParts DEF ServiceIInv, ServiceTypeOK, Jobs, Failures
<1>2. ASSUME NEW got, Kept(got) PROVE Kept(got)'
  BY <1>2 DEF Kept
<1>3. JobsStoreInOrder' /\ OnlyFailuresAreRecorded'
  <2>1. (\A s \in Requests : Sound(job[s])) /\ \A y \in reports : y.got # y.anchor.hash
    BY SoundParts DEF ServiceIInv
  <2>2. ASSUME NEW s \in Requests PROVE Sound(job[s])'
    <3>1. CASE s = r
      <4>1. job'[s] = x
        BY <3>1, ServiceTypeParts DEF ServiceIInv
      <4> QED
        BY <4>1 DEF Sound, Kept
    <3>2. CASE s # r
      <4>1. job'[s] = job[s]
        BY <3>2, ServiceTypeParts DEF ServiceIInv
      <4>2. job[s].at \in {"report", "record"} => Kept(job[s].got)'
        BY <2>1, <4>1 DEF Sound, Kept
      <4> QED
        BY <2>1, <4>1, <4>2 DEF Sound, Kept
    <3> QED
      BY <3>1, <3>2
  <2>3. \A y \in reports' : y.got # y.anchor.hash
    BY <2>1
  <2> QED
    BY <2>2, <2>3 DEF JobsStoreInOrder, OnlyFailuresAreRecorded, Sound, Report
<1>4. ReportsAreComplete'
  BY <1>2 DEF ServiceIInv, ReportsAreComplete, Kept
<1> QED
  BY <1>1, <1>3, <1>4 DEF ServiceIInv

\* A step of one request that stores nothing.
LEMMA MoveIInv ==
  ASSUME ServiceIInv, NEW r \in Requests, NEW x \in Jobs,
         job' = [job EXCEPT ![r] = x], UNCHANGED Database, Sound(x)
  PROVE  ServiceIInv'
<1>1. Sound(x)'
  BY DEF Sound, Kept, Database
<1> QED
  BY <1>1, GrowIInv, ServiceTypeParts DEF ServiceIInv, Database

\* What is known of a request that is under way.
LEMMA AtWork ==
  ASSUME ServiceIInv, NEW r \in Requests
  PROVE  job[r] \in Jobs /\ Sound(job[r])
BY ServiceTypeParts, SoundParts DEF ServiceIInv

LEMMA Ends ==
  /\ Idle \in Jobs /\ Sound(Idle)
<1>1. Old \in 0..Old
  BY MetadataServiceAssumption
<1> QED
  BY <1>1 DEF Idle, Jobs, Sound, Answers

LEMMA EndIInv ==
  ASSUME ServiceIInv, NEW r \in Requests, End(r), UNCHANGED Database
  PROVE  ServiceIInv'
BY Ends, MoveIInv DEF End

LEMMA FetchIInv ==
  ASSUME ServiceIInv, NEW r \in Requests, job[r].at # "idle", Fetch(r), UNCHANGED Database
  PROVE  ServiceIInv'
<1> DEFINE x == [job[r] EXCEPT !.at = "fetch", !.age = 0]
<1>1. job[r] \in Jobs /\ job[r].anchor \in Anchors
  BY AtWork DEF Sound
<1>3. x \in Jobs /\ x.at = "fetch" /\ x.anchor = job[r].anchor
  BY <1>1, Ages DEF Jobs
<1>4. Sound(x)
  BY <1>1, <1>3 DEF Sound
<1>2. job' = [job EXCEPT ![r] = x]
  BY DEF Fetch
<1> QED
  BY <1>2, <1>3, <1>4, MoveIInv

\* A request that only moves on keeps what it knows.
LEMMA StepIInv ==
  ASSUME ServiceIInv, NEW r \in Requests, NEW stage \in {"failure", "window", "create"},
         stage = "create" => job[r].at = "find",
         job[r].at # "idle", Step(r, stage), UNCHANGED Database
  PROVE  ServiceIInv'
<1> DEFINE x == [job[r] EXCEPT !.at = stage]
<1>1. job[r] \in Jobs /\ Sound(job[r])
  BY AtWork
<1>2. x \in Jobs /\ x.at = stage /\ x.anchor = job[r].anchor /\ x.got = job[r].got
  BY <1>1 DEF Jobs
<1>3. Sound(x)
  BY <1>1, <1>2 DEF Sound
<1>4. job' = [job EXCEPT ![r] = x]
  BY DEF Step
<1> QED
  BY <1>2, <1>3, <1>4, MoveIInv

-----------------------------------------------------------------------------
\* The handlers, up to the fetch.
LEMMA AskIInv ==
  ASSUME ServiceIInv, NEW r \in Requests, NEW kind \in {"resolve", "refresh", "verify"},
         NEW a \in Anchors, Ask(r, kind, a)
  PROVE  ServiceIInv'
<1> DEFINE x == [at |-> IF kind = "verify" THEN "fetch" ELSE "content",
                 kind |-> kind, anchor |-> a, got |-> Nothing, age |-> 0]
<1>1. x \in Jobs
  <2>1. 0 \in 0..Old
    BY MetadataServiceAssumption
  <2> QED
    BY <2>1 DEF Jobs, Answers
<1>2. Sound(x)
  BY DEF Sound
<1> QED
  BY <1>1, <1>2, MoveIInv DEF Ask

LEMMA FindContentIInv ==
  ASSUME ServiceIInv, NEW r \in Requests, FindContent(r)
  PROVE  ServiceIInv'
BY EndIInv, StepIInv DEF FindContent

LEMMA FindLatestFailureIInv ==
  ASSUME ServiceIInv, NEW r \in Requests, FindLatestFailure(r)
  PROVE  ServiceIInv'
<1> DEFINE f == failures[job[r].anchor]
           x == [job[r] EXCEPT !.at = "window", !.age = IF f.count > 0 THEN f.age ELSE Old]
<1>1. job[r].at = "failure" /\ job[r] \in Jobs /\ job[r].anchor \in Anchors
  BY AtWork DEF FindLatestFailure, Sound
<1>2. CASE Replay(r)
  BY <1>2, EndIInv DEF Replay
<1>3. CASE Fetch(r) /\ UNCHANGED Database
  BY <1>1, <1>3, FetchIInv
<1>4. CASE job' = [job EXCEPT ![r] = x] /\ UNCHANGED Database
  <2>1. f.age \in 0..Old /\ Old \in 0..Old
    BY <1>1, ServiceTypeParts, MetadataServiceAssumption DEF ServiceIInv, Failures
  <2>2. x \in Jobs /\ x.at = "window" /\ x.anchor = job[r].anchor
    BY <1>1, <2>1 DEF Jobs
  <2>3. Sound(x)
    BY <1>1, <2>2 DEF Sound
  <2> QED
    BY <1>4, <2>2, <2>3, MoveIInv
<1> QED
  BY <1>2, <1>3, <1>4 DEF FindLatestFailure

LEMMA ErrorWindowIInv ==
  ASSUME ServiceIInv, NEW r \in Requests, ErrorWindow(r)
  PROVE  ServiceIInv'
BY EndIInv, FetchIInv DEF ErrorWindow, Replay

-----------------------------------------------------------------------------
\* fetchAndRecord()
LEMMA FetchReturnsIInv ==
  ASSUME ServiceIInv, NEW r \in Requests, FetchReturns(r)
  PROVE  ServiceIInv'
<1> DEFINE a == job[r].anchor
           x(got) == [job[r] EXCEPT !.at = AfterFetch(got, a), !.kind = "any",
                                    !.got = got, !.age = 0]
<1>1. PICK got \in Answers : job' = [job EXCEPT ![r] = x(got)]
  BY DEF FetchReturns
<1>2. job[r] \in Jobs /\ a \in Anchors
  BY AtWork DEF FetchReturns, Sound
<1>3. a.hash \in Hashes
  BY <1>2, MetadataServiceAssumption
<1>4. AfterFetch(got, a) \in {"find", "body", "report"}
  BY DEF AfterFetch
<1>5. /\ x(got) \in Jobs /\ x(got).at = AfterFetch(got, a)
      /\ x(got).anchor = a /\ x(got).got = got
  BY <1>2, <1>4, Ages DEF Jobs
<1>6. Sound(x(got))
  <2>1. CASE got \in Hashes
    <3>1. got \notin Bodies
      BY <2>1, MetadataServiceAssumption
    <3>2. AfterFetch(got, a) = "find"
      BY <2>1, <3>1 DEF AfterFetch
    <3> QED
      BY <1>2, <1>5, <2>1, <3>2 DEF Sound
  <2>2. CASE got \in Bodies
    <3>1. got \notin Hashes /\ got # a.hash
      BY <1>3, <2>2, MetadataServiceAssumption
    <3>2. AfterFetch(got, a) = "body"
      BY <2>2, <3>1 DEF AfterFetch
    <3> QED
      BY <1>2, <1>5, <2>2, <3>1, <3>2 DEF Sound
  <2>3. CASE got = Nothing
    <3>1. got \notin Hashes \cup Bodies /\ got # a.hash
      BY <1>3, <2>3, MetadataServiceAssumption
    <3>2. AfterFetch(got, a) = "report"
      BY <3>1 DEF AfterFetch
    <3> QED
      BY <1>2, <1>5, <2>3, <3>1, <3>2 DEF Sound, Kept
  <2> QED
    BY <2>1, <2>2, <2>3 DEF Answers
<1>7. UNCHANGED Database
  BY DEF FetchReturns
<1> HIDE DEF x
<1> QED
  BY <1>1, <1>5, <1>6, <1>7, MoveIInv

\* Where a request goes once its document is stored.
LEMMA StoredJob ==
  ASSUME ServiceIInv, NEW r \in Requests, job[r].at \in {"find", "create"}, Stored(r),
         job[r].got \in content'
  PROVE  \E x \in Jobs : job' = [job EXCEPT ![r] = x] /\ Sound(x)'
<1>1. job[r] \in Jobs /\ Sound(job[r])
  BY AtWork
<1>2. CASE End(r)
  <2>1. Sound(Idle)'
    BY DEF Sound, Idle
  <2> QED
    BY <1>2, <2>1, Ends DEF End
<1>3. CASE job[r].got # job[r].anchor.hash /\ Step(r, "report")
  <2>1. PICK x \in Jobs :
          /\ x = [job[r] EXCEPT !.at = "report"]
          /\ x.at = "report" /\ x.anchor = job[r].anchor /\ x.got = job[r].got
    BY <1>1, Moved
  <2>2. Sound(x)'
    BY <1>1, <1>3, <2>1 DEF Sound, Kept
  <2> QED
    BY <1>3, <2>1, <2>2 DEF Step
<1> QED
  BY <1>2, <1>3 DEF Stored

LEMMA FindStoredIInv ==
  ASSUME ServiceIInv, NEW r \in Requests, FindStored(r)
  PROVE  ServiceIInv'
<1>1. UNCHANGED Database
  BY DEF FindStored
<1>2. CASE job[r].got \in content /\ Stored(r)
  <2>1. PICK x \in Jobs : job' = [job EXCEPT ![r] = x] /\ Sound(x)'
    BY <1>1, <1>2, StoredJob DEF FindStored, Database
  <2> QED
    BY <1>1, <2>1, GrowIInv, ServiceTypeParts DEF ServiceIInv, Database
<1>3. CASE Step(r, "create")
  BY <1>1, <1>3, StepIInv DEF FindStored
<1> QED
  BY <1>2, <1>3 DEF FindStored

LEMMA StoreContentIInv ==
  ASSUME ServiceIInv, NEW r \in Requests, StoreContent(r)
  PROVE  ServiceIInv'
<1>1. job[r].got \in Hashes
  BY AtWork DEF StoreContent, Sound
<1>2. PICK x \in Jobs : job' = [job EXCEPT ![r] = x] /\ Sound(x)'
  BY StoredJob DEF StoreContent
<1> QED
  BY <1>1, <1>2, GrowIInv, ServiceTypeParts DEF ServiceIInv, StoreContent

LEMMA StoreBodyIInv ==
  ASSUME ServiceIInv, NEW r \in Requests, StoreBody(r)
  PROVE  ServiceIInv'
<1>1. job[r] \in Jobs /\ Sound(job[r]) /\ job[r].at = "body"
  BY AtWork DEF StoreBody
<1>2. PICK x \in Jobs :
        /\ x = [job[r] EXCEPT !.at = "report"]
        /\ x.at = "report" /\ x.anchor = job[r].anchor /\ x.got = job[r].got
  BY <1>1, Moved
<1>3. job[r].got \in Bodies /\ bodies' = bodies \cup {job[r].got}
  BY <1>1 DEF Sound, StoreBody
<1>4. Sound(x)'
  BY <1>1, <1>2, <1>3 DEF Sound, Kept
<1>5. job' = [job EXCEPT ![r] = x]
  BY <1>2 DEF StoreBody, Step
<1> QED
  BY <1>2, <1>3, <1>4, <1>5, GrowIInv, ServiceTypeParts DEF ServiceIInv, StoreBody

LEMMA StoreReportIInv ==
  ASSUME ServiceIInv, NEW r \in Requests, StoreReport(r)
  PROVE  ServiceIInv'
<1>1. job[r] \in Jobs /\ Sound(job[r]) /\ job[r].at = "report"
  BY AtWork DEF StoreReport
<1>2. PICK x \in Jobs :
        /\ x = [job[r] EXCEPT !.at = "record"]
        /\ x.at = "record" /\ x.anchor = job[r].anchor /\ x.got = job[r].got
  BY <1>1, Moved
<1>3. /\ Report(r) \in Reports /\ Report(r).anchor = job[r].anchor
      /\ Report(r).got = job[r].got
  BY <1>1 DEF Report, Reports, Jobs, Sound
<1>4. reports' = reports \cup {Report(r)} /\ UNCHANGED <<content, bodies, failures>>
  BY DEF StoreReport
<1>5. Sound(x)'
  <2>1. [anchor |-> x.anchor, got |-> x.got] = Report(r)
    BY <1>2 DEF Report
  <2> QED
    BY <1>1, <1>2, <1>4, <2>1 DEF Sound, Kept
<1>6. \A y \in reports' \ reports : y.got # y.anchor.hash /\ Kept(y.got)'
  BY <1>1, <1>3, <1>4 DEF Sound, Kept
<1>7. job' = [job EXCEPT ![r] = x]
  BY <1>2 DEF StoreReport, Step
<1> QED
  BY <1>2, <1>3, <1>4, <1>5, <1>6, <1>7, GrowIInv, ServiceTypeParts DEF ServiceIInv

LEMMA RecordFailureIInv ==
  ASSUME ServiceIInv, NEW r \in Requests, RecordFailure(r)
  PROVE  ServiceIInv'
<1> DEFINE a == job[r].anchor
           f == failures[a]
           n == IF f.count < Len(Backoff) THEN f.count + 1 ELSE f.count
           latest == f.count = 0 \/ job[r].age <= f.age
           own == [count |-> n, age |-> job[r].age, report |-> Report(r)]
           g == IF latest THEN own ELSE [f EXCEPT !.count = n]
<1>1. job[r] \in Jobs /\ Sound(job[r]) /\ job[r].at = "record" /\ a \in Anchors
  BY AtWork DEF RecordFailure, Sound
<1>2. f \in Failures /\ Len(Backoff) \in Nat
  BY <1>1, ServiceTypeParts, MetadataServiceAssumption DEF ServiceIInv
<1>3. n \in 0..Len(Backoff)
  BY <1>2 DEF Failures
<1>4. Report(r) \in Reports /\ Report(r) \in reports /\ Report(r).anchor = a
  BY <1>1 DEF Report, Reports, Jobs, Sound
<1>5. /\ failures' = [failures EXCEPT ![a] = g] /\ job' = [job EXCEPT ![r] = Idle]
      /\ UNCHANGED <<content, bodies, reports>>
  BY DEF RecordFailure, End
<1>6. own \in Failures /\ [f EXCEPT !.count = n] \in Failures
  BY <1>1, <1>2, <1>3, <1>4 DEF Failures, Jobs
<1>7. /\ g \in Failures
      /\ g.report \in reports /\ g.report.anchor = a
  <2>1. CASE latest
    BY <1>4, <1>6, <2>1
  <2>2. CASE ~latest
    <3>1. f.count > 0
      BY <1>2, <2>2 DEF Failures
    <3>2. f.report \in reports /\ f.report.anchor = a
      BY <1>1, <3>1 DEF ServiceIInv, ReportsAreComplete
    <3>3. g = [f EXCEPT !.count = n] /\ g.report = f.report
      BY <1>2, <2>2 DEF Failures
    <3> QED
      BY <1>6, <3>2, <3>3
  <2> QED
    BY <2>1, <2>2
<1> HIDE DEF g, own, n, latest
<1>8. ServiceTypeOK'
  BY <1>5, <1>7, Ends, ServiceTypeParts DEF ServiceIInv, ServiceTypeOK, Jobs, Failures
<1>9. JobsStoreInOrder' /\ OnlyFailuresAreRecorded'
  <2>1. (\A s \in Requests : Sound(job[s])) /\ \A y \in reports : y.got # y.anchor.hash
    BY SoundParts DEF ServiceIInv
  <2>2. \A s \in Requests : Sound(job'[s])
    BY <1>5, <2>1, Ends, ServiceTypeParts DEF ServiceIInv
  <2> QED
    BY <1>5, <2>1, <2>2 DEF JobsStoreInOrder, OnlyFailuresAreRecorded, Sound, Report, Kept
<1>10. ReportsAreComplete'
  <2>1. \A b \in Anchors : failures'[b] = IF b = a THEN g ELSE failures[b]
    BY <1>5, ServiceTypeParts DEF ServiceIInv
  <2> QED
    BY <1>5, <1>7, <2>1 DEF ServiceIInv, ReportsAreComplete, Kept
<1> QED
  BY <1>8, <1>9, <1>10 DEF ServiceIInv

LEMMA TickIInv ==
  ASSUME ServiceIInv, TimePasses
  PROVE  ServiceIInv'
<1>1. \A age \in 0..Old : Older(age) \in 0..Old
  BY MetadataServiceAssumption DEF Older
<1>2. ASSUME NEW a \in Anchors
      PROVE  /\ failures'[a] \in Failures
             /\ failures'[a].count = failures[a].count
             /\ failures'[a].report = failures[a].report
  BY <1>1, ServiceTypeParts DEF ServiceIInv, TimePasses, Failures
<1>3. ASSUME NEW r \in Requests
      PROVE  /\ job'[r] \in Jobs
             /\ job'[r].at = job[r].at /\ job'[r].anchor = job[r].anchor
             /\ job'[r].got = job[r].got
  <2>1. job[r] \in Jobs
    BY ServiceTypeParts DEF ServiceIInv
  <2>2. job'[r] = IF job[r].at \in Dated THEN [job[r] EXCEPT !.age = Older(@)] ELSE job[r]
    BY DEF TimePasses
  <2> QED
    BY <1>1, <2>1, <2>2 DEF Jobs
<1>4. ServiceTypeOK'
  <2>1. failures' \in [Anchors -> Failures]
    BY <1>2 DEF TimePasses
  <2>2. job' \in [Requests -> Jobs]
    BY <1>3 DEF TimePasses
  <2> QED
    BY <2>1, <2>2, ServiceTypeParts DEF ServiceIInv, TimePasses, ServiceTypeOK, Failures, Jobs
<1>5. JobsStoreInOrder' /\ OnlyFailuresAreRecorded'
  BY <1>3 DEF ServiceIInv, JobsStoreInOrder, OnlyFailuresAreRecorded, Report, Kept, TimePasses
<1>6. ReportsAreComplete'
  <2>1. UNCHANGED <<content, bodies, reports>> /\ ReportsAreComplete
    BY DEF TimePasses, ServiceIInv
  <2>2. ASSUME NEW a \in Anchors, failures'[a].count > 0
        PROVE  failures'[a].report \in reports /\ failures'[a].report.anchor = a
    BY <1>2, <2>1, <2>2 DEF ReportsAreComplete
  <2> QED
    BY <2>1, <2>2 DEF ReportsAreComplete, Kept
<1> QED
  BY <1>4, <1>5, <1>6 DEF ServiceIInv

LEMMA NextService ==
  ServiceIInv /\ [ServiceNext]_serviceVars => ServiceIInv'
<1> SUFFICES ASSUME ServiceIInv, [ServiceNext]_serviceVars PROVE ServiceIInv'
  OBVIOUS
<1>1. ASSUME NEW r \in Requests, NEW kind \in {"resolve", "refresh", "verify"},
             NEW a \in Anchors, Ask(r, kind, a)
      PROVE  ServiceIInv'
  BY <1>1, AskIInv
<1>2. ASSUME NEW r \in Requests, Work(r)
      PROVE  ServiceIInv'
  BY <1>2, FindContentIInv, FindLatestFailureIInv, ErrorWindowIInv, FetchReturnsIInv,
     FindStoredIInv, StoreContentIInv, StoreBodyIInv, StoreReportIInv, RecordFailureIInv
     DEF Work
<1>3. ASSUME NEW r \in Requests, Abort(r)
      PROVE  ServiceIInv'
  BY <1>3, EndIInv DEF Abort
<1>4. CASE TimePasses
  BY <1>4, TickIInv
<1>5. CASE UNCHANGED serviceVars
  BY <1>5 DEF serviceVars, ServiceIInv, ServiceTypeOK, JobsStoreInOrder, OnlyFailuresAreRecorded,
              ReportsAreComplete, Report, Kept
<1> QED
  BY <1>1, <1>2, <1>3, <1>4, <1>5 DEF ServiceNext

\* Every reachable state satisfies the invariant.
THEOREM ServiceInductive == ServiceSpec => []ServiceIInv
<1>1. ServiceInit => ServiceIInv
  BY InitService
<1>2. ServiceIInv /\ [ServiceNext]_serviceVars => ServiceIInv'
  BY NextService
<1> QED
  BY <1>1, <1>2, PTL DEF ServiceSpec

\* Every failure that is replayed has its report, and every report its body,
\* wherever requests died.
THEOREM ReportsAreCompleteHolds == ServiceSpec => []ReportsAreComplete
<1>1. ServiceIInv => ReportsAreComplete
  BY DEF ServiceIInv
<1> QED
  BY <1>1, ServiceInductive, PTL

\* No document that was fetched as asked for is counted as a failure.
THEOREM OnlyFailuresAreRecordedHolds == ServiceSpec => []OnlyFailuresAreRecorded
<1>1. ServiceIInv => OnlyFailuresAreRecorded
  BY DEF ServiceIInv
<1> QED
  BY <1>1, ServiceInductive, PTL

-----------------------------------------------------------------------------
\* ProviderHttp

(***************************************************************************)
(* Counting calls and following the queue.                                 *)
(***************************************************************************)
LEMMA CallersFinite ==
  ASSUME NEW places
  PROVE  IsFiniteSet(Callers(places)) /\ Cardinality(Callers(places)) \in Nat
<1>1. Callers(places) \subseteq Calls BY DEF Callers
<1>2. IsFiniteSet(Callers(places)) BY <1>1, HttpAssumption, FS_Subset
<1> QED BY <1>2, FS_CardinalityType

LEMMA OneMore ==
  ASSUME NEW S, IsFiniteSet(S), NEW c, c \notin S
  PROVE  Cardinality(S \cup {c}) = Cardinality(S) + 1
BY FS_AddElement

LEMMA OneLess ==
  ASSUME NEW S, IsFiniteSet(S), NEW c, c \in S
  PROVE  Cardinality(S \ {c}) = Cardinality(S) - 1
BY FS_RemoveElement

LEMMA Enqueued ==
  ASSUME NEW s \in Seq(Calls), NEW c \in Calls
  PROVE  /\ Append(s, c) \in Seq(Calls) /\ Append(s, c) # <<>>
         /\ Len(Append(s, c)) = Len(s) + 1 /\ Len(s) \in Nat
         /\ \A i \in 1..Len(s) : Append(s, c)[i] = s[i]
         /\ Append(s, c)[Len(s) + 1] = c
OBVIOUS

LEMMA Dequeued ==
  ASSUME NEW s \in Seq(Calls), s # <<>>
  PROVE  /\ Tail(s) \in Seq(Calls) /\ Len(Tail(s)) = Len(s) - 1
         /\ Len(s) \in Nat \ {0} /\ Head(s) = s[1]
         /\ \A i \in 1..(Len(s) - 1) : Tail(s)[i] = s[i + 1]
OBVIOUS

(***************************************************************************)
(* Where a step leaves a call, and whom it counts.                         *)
(***************************************************************************)
\* A call that moves from one place to another.
LEMMA MovedCallers ==
  ASSUME HttpTypeOK, NEW c \in Calls, NEW p \in Places, at' = [at EXCEPT ![c] = p]
  PROVE  /\ at' \in [Calls -> Places]
         /\ \A places : /\ p \in places => Callers(places)' = Callers(places) \cup {c}
                        /\ p \notin places => Callers(places)' = Callers(places) \ {c}
BY DEF HttpTypeOK, Callers

\* take() sends the request or sleeps, and holds the slot in both cases.
LEMMA Taken ==
  ASSUME HttpTypeOK, BucketBelowServer, NEW c \in Calls, Take(c)
  PROVE  /\ \E p \in Holding : at' = [at EXCEPT ![c] = p]
         /\ sleep' \in [Calls -> 0..(Token + MaxWait)]
         /\ tokens' \in 0..Full /\ server' \in Int
         /\ BucketBelowServer'
<1> USE HttpAssumption DEF HttpTypeOK, BucketBelowServer, Holding
<1>1. CASE tokens >= Token BY <1>1 DEF Take
<1>2. CASE ~(tokens >= Token)
  <2>1. /\ at' = [at EXCEPT ![c] = "pacing"]
        /\ sleep' = [sleep EXCEPT ![c] = Token - tokens]
        /\ UNCHANGED <<tokens, server>>
    BY <1>2 DEF Take
  <2>2. Token - tokens \in 0..(Token + MaxWait) BY <1>2
  <2>3. sleep' \in [Calls -> 0..(Token + MaxWait)] BY <2>1, <2>2
  <2>4. tokens' \in 0..Full /\ server' \in Int /\ BucketBelowServer' BY <2>1
  <2> QED BY <2>1, <2>3, <2>4
<1> QED BY <1>1, <1>2

\* What a step has to say of the semaphore.
Semaphore == waiting \in Seq(Calls) /\ Accounted /\ NoLostWakeup

\* A call that takes a slot, from a place that holds none.
LEMMA SlotTaken ==
  ASSUME HttpTypeOK, Semaphore, NEW c \in Calls, NEW p \in Holding,
         at' = [at EXCEPT ![c] = p], at[c] \notin Holding, at[c] # "queued",
         active' = active + 1, UNCHANGED waiting
  PROVE  Semaphore'
<1>1. p \in Places BY DEF Holding, Places
<1>2. Callers(Holding)' = Callers(Holding) \cup {c} BY <1>1, MovedCallers
<1>3. c \notin Callers(Holding) BY DEF Callers
<1>4. Cardinality(Callers(Holding)') = Cardinality(Callers(Holding)) + 1
  BY <1>2, <1>3, CallersFinite, OneMore
<1>5. Callers({"queued"})' = Callers({"queued"})
  BY <1>1, MovedCallers DEF Callers, Holding
<1>6. Callers({"woken"})' = Callers({"woken"}) \ {c}
  BY <1>1, MovedCallers DEF Holding
<1>7. Cardinality(Callers({"woken"})') >= Cardinality(Callers({"woken"})) - 1
  <2>1. CASE c \in Callers({"woken"})
    BY <2>1, <1>6, CallersFinite, OneLess
  <2>2. CASE c \notin Callers({"woken"})
    <3>1. Callers({"woken"})' = Callers({"woken"}) BY <1>6, <2>2
    <3> QED BY <3>1, CallersFinite
  <2> QED BY <2>1, <2>2
<1>8. Cardinality(Callers({"woken"})) \in Nat /\ Cardinality(Callers({"woken"})') \in Nat
  <2>1. Callers({"woken"})' \subseteq Callers({"woken"}) BY <1>6
  <2>2. IsFiniteSet(Callers({"woken"})') BY <2>1, CallersFinite, FS_Subset
  <2> QED BY <2>2, CallersFinite, FS_CardinalityType
<1>9. Accounted' BY <1>4, <1>5 DEF Semaphore, Accounted, Queued
<1>10. NoLostWakeup'
  BY <1>7, <1>8, HttpAssumption, CallersFinite DEF Semaphore, NoLostWakeup, Accounted
<1> QED BY <1>9, <1>10 DEF Semaphore

\* A call that queues behind a full semaphore.
LEMMA SlotAwaited ==
  ASSUME HttpTypeOK, Semaphore, NEW c \in Calls,
         at' = [at EXCEPT ![c] = "queued"], at[c] \in {"idle", "pausing"},
         active >= Limit, UNCHANGED active, waiting' = Append(waiting, c)
  PROVE  Semaphore'
<1>1. "queued" \in Places BY DEF Places
<1>2. /\ Callers(Holding)' = Callers(Holding)
      /\ Callers({"woken"})' = Callers({"woken"})
      /\ Callers({"queued"})' = Callers({"queued"}) \cup {c}
      /\ c \notin Callers({"queued"})
  BY <1>1, MovedCallers DEF Callers, Holding
<1>3. c \notin Queued BY <1>2 DEF Semaphore, Accounted
<1>4. Queued' = Queued \cup {c}
  BY Enqueued DEF Queued, Semaphore
<1>5. \A i, j \in 1..Len(waiting') : waiting'[i] = waiting'[j] => i = j
  <2>1. \A i \in 1..Len(waiting) : waiting[i] # c BY <1>3 DEF Queued
  <2> QED BY <2>1, Enqueued DEF Semaphore, Accounted
<1>6. Accounted' BY <1>2, <1>4, <1>5 DEF Semaphore, Accounted
<1>7. NoLostWakeup'
  <2>1. active \in Nat BY CallersFinite DEF Semaphore, Accounted
  <2> QED BY <2>1, <1>2, CallersFinite, HttpAssumption DEF NoLostWakeup
<1> QED BY <1>6, <1>7, Enqueued DEF Semaphore

\* run(): either of the two.
LEMMA Entered ==
  ASSUME HttpTypeOK, Semaphore, BucketBelowServer, NEW c \in Calls,
         at[c] \in {"idle", "pausing"}, Run(c)
  PROVE  /\ Semaphore' /\ BucketBelowServer'
         /\ at' \in [Calls -> Places]
         /\ sleep' \in [Calls -> 0..(Token + MaxWait)]
         /\ tokens' \in 0..Full /\ server' \in Int
<1>1. CASE active >= Limit /\ UNCHANGED <<active, sleep, tokens, server>>
           /\ waiting' = Append(waiting, c) /\ at' = [at EXCEPT ![c] = "queued"]
  BY <1>1, SlotAwaited, MovedCallers DEF HttpTypeOK, BucketBelowServer, Places
<1>2. CASE active' = active + 1 /\ UNCHANGED waiting /\ Take(c)
  <2>1. PICK p \in Holding : at' = [at EXCEPT ![c] = p] BY <1>2, Taken
  <2>2. at[c] \notin Holding /\ at[c] # "queued" /\ p \in Places
    BY DEF Holding, Places
  <2> QED BY <1>2, <2>1, <2>2, Taken, SlotTaken, MovedCallers
<1> QED BY <1>1, <1>2 DEF Run

\* The finally of run(): the slot given up is the one the woken call will take.
LEMMA SlotFreed ==
  ASSUME HttpTypeOK, Semaphore, NEW c \in Calls, at[c] = "asking", Release(c)
  PROVE  Semaphore' /\ at' \in [Calls -> Places]
<1>1. /\ c \in Callers(Holding)
      /\ Cardinality(Callers(Holding) \ {c}) = Cardinality(Callers(Holding)) - 1
  <2>1. c \in Callers(Holding) BY DEF Callers, Holding
  <2> QED BY <2>1, CallersFinite, OneLess
<1>2. CASE waiting = <<>>
  <2>1. at' = [at EXCEPT ![c] = "back"] /\ UNCHANGED waiting /\ active' = active - 1
    BY <1>2 DEF Release
  <2>2. "back" \in Places BY DEF Places
  <2>3. Callers(Holding)' = Callers(Holding) \ {c} /\ Callers({"queued"})' = Callers({"queued"})
    BY <2>1, <2>2, MovedCallers DEF Callers, Holding
  <2>4. Accounted' BY <1>1, <2>1, <2>3 DEF Semaphore, Accounted, Queued
  <2>5. NoLostWakeup' BY <1>2, <2>1 DEF NoLostWakeup
  <2> QED BY <2>1, <2>2, <2>4, <2>5, MovedCallers DEF Semaphore
<1>3. CASE waiting # <<>>
  <2> DEFINE h == Head(waiting)
  <2>1. /\ at' = [at EXCEPT ![c] = "back", ![h] = "woken"]
        /\ waiting' = Tail(waiting) /\ active' = active - 1
    BY <1>3 DEF Release
  <2>2. h = waiting[1] /\ h \in Queued /\ h \in Calls /\ at[h] = "queued" /\ h # c
    <3>1. h = waiting[1] /\ 1 \in 1..Len(waiting) BY <1>3, Dequeued DEF Semaphore
    <3>2. h \in Queued BY <3>1 DEF Queued
    <3>3. h \in Callers({"queued"}) BY <3>2 DEF Semaphore, Accounted
    <3> QED BY <3>1, <3>2, <3>3 DEF Callers
  <2> HIDE DEF h
  <2>3. /\ at' \in [Calls -> Places] /\ at'[c] = "back" /\ at'[h] = "woken"
        /\ \A d \in Calls \ {c, h} : at'[d] = at[d]
    BY <2>1, <2>2 DEF HttpTypeOK, Places
  <2>4. /\ Callers(Holding)' = Callers(Holding) \ {c}
        /\ Callers({"woken"})' = Callers({"woken"}) \cup {h}
        /\ Callers({"queued"})' = Callers({"queued"}) \ {h}
        /\ h \notin Callers({"woken"})
    BY <2>2, <2>3 DEF Callers, Holding
  <2>5. Queued' = Queued \ {h}
    <3>1. \A q \in Queued' : q \in Queued /\ q # h
      BY <1>3, <2>1, <2>2, Dequeued DEF Queued, Semaphore, Accounted
    <3>2. \A q \in Queued \ {h} : q \in Queued'
      <4> SUFFICES ASSUME NEW q \in Queued \ {h} PROVE q \in Queued' OBVIOUS
      <4>1. PICK i \in 1..Len(waiting) : waiting[i] = q BY DEF Queued
      <4>2. i - 1 \in 1..(Len(waiting) - 1) /\ (i - 1) + 1 = i
        BY <4>1, <2>2, <1>3, Dequeued DEF Semaphore
      <4>3. Tail(waiting)[i - 1] = q
        BY <4>1, <4>2, <1>3, Dequeued DEF Semaphore
      <4>4. Len(Tail(waiting)) = Len(waiting) - 1 BY <1>3, Dequeued DEF Semaphore
      <4> QED BY <4>2, <4>3, <4>4, <2>1 DEF Queued
    <3> QED BY <3>1, <3>2
  <2>6. \A i, j \in 1..Len(waiting') : waiting'[i] = waiting'[j] => i = j
    BY <1>3, <2>1, Dequeued DEF Semaphore, Accounted
  <2>7. Accounted' BY <1>1, <2>1, <2>4, <2>5, <2>6 DEF Semaphore, Accounted
  <2>8. Cardinality(Callers({"woken"})') = Cardinality(Callers({"woken"})) + 1
    BY <2>4, CallersFinite, OneMore
  <2>9. NoLostWakeup'
    BY <1>3, <2>1, <2>8, CallersFinite, HttpAssumption
    DEF Semaphore, Accounted, NoLostWakeup
  <2> QED BY <1>3, <2>1, <2>3, <2>7, <2>9, Dequeued DEF Semaphore
<1> QED BY <1>2, <1>3

\* Where a call goes that enters or leaves the semaphore, the others stay or wake.
LEMMA EnteredPlace ==
  ASSUME HttpTypeOK, NEW c \in Calls, Run(c)
  PROVE  \A d \in Calls : at'[d] = "pausing" => d # c /\ at[d] = "pausing"
BY DEF HttpTypeOK, Run, Take

LEMMA FreedPlace ==
  ASSUME HttpTypeOK, NEW c \in Calls, Release(c)
  PROVE  \A d \in Calls : at'[d] = "pausing" => d # c /\ at[d] = "pausing"
BY DEF HttpTypeOK, Release

\* A step that leaves slots, the queue and who was woken alone.
LEMMA SlotsKept ==
  ASSUME Semaphore, UNCHANGED semaphore,
         Callers(Holding)' = Callers(Holding),
         Callers({"queued"})' = Callers({"queued"}),
         Callers({"woken"})' = Callers({"woken"})
  PROVE  Semaphore'
BY DEF Semaphore, Accounted, NoLostWakeup, Queued, semaphore

-----------------------------------------------------------------------------
(***************************************************************************)
(* The inductive invariant.                                                *)
(***************************************************************************)
LEMMA InitHttp == HttpInit => HttpIInv
<1> SUFFICES ASSUME HttpInit PROVE HttpIInv OBVIOUS
<1> USE HttpAssumption DEF HttpInit
<1>1. HttpTypeOK BY DEF HttpTypeOK, Places, Outcomes
<1>2. Accounted
  <2>1. Callers(Holding) = {} /\ Callers({"queued"}) = {} BY DEF Callers, Holding
  <2>2. Queued = {} BY DEF Queued
  <2> QED BY <2>1, <2>2, FS_EmptySet DEF Accounted
<1>3. NoLostWakeup BY DEF NoLostWakeup
<1>4. AttemptsLeft BY DEF AttemptsLeft
<1>5. BucketBelowServer BY DEF BucketBelowServer
<1> QED BY <1>1, <1>2, <1>3, <1>4, <1>5 DEF HttpIInv

LEMMA NextHttp == HttpIInv /\ [HttpNext]_httpVars => HttpIInv'
<1> SUFFICES ASSUME HttpIInv, [HttpNext]_httpVars PROVE HttpIInv' OBVIOUS
<1>a. HttpTypeOK /\ Semaphore /\ AttemptsLeft /\ BucketBelowServer
  BY DEF HttpIInv, HttpTypeOK, Semaphore
<1>s. ASSUME HttpTypeOK', Semaphore', AttemptsLeft', BucketBelowServer' PROVE HttpIInv'
  BY <1>s DEF HttpIInv, Semaphore
<1>1. CASE UNCHANGED httpVars
  <2>1. HttpTypeOK' BY <1>a, <1>1 DEF httpVars, semaphore, HttpTypeOK
  <2>2. Semaphore' BY <1>a, <1>1, SlotsKept DEF httpVars, semaphore, Callers
  <2>3. BucketBelowServer' BY <1>a, <1>1 DEF httpVars, BucketBelowServer
  <2>4. AttemptsLeft' BY <1>a, <1>1 DEF httpVars, AttemptsLeft
  <2> QED BY <2>1, <2>2, <2>3, <2>4, <1>s
<1>2. CASE Clock
  <2>1. HttpTypeOK' BY <1>a, <1>2, HttpAssumption DEF Clock, Refilled, semaphore, HttpTypeOK
  <2>2. Semaphore' BY <1>a, <1>2, SlotsKept DEF Clock, Callers
  <2>3. BucketBelowServer'
    BY <1>a, <1>2, HttpAssumption DEF Clock, Refilled, BucketBelowServer, HttpTypeOK
  <2>4. AttemptsLeft' BY <1>a, <1>2 DEF Clock, AttemptsLeft
  <2> QED BY <2>1, <2>2, <2>3, <2>4, <1>s
<1>3. ASSUME NEW c \in Calls, CallStep(c) PROVE HttpIInv'
  <2>1. CASE Start(c)
    <3>1. /\ Semaphore' /\ BucketBelowServer' /\ at' \in [Calls -> Places]
          /\ sleep' \in [Calls -> 0..(Token + MaxWait)]
          /\ tokens' \in 0..Full /\ server' \in Int
      BY <1>a, <2>1, Entered DEF Start
    <3>2. HttpTypeOK' BY <1>a, <2>1, <3>1 DEF Start, HttpTypeOK, Semaphore
    <3>9. AttemptsLeft' BY <1>a, <2>1, EnteredPlace DEF Start, AttemptsLeft
    <3> QED BY <3>9, <3>1, <3>2, <1>s
  <2>2. CASE Wake(c)
    <3>1. PICK p \in Holding : at' = [at EXCEPT ![c] = p] BY <1>a, <2>2, Taken DEF Wake
    <3>2. p \in Places /\ at[c] \notin Holding /\ at[c] # "queued"
      BY <2>2 DEF Holding, Places, Wake
    <3>3. Semaphore' BY <1>a, <2>2, <3>1, <3>2, SlotTaken DEF Wake
    <3>4. HttpTypeOK' BY <1>a, <2>2, <3>1, <3>2, Taken, MovedCallers DEF Wake, HttpTypeOK
    <3>9. AttemptsLeft' BY <1>a, <2>2, <3>1, <3>2 DEF Wake, AttemptsLeft, HttpTypeOK, Holding
    <3> QED BY <3>9, <1>a, <2>2, <3>3, <3>4, Taken, <1>s DEF Wake
  <2>3. CASE Look(c)
    <3>1. PICK p \in Holding : at' = [at EXCEPT ![c] = p] BY <1>a, <2>3, Taken DEF Look
    <3>2. p \in Places /\ at[c] = "pacing" BY <2>3 DEF Holding, Places, Look
    <3>3. /\ Callers(Holding)' = Callers(Holding)
          /\ Callers({"queued"})' = Callers({"queued"})
          /\ Callers({"woken"})' = Callers({"woken"})
      BY <1>a, <3>1, <3>2, MovedCallers DEF Callers, Holding
    <3>4. Semaphore' BY <1>a, <2>3, <3>3, SlotsKept DEF Look
    <3>5. HttpTypeOK'
      BY <1>a, <2>3, <3>1, <3>2, Taken, MovedCallers DEF Look, HttpTypeOK, semaphore
    <3>9. AttemptsLeft' BY <1>a, <2>3, <3>1, <3>2 DEF Look, AttemptsLeft, HttpTypeOK, Holding
    <3> QED BY <3>9, <1>a, <2>3, <3>4, <3>5, Taken, <1>s DEF Look
  <2>4. CASE Answer(c)
    <3>1. Semaphore' /\ at' \in [Calls -> Places]
      BY <1>a, <2>4, SlotFreed DEF Answer
    <3>2. HttpTypeOK' BY <1>a, <2>4, <3>1 DEF Answer, HttpTypeOK, Semaphore
    <3>3. BucketBelowServer' BY <1>a, <2>4 DEF Answer, BucketBelowServer
    <3>9. AttemptsLeft' BY <1>a, <2>4, FreedPlace DEF Answer, AttemptsLeft
    <3> QED BY <3>9, <3>1, <3>2, <3>3, <1>s
  <2>5. CASE Conclude(c)
    <3>1. PICK p \in {"done", "failed", "pausing"} : at' = [at EXCEPT ![c] = p]
      BY <2>5 DEF Conclude
    <3>2. p \in Places /\ at[c] = "back" BY <2>5 DEF Places, Conclude
    <3>3. /\ Callers(Holding)' = Callers(Holding)
          /\ Callers({"queued"})' = Callers({"queued"})
          /\ Callers({"woken"})' = Callers({"woken"})
      BY <1>a, <3>1, <3>2, MovedCallers DEF Callers, Holding
    <3>4. Semaphore' BY <1>a, <2>5, <3>3, SlotsKept DEF Conclude
    <3>5. tokens' \in 0..Full /\ tokens' <= tokens
      BY <1>a, <2>5, HttpAssumption DEF Conclude, Drain, HttpTypeOK
    <3>6. sleep' \in [Calls -> 0..(Token + MaxWait)]
      BY <1>a, <2>5, HttpAssumption DEF Conclude, HttpTypeOK
    <3>7. HttpTypeOK'
      BY <1>a, <2>5, <3>1, <3>2, <3>5, <3>6, MovedCallers DEF Conclude, HttpTypeOK, semaphore
    <3>8. BucketBelowServer'
      BY <1>a, <2>5, <3>5, HttpAssumption DEF Conclude, BucketBelowServer, HttpTypeOK
    <3>9. AttemptsLeft' BY <1>a, <2>5 DEF Conclude, AttemptsLeft, HttpTypeOK, Retries
    <3> QED BY <3>9, <3>4, <3>7, <3>8, <1>s
  <2>6. CASE Again(c)
    <3>1. /\ Semaphore' /\ BucketBelowServer' /\ at' \in [Calls -> Places]
          /\ sleep' \in [Calls -> 0..(Token + MaxWait)]
          /\ tokens' \in 0..Full /\ server' \in Int
      BY <1>a, <2>6, Entered DEF Again
    <3>2. attempt' \in [Calls -> 0..MaxRetries]
      BY <1>a, <2>6, HttpAssumption DEF Again, AttemptsLeft, HttpTypeOK
    <3>3. HttpTypeOK' BY <1>a, <2>6, <3>1, <3>2 DEF Again, HttpTypeOK, Semaphore
    <3>9. AttemptsLeft'
      BY <1>a, <2>6, EnteredPlace, HttpAssumption DEF Again, AttemptsLeft, HttpTypeOK
    <3> QED BY <3>9, <3>1, <3>3, <1>s
  <2> QED BY <1>3, <2>1, <2>2, <2>3, <2>4, <2>5, <2>6 DEF CallStep
<1> QED BY <1>1, <1>2, <1>3 DEF HttpNext

\* The slots counted are the slots held, nobody waits for a slot that nobody
\* holds, and the bucket never runs ahead of the server's, for any number of
\* calls.
THEOREM SemaphoreAndBucket == HttpSpec => []HttpIInv
<1>1. HttpInit => HttpIInv BY InitHttp
<1>2. HttpIInv /\ [HttpNext]_httpVars => HttpIInv' BY NextHttp
<1> QED BY <1>1, <1>2, PTL DEF HttpSpec

\* No wake-up of the semaphore is lost: http.ts's Limiter.run.
THEOREM NoWakeupIsLost == HttpSpec => []NoLostWakeup
<1>1. HttpIInv => NoLostWakeup BY DEF HttpIInv
<1> QED BY <1>1, SemaphoreAndBucket, PTL

\* The pacing of http.ts's TokenBucket keeps within the server's rate.
THEOREM PacingKeepsTheRate == HttpSpec => []WithinRate
<1>1. HttpIInv => WithinRate
  BY HttpAssumption DEF HttpIInv, HttpTypeOK, BucketBelowServer, WithinRate
<1> QED BY <1>1, SemaphoreAndBucket, PTL

-----------------------------------------------------------------------------
\* DocumentStore

FailureCounts == 0..DocMaxRetries + 1
UnansweredCounts == 0..MaxUnanswered - 1
AskCounts == 0..Budget + 1
Records ==
  [anchor : DocAnchors \cup {None}, document : BOOLEAN, failed : BOOLEAN,
   failures : FailureCounts, unanswered : UnansweredCounts, due : BOOLEAN,
   attempt : {"none", "waiting", "granted", "asked"}, asks : AskCounts]
Fillings == [at : {"idle", "settling"}, awaits : SUBSET Entries]
Stores == [DocAnchors -> Entries \cup {None}]

\* The budget is room for one more failure after any number of them.
LEMMA BudgetIsNat ==
  /\ Budget \in Nat
  /\ \A n \in Nat : /\ n * MaxUnanswered \in Nat
                     /\ (n + 1) * MaxUnanswered = n * MaxUnanswered + MaxUnanswered
  /\ \A n \in Nat : n <= DocMaxRetries => n * MaxUnanswered + MaxUnanswered <= Budget
<1> DEFINE M == MaxUnanswered
<1>1. M \in Nat /\ DocMaxRetries \in Nat
  BY DocumentStoreAssumption
<1> HIDE DEF M
<1>2. \A n \in Nat : n * M \in Nat /\ (n + 1) * M = n * M + M
  BY <1>1
<1>3. \A n \in Nat : n <= DocMaxRetries => n * M <= DocMaxRetries * M
  BY <1>1
<1>4. (DocMaxRetries + 1) * M = DocMaxRetries * M + M /\ DocMaxRetries * M \in Nat
  BY <1>1, <1>2
<1>5. \A n \in Nat : n <= DocMaxRetries => n * M + M <= (DocMaxRetries + 1) * M
  BY <1>1, <1>2, <1>3, <1>4
<1> QED
  BY <1>1, <1>2, <1>4, <1>5 DEF Budget, M

LEMMA RecordTypes ==
  ASSUME NEW x \in Records
  PROVE  /\ x.failures \in Nat /\ x.failures <= DocMaxRetries + 1
         /\ x.unanswered \in Nat /\ x.unanswered <= MaxUnanswered - 1
         /\ x.asks \in Nat /\ Spent(x) \in Nat /\ x.document \in BOOLEAN
         /\ x.attempt \in {"none", "waiting", "granted", "asked"}
<1> USE DEF FailureCounts, UnansweredCounts, AskCounts
<1>1. x.failures \in Nat /\ x.failures <= DocMaxRetries + 1
  BY DocumentStoreAssumption DEF Records
<1>2. x.unanswered \in Nat /\ x.unanswered <= MaxUnanswered - 1
  BY DocumentStoreAssumption DEF Records
<1>3. x.asks \in Nat
  BY BudgetIsNat DEF Records
<1>4. Spent(x) \in Nat
  BY <1>1, <1>2, BudgetIsNat DEF Spent
<1> QED
  BY <1>1, <1>2, <1>3, <1>4 DEF Records

LEMMA StoreTypeParts ==
  StoreTypeOK <=>
    /\ entries \in Stores /\ object \in [Entries -> Records]
    /\ fetching \in 0..Concurrency /\ queue \in Seq(Entries)
    /\ answeredAll \in BOOLEAN /\ fill \in [Fills -> Fillings]
BY DEF StoreTypeOK, Stores, Records, Fillings, FailureCounts, UnansweredCounts, AskCounts

LEMMA UnusedIsSound == Unused \in Records /\ EntrySound(Unused) /\ Unused.attempt = "none"
<1>1. /\ Unused.attempt = "none" /\ Unused.asks = 0 /\ Unused.failures = 0
      /\ Unused.unanswered = 0 /\ Unused.document = FALSE
  BY DEF Unused
<1>2. Unused \in Records
  <2>1. 0 \in FailureCounts /\ 0 \in UnansweredCounts /\ 0 \in AskCounts
    BY DocumentStoreAssumption, BudgetIsNat DEF FailureCounts, UnansweredCounts, AskCounts
  <2> QED
    BY <2>1 DEF Unused, Records
<1>3. Spent(Unused) \in Nat
  BY <1>2, RecordTypes
<1> QED
  BY <1>1, <1>2, <1>3, BudgetIsNat DEF EntrySound
(***************************************************************************)
(* What a step does to an entry.                                           *)
(***************************************************************************)
LEMMA AskIsSound ==
  ASSUME NEW x \in Records, EntrySound(x), x.attempt # "asked",
         ~x.document, x.failures <= DocMaxRetries
  PROVE  /\ AskFor(x) \in Records /\ EntrySound(AskFor(x)) /\ AskFor(x).attempt = "asked"
         /\ AskFor(x).anchor = x.anchor
         /\ AskFor(x).document = x.document /\ AskFor(x).failures = x.failures
<1> DEFINE y == AskFor(x)
<1>1. x.asks <= Spent(x) /\ Spent(x) + 1 <= Budget /\ Spent(x) \in Nat /\ x.asks \in Nat
  <2>1. /\ x.failures \in Nat /\ x.unanswered \in Nat /\ x.unanswered <= MaxUnanswered - 1
        /\ x.asks \in Nat /\ Spent(x) \in Nat
    BY RecordTypes
  <2>2. /\ x.failures * MaxUnanswered \in Nat
        /\ x.failures * MaxUnanswered + MaxUnanswered <= Budget
    BY <2>1, BudgetIsNat
  <2>3. Spent(x) + 1 <= Budget
    BY <2>1, <2>2, BudgetIsNat, DocumentStoreAssumption DEF Spent
  <2> QED
    BY <2>1, <2>3 DEF EntrySound
<1>2. x.asks + 1 \in AskCounts /\ ~(x.asks > Budget)
  BY <1>1, BudgetIsNat DEF AskCounts
<1>3. y = [x EXCEPT !.attempt = "asked", !.asks = x.asks + 1]
  BY <1>2 DEF AskFor
<1>4. y \in Records
  BY <1>2, <1>3 DEF Records
<1>5. /\ y.attempt = "asked" /\ y.asks = x.asks + 1 /\ y.document = x.document
      /\ y.failures = x.failures /\ y.unanswered = x.unanswered /\ y.anchor = x.anchor
  BY <1>3 DEF Records
<1>6. Spent(y) = Spent(x)
  BY <1>5 DEF Spent
<1>7. EntrySound(y)
  BY <1>1, <1>5, <1>6, BudgetIsNat DEF EntrySound
<1> QED
  BY <1>4, <1>5, <1>7

\* The three ends of an attempt that asked.
LEMMA EndsAreSound ==
  ASSUME NEW x \in Records, EntrySound(x), x.attempt = "asked"
  PROVE  \A y : \/ y = [x EXCEPT !.document = TRUE, !.failed = FALSE,
                                 !.failures = 0, !.unanswered = 0]
                \/ y = CountFailure(x)
                \/ x.unanswered + 1 < MaxUnanswered /\ y = [x EXCEPT !.unanswered = @ + 1]
                => /\ y \in Records /\ EntrySound([y EXCEPT !.attempt = "none"])
                   /\ y.anchor = x.anchor
<1> SUFFICES ASSUME NEW y,
                    \/ y = [x EXCEPT !.document = TRUE, !.failed = FALSE,
                                     !.failures = 0, !.unanswered = 0]
                    \/ y = CountFailure(x)
                    \/ x.unanswered + 1 < MaxUnanswered /\ y = [x EXCEPT !.unanswered = @ + 1]
             PROVE  /\ y \in Records /\ EntrySound([y EXCEPT !.attempt = "none"])
                    /\ y.anchor = x.anchor
  OBVIOUS
<1> DEFINE z == [y EXCEPT !.attempt = "none"]
<1>1. /\ ~x.document /\ x.failures <= DocMaxRetries /\ x.asks <= Spent(x) + 1
      /\ x.asks <= Budget /\ x.asks \in Nat
  BY RecordTypes DEF EntrySound
<1>5. 0 \in FailureCounts /\ 0 \in UnansweredCounts
  BY DocumentStoreAssumption DEF FailureCounts, UnansweredCounts
<1>2. CASE y = [x EXCEPT !.document = TRUE, !.failed = FALSE, !.failures = 0, !.unanswered = 0]
  <2>1. y \in Records
    BY <1>2, <1>5 DEF Records
  <2>2. z.attempt = "none" /\ z.document = TRUE /\ z.asks = x.asks /\ y.anchor = x.anchor
    BY <1>2 DEF Records
  <2> QED
    BY <1>1, <2>1, <2>2 DEF EntrySound
<1>3. CASE y = CountFailure(x)
  <2>1. x.failures \in Nat /\ x.failures + 1 \in FailureCounts
    BY <1>1, RecordTypes, DocumentStoreAssumption DEF FailureCounts
  <2>2. y = [x EXCEPT !.unanswered = 0, !.failures = x.failures + 1, !.failed = TRUE,
                      !.due = FALSE]
    BY <1>3 DEF CountFailure
  <2>3. y \in Records
    BY <1>5, <2>1, <2>2 DEF Records
  <2>4. /\ z.attempt = "none" /\ z.asks = x.asks /\ z.failures = x.failures + 1
        /\ z.unanswered = 0 /\ y.anchor = x.anchor
    BY <2>2 DEF Records
  <2>5. Spent(x) + 1 <= Spent(z) /\ Spent(z) \in Nat /\ Spent(x) \in Nat
    <3>1. /\ x.unanswered \in Nat /\ x.unanswered <= MaxUnanswered - 1
          /\ MaxUnanswered \in Nat
      BY RecordTypes, DocumentStoreAssumption
    <3>2. /\ Spent(z) = x.failures * MaxUnanswered + MaxUnanswered
          /\ x.failures * MaxUnanswered \in Nat
      BY <2>1, <2>4, <3>1, BudgetIsNat DEF Spent
    <3> QED
      BY <3>1, <3>2 DEF Spent
  <2> QED
    BY <1>1, <2>3, <2>4, <2>5 DEF EntrySound
<1>4. CASE x.unanswered + 1 < MaxUnanswered /\ y = [x EXCEPT !.unanswered = @ + 1]
  <2>1. x.unanswered \in Nat /\ x.unanswered + 1 \in UnansweredCounts
    BY <1>4, RecordTypes, DocumentStoreAssumption DEF UnansweredCounts
  <2>2. y \in Records
    BY <1>4, <2>1 DEF Records
  <2>3. /\ z.attempt = "none" /\ z.asks = x.asks /\ z.failures = x.failures
        /\ z.unanswered = x.unanswered + 1 /\ y.anchor = x.anchor
    BY <1>4 DEF Records
  <2>4. Spent(z) = Spent(x) + 1 /\ Spent(x) \in Nat
    <3>1. x.failures * MaxUnanswered \in Nat
      BY RecordTypes, BudgetIsNat
    <3> QED
      BY <2>1, <2>3, <3>1 DEF Spent
  <2> QED
    BY <1>1, <2>2, <2>3, <2>4 DEF EntrySound
<1> QED
  BY <1>2, <1>3, <1>4


(***************************************************************************)
(* Keeping the objects, and counting the slots.                            *)
(***************************************************************************)
\* The slots that are taken and awaited, for any contents of the objects.
Accounts(es, n, w) ==
  /\ n = Cardinality({e \in Entries : es[e].attempt \in {"granted", "asked"}})
  /\ w # <<>> => n = Concurrency
  /\ ToSet(w) = {e \in Entries : es[e].attempt = "waiting"}
  /\ \A i, j \in DOMAIN w : w[i] = w[j] => i = j

LEMMA AccountsNow == SlotsAreAccounted <=> Accounts(object, fetching, queue)
BY DEF SlotsAreAccounted, Accounts, Holders

LEMMA KeptObjects ==
  ASSUME NEW m \in Stores, NEW es \in [Entries -> Records], Keep(m, es)
  PROVE  /\ entries' = m /\ object' \in [Entries -> Records]
         /\ \A e \in Entries : /\ object'[e].attempt = es[e].attempt
                               /\ object'[e] = es[e] \/ object'[e] = Unused
         /\ \A a \in DocAnchors : m[a] # None => object'[m[a]] = es[m[a]]
<1>1. /\ entries' = m
      /\ \A e \in Entries : \/ object'[e] = es[e]
                            \/ (es[e].attempt = "none" /\ object'[e] = Unused)
  BY DEF Keep
<1>2. \A a \in DocAnchors : m[a] # None => object'[m[a]] = es[m[a]]
  BY DEF Keep, Stores
<1>3. object' \in [Entries -> Records]
  BY UnusedIsSound DEF Keep
<1> QED
  BY <1>1, <1>2, <1>3, UnusedIsSound

\* A step that leaves the objects as es and the Map as m, slots and fills with them.
LEMMA KeepIInv ==
  ASSUME NEW m \in Stores, NEW es \in [Entries -> Records], Keep(m, es),
         \A e \in Entries : EntrySound(es[e]),
         Accounts(es, fetching', queue'),
         fetching' \in 0..Concurrency, queue' \in Seq(Entries),
         \A a \in DocAnchors : m[a] # None => es[m[a]].anchor = a,
         answeredAll' \in BOOLEAN, fill' \in [Fills -> Fillings],
         \A f \in Fills : \A e \in fill'[f].awaits : es[e].attempt # "none"
  PROVE  StoreIInv'
<1>1. /\ entries' = m /\ object' \in [Entries -> Records]
      /\ \A e \in Entries : /\ object'[e].attempt = es[e].attempt
                            /\ object'[e] = es[e] \/ object'[e] = Unused
      /\ \A a \in DocAnchors : m[a] # None => object'[m[a]] = es[m[a]]
  BY KeptObjects
<1>2. StoreTypeOK'
  BY <1>1
     DEF StoreTypeOK, Stores, Records, Fillings, FailureCounts, UnansweredCounts, AskCounts
<1>3. SlotsAreAccounted'
  <2>1. {e \in Entries : object'[e].attempt \in {"granted", "asked"}}
          = {e \in Entries : es[e].attempt \in {"granted", "asked"}}
    BY <1>1
  <2>2. {e \in Entries : object'[e].attempt = "waiting"}
          = {e \in Entries : es[e].attempt = "waiting"}
    BY <1>1
  <2> QED
    BY <2>1, <2>2 DEF SlotsAreAccounted, Holders, Accounts
<1>4. AwaitedAttemptsRun'
  BY <1>1 DEF AwaitedAttemptsRun, Fillings
<1>5. EntriesNameTheirAnchor'
  BY <1>1 DEF EntriesNameTheirAnchor
<1>6. AskedIsSpent' /\ AskedWithinBudget'
  <2>1. \A e \in Entries : EntrySound(object'[e])
    BY <1>1, UnusedIsSound
  <2> QED
    BY <2>1 DEF AskedIsSpent, AskedWithinBudget, EntrySound
<1> QED
  BY <1>2, <1>3, <1>4, <1>5, <1>6 DEF StoreIInv

LEMMA HoldersFinite ==
  ASSUME NEW es
  PROVE  /\ IsFiniteSet({e \in Entries : es[e].attempt \in {"granted", "asked"}})
         /\ Cardinality({e \in Entries : es[e].attempt \in {"granted", "asked"}}) \in Nat
<1> DEFINE H == {e \in Entries : es[e].attempt \in {"granted", "asked"}}
<1>1. H \subseteq Entries
  OBVIOUS
<1>2. IsFiniteSet(H)
  BY <1>1, DocumentStoreAssumption, FS_Subset
<1> QED
  BY <1>2, FS_CardinalityType

LEMMA QueueShifts ==
  ASSUME NEW s \in Seq(Entries), s # <<>>,
         \A i, j \in DOMAIN s : s[i] = s[j] => i = j
  PROVE  /\ Tail(s) \in Seq(Entries) /\ Head(s) \in ToSet(s) /\ Head(s) \in Entries
         /\ ToSet(Tail(s)) = ToSet(s) \ {Head(s)}
         /\ \A i, j \in DOMAIN Tail(s) : Tail(s)[i] = Tail(s)[j] => i = j
<1>1. /\ Len(s) \in Nat \ {0} /\ DOMAIN s = 1..Len(s) /\ Head(s) = s[1]
      /\ Tail(s) \in Seq(Entries) /\ DOMAIN Tail(s) = 1..(Len(s) - 1)
      /\ \A i \in 1..(Len(s) - 1) : Tail(s)[i] = s[i + 1]
  OBVIOUS
<1>2. Head(s) \in ToSet(s) /\ Head(s) \in Entries
  BY <1>1 DEF ToSet
<1>3. \A i, j \in DOMAIN Tail(s) : Tail(s)[i] = Tail(s)[j] => i = j
  <2> SUFFICES ASSUME NEW i \in 1..(Len(s) - 1), NEW j \in 1..(Len(s) - 1),
                      Tail(s)[i] = Tail(s)[j]
               PROVE  i = j
    BY <1>1
  <2>1. i + 1 \in DOMAIN s /\ j + 1 \in DOMAIN s /\ s[i + 1] = s[j + 1]
    BY <1>1
  <2>2. i + 1 = j + 1
    BY <2>1
  <2> QED
    BY <1>1, <2>2
<1>4. ToSet(Tail(s)) \subseteq ToSet(s) \ {Head(s)}
  <2> SUFFICES ASSUME NEW i \in 1..(Len(s) - 1)
               PROVE  Tail(s)[i] \in ToSet(s) \ {Head(s)}
    BY <1>1 DEF ToSet
  <2>1. i + 1 \in DOMAIN s /\ 1 \in DOMAIN s /\ i + 1 # 1 /\ Tail(s)[i] = s[i + 1]
    BY <1>1
  <2> QED
    BY <1>1, <2>1 DEF ToSet
<1>5. ToSet(s) \ {Head(s)} \subseteq ToSet(Tail(s))
  <2> SUFFICES ASSUME NEW i \in 1..Len(s), s[i] # s[1]
               PROVE  s[i] \in ToSet(Tail(s))
    BY <1>1 DEF ToSet
  <2>1. i - 1 \in 1..(Len(s) - 1) /\ (i - 1) + 1 = i
    BY <1>1
  <2>2. Tail(s)[i - 1] = s[i]
    BY <1>1, <2>1
  <2> QED
    BY <1>1, <2>1, <2>2 DEF ToSet
<1> QED
  BY <1>1, <1>2, <1>3, <1>4, <1>5


\* An attempt that ends while nobody waits frees its slot.
LEMMA SlotIsFree ==
  ASSUME StoreTypeOK, SlotsAreAccounted, NEW e \in Entries,
         object[e].attempt \in {"granted", "asked"}, queue = <<>>,
         NEW y \in Records, y.attempt = "none"
  PROVE  /\ Accounts([object EXCEPT ![e] = y], fetching - 1, queue)
         /\ fetching - 1 \in 0..Concurrency
<1> DEFINE es == [object EXCEPT ![e] = y]
           H == {g \in Entries : object[g].attempt \in {"granted", "asked"}}
           G == {g \in Entries : es[g].attempt \in {"granted", "asked"}}
<1>1. es \in [Entries -> Records] /\ \A g \in Entries : es[g] = IF g = e THEN y ELSE object[g]
  BY StoreTypeParts
<1>2. G = H \ {e} /\ e \in H
  BY <1>1
<1>3. IsFiniteSet(H) /\ Cardinality(H) \in Nat /\ Cardinality(G) \in Nat
  BY HoldersFinite
<1>4. Cardinality(G) = Cardinality(H) - 1
  BY <1>2, <1>3, FS_RemoveElement
<1>5. fetching = Cardinality(H) /\ fetching \in 0..Concurrency
  BY AccountsNow, StoreTypeParts DEF Accounts
<1>6. {g \in Entries : es[g].attempt = "waiting"} = {g \in Entries : object[g].attempt = "waiting"}
  BY <1>1
<1>7. Accounts(es, fetching - 1, queue)
  BY <1>4, <1>5, <1>6, AccountsNow DEF Accounts
<1> QED
  BY <1>3, <1>4, <1>5, <1>7, DocumentStoreAssumption

\* An attempt that ends while others wait hands its slot to the first of them.
LEMMA SlotHandedOn ==
  ASSUME StoreTypeOK, SlotsAreAccounted, NEW e \in Entries,
         object[e].attempt \in {"granted", "asked"}, queue # <<>>,
         NEW y \in Records, y.attempt = "none",
         NEW es \in [Entries -> Records],
         \A g \in Entries \ {e, Head(queue)} : es[g] = object[g],
         es[e].attempt = "none", es[Head(queue)].attempt = "granted"
  PROVE  Accounts(es, fetching, Tail(queue))
<1> DEFINE h == Head(queue)
           H == {g \in Entries : object[g].attempt \in {"granted", "asked"}}
           G == {g \in Entries : es[g].attempt \in {"granted", "asked"}}
           Wait == {g \in Entries : object[g].attempt = "waiting"}
<1>1. /\ fetching = Cardinality(H) /\ fetching = Concurrency /\ ToSet(queue) = Wait
      /\ \A i, j \in DOMAIN queue : queue[i] = queue[j] => i = j
      /\ queue \in Seq(Entries)
  BY AccountsNow, StoreTypeParts DEF Accounts
<1>2. /\ h \in Wait /\ ToSet(Tail(queue)) = Wait \ {h}
      /\ \A i, j \in DOMAIN Tail(queue) : Tail(queue)[i] = Tail(queue)[j] => i = j
  BY <1>1, QueueShifts
<1>3. h \notin H /\ e \in H /\ h # e /\ h \in Entries
  BY <1>2
<1>4. G = (H \ {e}) \cup {h} /\ h \notin H \ {e}
  BY <1>3
<1>5. Cardinality(G) = Cardinality(H)
  <2>1. IsFiniteSet(H) /\ Cardinality(H) \in Nat
    BY HoldersFinite
  <2>4. e \in H /\ h \notin H \ {e} /\ G = (H \ {e}) \cup {h}
    BY <1>3, <1>4
  <2> HIDE DEF G, H, h
  <2>2. IsFiniteSet(H \ {e}) /\ Cardinality(H \ {e}) = Cardinality(H) - 1
    BY <2>1, <2>4, FS_RemoveElement
  <2>3. Cardinality((H \ {e}) \cup {h}) = Cardinality(H \ {e}) + 1
    BY <2>2, <2>4, FS_AddElement
  <2> QED
    BY <2>4, <2>1, <2>2, <2>3
<1>6. {g \in Entries : es[g].attempt = "waiting"} = Wait \ {h}
  BY <1>3
<1> QED
  BY <1>1, <1>2, <1>5, <1>6 DEF Accounts

\* What an entry that stays says is kept: its document, and a spent failure.
KeepsAnswers(m) ==
  /\ entries' = m
  /\ \A a \in DocAnchors : entries[a] # None /\ m[a] = entries[a] =>
       /\ object[entries[a]].document => object'[entries[a]].document
       /\ object[entries[a]].failures > DocMaxRetries =>
            object'[entries[a]].failures > DocMaxRetries

\* What is under way is at entries without an answer.
LEMMA KeptAnswers ==
  ASSUME NEW m \in Stores, NEW es \in [Entries -> Records], Keep(m, es),
         entries \in Stores, object \in [Entries -> Records],
         \A g \in Entries : EntrySound(object[g]),
         \A g \in Entries : es[g] = object[g] \/ object[g].attempt # "none"
  PROVE  KeepsAnswers(m)
<1>1. entries' = m /\ \A a \in DocAnchors : m[a] # None => object'[m[a]] = es[m[a]]
  BY KeptObjects
<1>2. ASSUME NEW a \in DocAnchors, entries[a] # None, m[a] = entries[a]
      PROVE  \/ object'[entries[a]] = object[entries[a]]
             \/ ~object[entries[a]].document /\ object[entries[a]].failures <= DocMaxRetries
  <2>1. entries[a] \in Entries /\ object'[entries[a]] = es[entries[a]]
    BY <1>1, <1>2 DEF Stores
  <2> QED
    BY <2>1 DEF EntrySound
<1>3. \A g \in Entries : object[g].failures <= DocMaxRetries =>
                              ~(object[g].failures > DocMaxRetries)
  BY RecordTypes, DocumentStoreAssumption
<1> QED
  BY <1>1, <1>2, <1>3 DEF KeepsAnswers, Stores

\* attempt() is over: e is left as x and the slot goes on.
LEMMA SettledKeepsIInv ==
  ASSUME StoreIInv, NEW e \in Entries, object[e].attempt \in {"granted", "asked"},
         NEW x \in Records, EntrySound([x EXCEPT !.attempt = "none"]), x.anchor = object[e].anchor,
         Settled(e, x)
  PROVE  StoreIInv' /\ KeepsAnswers(entries)
<1>1. PICK y : y = [x EXCEPT !.attempt = "none"]
  OBVIOUS
<1>2. y \in Records /\ y.attempt = "none" /\ EntrySound(y) /\ y.anchor = object[e].anchor
  BY <1>1 DEF Records
<1>3. /\ StoreTypeOK /\ SlotsAreAccounted /\ \A g \in Entries : EntrySound(object[g])
      /\ entries \in Stores /\ object \in [Entries -> Records]
      /\ \A a \in DocAnchors : entries[a] # None =>
           entries[a] \in Entries /\ object[entries[a]].anchor = a
      /\ fill \in [Fills -> Fillings]
      /\ \A f \in Fills : \A g \in fill[f].awaits : object[g].attempt # "none"
      /\ answeredAll \in BOOLEAN
  BY StoreTypeParts DEF StoreIInv, AskedIsSpent, EntriesNameTheirAnchor, AwaitedAttemptsRun,
                   Stores
<1>4. /\ answeredAll' \in BOOLEAN /\ fill' \in [Fills -> Fillings]
      /\ \A f \in Fills : fill'[f].awaits = fill[f].awaits \ {e}
  BY <1>3 DEF Settled, Fillings
<1>7. object[e].attempt # "none"
  OBVIOUS
<1>5. CASE queue = <<>>
  <2>1. PICK es : es = [object EXCEPT ![e] = y]
    OBVIOUS
  <2>2. /\ Keep(entries, es) /\ fetching' = fetching - 1 /\ queue' = queue
    BY <1>1, <1>5, <2>1 DEF Settled
  <2>3. /\ es \in [Entries -> Records]
        /\ \A g \in Entries : es[g] = IF g = e THEN y ELSE object[g]
    BY <1>2, <1>3, <2>1
  <2>4. Accounts(es, fetching', queue') /\ fetching' \in 0..Concurrency
    BY <1>2, <1>3, <1>5, <2>1, <2>2, SlotIsFree
  <2>5. queue' \in Seq(Entries)
    BY <2>2, <1>5
  <2>6. \A a \in DocAnchors : entries[a] # None => es[entries[a]].anchor = a
    BY <1>2, <1>3, <2>3
  <2>7. \A f \in Fills : \A g \in fill'[f].awaits : es[g].attempt # "none"
    BY <1>3, <1>4, <2>3 DEF Fillings
  <2>8. KeepsAnswers(entries)
    <3>1. \A g \in Entries : \/ es[g] = object[g] \/ object[g].attempt # "none"
      BY <1>7, <2>3
    <3> QED
      BY <1>3, <2>2, <2>3, <3>1, KeptAnswers
  <2> QED
    BY <1>2, <1>3, <1>4, <2>2, <2>3, <2>4, <2>5, <2>6, <2>7, <2>8, KeepIInv
<1>6. CASE queue # <<>>
  <2>1. PICK es : es = [object EXCEPT ![e] = y, ![Head(queue)].attempt = "granted"]
    OBVIOUS
  <2>2. /\ Keep(entries, es) /\ fetching' = fetching /\ queue' = Tail(queue)
    BY <1>1, <1>6, <2>1 DEF Settled
  <2>3. /\ Head(queue) \in Entries /\ object[Head(queue)].attempt = "waiting"
        /\ Tail(queue) \in Seq(Entries) /\ fetching \in 0..Concurrency
    <3>1. /\ queue \in Seq(Entries) /\ fetching \in 0..Concurrency
          /\ ToSet(queue) = {g \in Entries : object[g].attempt = "waiting"}
          /\ \A i, j \in DOMAIN queue : queue[i] = queue[j] => i = j
      BY <1>3, StoreTypeParts, AccountsNow DEF Accounts
    <3> QED
      BY <1>6, <3>1, QueueShifts
  <2>4. PICK h \in Entries : h = Head(queue)
    BY <2>3
  <2>5. h # e
    BY <2>3, <2>4
  <2>6. PICK z : z = [object[h] EXCEPT !.attempt = "granted"]
    OBVIOUS
  <2>7. z \in Records /\ z.attempt = "granted" /\ z.anchor = object[h].anchor /\ EntrySound(z)
    <3>1. object[h] \in Records /\ EntrySound(object[h]) /\ object[h].attempt = "waiting"
      BY <1>3, <2>3, <2>4
    <3>2. z \in Records
      BY <2>6, <3>1 DEF Records
    <3>3. /\ z.attempt = "granted" /\ z.anchor = object[h].anchor
          /\ z.document = object[h].document /\ z.failures = object[h].failures
          /\ z.asks = object[h].asks /\ z.unanswered = object[h].unanswered
      BY <2>6, <3>1 DEF Records
    <3> QED
      BY <3>1, <3>2, <3>3 DEF EntrySound, Spent
  <2>8. \A g \in Entries : es[g] = IF g = h THEN z ELSE IF g = e THEN y ELSE object[g]
    BY <1>3, <2>1, <2>4, <2>5, <2>6
  <2>9. es \in [Entries -> Records]
    BY <1>2, <1>3, <2>1, <2>4, <2>5, <2>7, <2>8
  <2>10. Accounts(es, fetching', queue')
    <3>1. /\ es[e].attempt = "none" /\ es[Head(queue)].attempt = "granted"
          /\ \A g \in Entries \ {e, Head(queue)} : es[g] = object[g]
      BY <1>2, <2>4, <2>5, <2>7, <2>8
    <3>2. Accounts(es, fetching, Tail(queue))
      BY <1>2, <1>3, <1>6, <2>9, <3>1, SlotHandedOn
    <3> QED
      BY <2>2, <3>2
  <2>11. \A a \in DocAnchors : entries[a] # None => es[entries[a]].anchor = a
    BY <1>2, <1>3, <2>7, <2>8
  <2>12. \A f \in Fills : \A g \in fill'[f].awaits : es[g].attempt # "none"
    BY <1>3, <1>4, <2>7, <2>8 DEF Fillings
  <2>13. \A g \in Entries : EntrySound(es[g])
    BY <1>2, <1>3, <2>7, <2>8
  <2>14. KeepsAnswers(entries)
    <3>1. \A g \in Entries : \/ es[g] = object[g] \/ object[g].attempt # "none"
      BY <1>7, <2>3, <2>4, <2>8
    <3> QED
      BY <1>3, <2>2, <2>9, <3>1, KeptAnswers
  <2> QED
    BY <1>3, <1>4, <2>2, <2>3, <2>9, <2>10, <2>11, <2>12, <2>13, <2>14, KeepIInv
<1> QED
  BY <1>5, <1>6


(***************************************************************************)
(* fill(): the new attempts take the free slots in order, the others wait. *)
(***************************************************************************)
LEMMA OrderNamesAll ==
  ASSUME NEW S \in SUBSET Entries, NEW order \in SetToSeqs(S)
  PROVE  /\ order \in Seq(Entries) /\ Len(order) \in Nat /\ DOMAIN order = 1..Len(order)
         /\ \A i, j \in 1..Len(order) : order[i] = order[j] => i = j
         /\ ToSet(order) = S
<1> DEFINE n == Cardinality(S)
<1>1. IsFiniteSet(S) /\ n \in Nat
  BY DocumentStoreAssumption, FS_Subset, FS_CardinalityType
<1>2. order \in [1..n -> S] /\ \A i, j \in 1..n : i # j => order[i] # order[j]
  BY DEF SetToSeqs
<1>3. order \in Injection(1..n, S)
  BY <1>2 DEF Injection, IsInjective
<1> HIDE DEF n
<1>4. IsFiniteSet(1..n) /\ Cardinality(1..n) = n
  BY <1>1, FS_Interval
<1>5. order \in Surjection(1..n, S)
  BY <1>1, <1>3, <1>4, FS_Injection DEF n
<1>6. \A s \in S : \E i \in 1..n : order[i] = s
  BY <1>5 DEF Surjection
<1>7. order \in Seq(Entries) /\ Len(order) = n /\ DOMAIN order = 1..n
  BY <1>1, <1>2
<1> QED
  BY <1>1, <1>2, <1>6, <1>7 DEF ToSet

\* The first k of a sequence without repetitions, and the others.
LEMMA FirstAndRest ==
  ASSUME NEW order \in Seq(Entries), NEW k \in 0..Len(order),
         \A i, j \in 1..Len(order) : order[i] = order[j] => i = j
  PROVE  LET first == {order[i] : i \in 1..k}
             rest == SubSeq(order, k + 1, Len(order))
         IN  /\ IsFiniteSet(first) /\ Cardinality(first) = k
             /\ rest \in Seq(Entries) /\ Len(rest) = Len(order) - k
             /\ ToSet(rest) = ToSet(order) \ first
             /\ \A i, j \in DOMAIN rest : rest[i] = rest[j] => i = j
<1> DEFINE first == {order[i] : i \in 1..k}
           rest == SubSeq(order, k + 1, Len(order))
           f == [i \in 1..k |-> order[i]]
<1>1. Len(order) \in Nat /\ DOMAIN order = 1..Len(order) /\ k \in Nat /\ k <= Len(order)
  OBVIOUS
<1>2. \A i \in 1..Len(order) : order[i] \in Entries
  BY <1>1
<1>3. f \in Bijection(1..k, first)
  <2>1. f \in [1..k -> first]
    OBVIOUS
  <2>2. \A i, j \in 1..k : f[i] = f[j] => i = j
    BY <1>1
  <2>3. \A s \in first : \E i \in 1..k : f[i] = s
    OBVIOUS
  <2> QED
    BY <2>1, <2>2, <2>3 DEF Bijection, Injection, Surjection, IsInjective
<1>4. IsFiniteSet(first) /\ Cardinality(first) = k
  <2>1. IsFiniteSet(1..k) /\ Cardinality(1..k) = k
    BY <1>1, FS_Interval
  <2>2. ExistsBijection(1..k, first)
    BY <1>3 DEF ExistsBijection
  <2> HIDE DEF first
  <2> QED
    BY <2>1, <2>2, FS_Bijection
<1>5. /\ rest \in Seq(Entries) /\ Len(rest) = Len(order) - k
      /\ \A i \in 1..(Len(order) - k) : rest[i] = order[k + i]
  <2>1. \A i \in (k + 1)..Len(order) : order[i] \in Entries
    BY <1>1, <1>2
  <2>2. /\ rest \in Seq(Entries)
        /\ Len(rest) = IF k + 1 <= Len(order) THEN Len(order) - (k + 1) + 1 ELSE 0
        /\ \A i \in 1..(Len(order) - (k + 1) + 1) : rest[i] = order[k + 1 + i - 1]
    BY <1>1, <2>1, SubSeqProperties
  <2>3. \A i \in 1..(Len(order) - k) :
          i \in 1..(Len(order) - (k + 1) + 1) /\ k + 1 + i - 1 = k + i
    BY <1>1
  <2> HIDE DEF rest
  <2>4. Len(rest) = Len(order) - k
    <3>1. CASE k + 1 <= Len(order)
      <4>1. Len(rest) = Len(order) - (k + 1) + 1
        BY <2>2, <3>1
      <4> HIDE DEF rest
      <4> QED
        BY <1>1, <4>1
    <3>2. CASE ~(k + 1 <= Len(order))
      <4>1. Len(rest) = 0
        BY <2>2, <3>2
      <4>2. PICK n \in Nat : n = Len(order)
        BY <1>1
      <4>3. k \in Nat /\ k <= n /\ ~(k + 1 <= n)
        BY <1>1, <3>2, <4>2
      <4>4. n - k = 0
        BY <4>2, <4>3
      <4> QED
        BY <4>1, <4>2, <4>4
    <3> QED
      BY <3>1, <3>2
  <2>5. ASSUME NEW i \in 1..(Len(order) - k) PROVE rest[i] = order[k + i]
    BY <2>2, <2>3
  <2> QED
    BY <2>2, <2>4, <2>5
<1> HIDE DEF rest
<1>6. DOMAIN rest = 1..(Len(order) - k)
  BY <1>5
<1>7. \A i, j \in DOMAIN rest : rest[i] = rest[j] => i = j
  <2> SUFFICES ASSUME NEW i \in 1..(Len(order) - k), NEW j \in 1..(Len(order) - k),
                      rest[i] = rest[j]
               PROVE  i = j
    BY <1>6
  <2>1. k + i \in 1..Len(order) /\ k + j \in 1..Len(order) /\ order[k + i] = order[k + j]
    BY <1>1, <1>5
  <2>2. k + i = k + j
    BY <2>1
  <2> QED
    BY <1>1, <2>2
<1>8. ToSet(rest) \subseteq ToSet(order) \ first
  <2> SUFFICES ASSUME NEW i \in 1..(Len(order) - k)
               PROVE  rest[i] \in ToSet(order) /\ rest[i] \notin first
    BY <1>6 DEF ToSet
  <2>1. k + i \in 1..Len(order) /\ k + i > k /\ rest[i] = order[k + i]
    BY <1>1, <1>5
  <2>2. \A j \in 1..k : order[j] # order[k + i]
    BY <1>1, <2>1
  <2> QED
    BY <1>1, <2>1, <2>2 DEF ToSet
<1>9. ToSet(order) \ first \subseteq ToSet(rest)
  <2> SUFFICES ASSUME NEW i \in 1..Len(order), order[i] \notin first
               PROVE  order[i] \in ToSet(rest)
    BY <1>1 DEF ToSet
  <2>1. i > k
    BY <1>1
  <2>2. i - k \in 1..(Len(order) - k) /\ k + (i - k) = i
    BY <1>1, <2>1
  <2>3. rest[i - k] = order[i]
    BY <1>5, <2>2
  <2> QED
    BY <1>6, <2>2, <2>3 DEF ToSet
<1> QED
  BY <1>4, <1>5, <1>7, <1>8, <1>9 DEF rest

LEMMA QueuesJoin ==
  ASSUME NEW s \in Seq(Entries), NEW r \in Seq(Entries), ToSet(s) \cap ToSet(r) = {},
         \A i, j \in DOMAIN s : s[i] = s[j] => i = j,
         \A i, j \in DOMAIN r : r[i] = r[j] => i = j
  PROVE  /\ s \o r \in Seq(Entries) /\ ToSet(s \o r) = ToSet(s) \cup ToSet(r)
         /\ s \o r # <<>> => s # <<>> \/ r # <<>>
         /\ \A i, j \in DOMAIN (s \o r) : (s \o r)[i] = (s \o r)[j] => i = j
<1>1. /\ Len(s) \in Nat /\ Len(r) \in Nat /\ DOMAIN s = 1..Len(s) /\ DOMAIN r = 1..Len(r)
  OBVIOUS
<1>2. PICK q : q = s \o r
  OBVIOUS
<1>3. /\ q \in Seq(Entries) /\ Len(q) = Len(s) + Len(r)
      /\ \A i \in 1..(Len(s) + Len(r)) : q[i] = IF i <= Len(s) THEN s[i] ELSE r[i - Len(s)]
  BY <1>2, ConcatProperties
<1>4. DOMAIN q = 1..(Len(s) + Len(r))
  BY <1>3
<1>5. \A i \in DOMAIN q : \/ i \in DOMAIN s /\ q[i] = s[i]
                          \/ i - Len(s) \in DOMAIN r /\ q[i] = r[i - Len(s)] /\ i > Len(s)
  BY <1>1, <1>3, <1>4
<1>6. /\ \A i \in DOMAIN s : i \in DOMAIN q /\ q[i] = s[i]
      /\ \A i \in DOMAIN r : Len(s) + i \in DOMAIN q /\ q[Len(s) + i] = r[i]
  <2>1. \A i \in DOMAIN s : i \in DOMAIN q /\ q[i] = s[i]
    BY <1>1, <1>3, <1>4
  <2>2. ASSUME NEW i \in DOMAIN r PROVE Len(s) + i \in DOMAIN q /\ q[Len(s) + i] = r[i]
    <3>1. /\ Len(s) + i \in 1..(Len(s) + Len(r)) /\ ~(Len(s) + i <= Len(s))
          /\ (Len(s) + i) - Len(s) = i
      BY <1>1
    <3> QED
      BY <1>3, <1>4, <3>1
  <2> QED
    BY <2>1, <2>2
<1>7. ToSet(q) = ToSet(s) \cup ToSet(r)
  <2>1. ToSet(q) \subseteq ToSet(s) \cup ToSet(r)
    BY <1>5 DEF ToSet
  <2>2. ToSet(s) \cup ToSet(r) \subseteq ToSet(q)
    BY <1>6 DEF ToSet
  <2> QED
    BY <2>1, <2>2
<1>8. \A i, j \in DOMAIN q : q[i] = q[j] => i = j
  <2> SUFFICES ASSUME NEW i \in DOMAIN q, NEW j \in DOMAIN q, q[i] = q[j] PROVE i = j
    OBVIOUS
  <2>1. i \in Int /\ j \in Int
    BY <1>1, <1>4
  <2>2. \A a \in DOMAIN s, b \in DOMAIN r : s[a] # r[b]
    BY DEF ToSet
  <2>3. CASE i \in DOMAIN s /\ q[i] = s[i]
    BY <1>5, <2>2, <2>3
  <2>4. CASE i - Len(s) \in DOMAIN r /\ q[i] = r[i - Len(s)] /\ i > Len(s)
    <3>1. j - Len(s) \in DOMAIN r /\ q[j] = r[j - Len(s)]
      BY <1>5, <2>2, <2>4
    <3>2. i - Len(s) = j - Len(s)
      BY <2>4, <3>1
    <3> QED
      BY <1>1, <2>1, <3>2
  <2> QED
    BY <1>5, <2>3, <2>4
<1>9. q # <<>> => s # <<>> \/ r # <<>>
  BY <1>1, <1>3
<1> QED
  BY <1>2, <1>3, <1>7, <1>8, <1>9


\* The attempts that take a free slot at once.
AtOnce(order) == {order[i] : i \in {i \in DOMAIN order : i <= Concurrency - fetching}}

LEMMA FillAccounts ==
  ASSUME StoreTypeOK, SlotsAreAccounted, NEW S \in SUBSET Entries,
         \A e \in S : object[e].attempt = "none",
         NEW order \in SetToSeqs(S), NEW es \in [Entries -> Records],
         \A e \in Entries : es[e].attempt = IF e \in AtOnce(order) THEN "asked"
                                            ELSE IF e \in S THEN "waiting"
                                            ELSE object[e].attempt
  PROVE  LET n == Cardinality(AtOnce(order))
             w == queue \o SubSeq(order, n + 1, Len(order))
         IN  /\ Accounts(es, fetching + n, w) /\ fetching + n \in 0..Concurrency
             /\ w \in Seq(Entries) /\ AtOnce(order) \subseteq S
<1> DEFINE H == {e \in Entries : object[e].attempt \in {"granted", "asked"}}
           G == {e \in Entries : es[e].attempt \in {"granted", "asked"}}
           Wait == {e \in Entries : object[e].attempt = "waiting"}
<1>1. /\ order \in Seq(Entries) /\ Len(order) \in Nat /\ DOMAIN order = 1..Len(order)
      /\ \A i, j \in 1..Len(order) : order[i] = order[j] => i = j
      /\ ToSet(order) = S
  BY OrderNamesAll
<1>2. /\ fetching = Cardinality(H) /\ fetching \in 0..Concurrency /\ queue \in Seq(Entries)
      /\ queue # <<>> => fetching = Concurrency
      /\ ToSet(queue) = Wait
      /\ \A i, j \in DOMAIN queue : queue[i] = queue[j] => i = j
  BY AccountsNow, StoreTypeParts DEF Accounts
<1>3. PICK k \in 0..Len(order) : /\ fetching + k \in 0..Concurrency
                                 /\ k < Len(order) => fetching + k = Concurrency
                                 /\ fetching = Concurrency => k = 0
                                 /\ AtOnce(order) = {order[i] : i \in 1..k}
  <2> DEFINE free == Concurrency - fetching
  <2>1. free \in Nat /\ fetching + free = Concurrency /\ fetching \in Nat /\ Concurrency \in Nat
    BY <1>2, DocumentStoreAssumption
  <2>2. AtOnce(order) = {order[i] : i \in {i \in 1..Len(order) : i <= free}}
    BY <1>1 DEF AtOnce
  <2>3. CASE free <= Len(order)
    <3>1. {i \in 1..Len(order) : i <= free} = 1..free /\ free \in 0..Len(order)
      BY <1>1, <2>1, <2>3
    <3>2. AtOnce(order) = {order[i] : i \in 1..free}
      BY <2>2, <3>1
    <3> QED
      BY <2>1, <3>1, <3>2
  <2>4. CASE ~(free <= Len(order))
    <3>1. {i \in 1..Len(order) : i <= free} = 1..Len(order)
      BY <1>1, <2>1, <2>4
    <3>2. AtOnce(order) = {order[i] : i \in 1..Len(order)}
      BY <2>2, <3>1
    <3>3. /\ fetching + Len(order) \in 0..Concurrency /\ Len(order) \in 0..Len(order)
          /\ fetching # Concurrency
      BY <1>1, <2>1, <2>4
    <3> QED
      BY <1>1, <3>2, <3>3
  <2> QED
    BY <2>3, <2>4
<1>4. PICK rest : rest = SubSeq(order, k + 1, Len(order))
  OBVIOUS
<1>5. /\ IsFiniteSet(AtOnce(order)) /\ Cardinality(AtOnce(order)) = k
      /\ rest \in Seq(Entries) /\ Len(rest) = Len(order) - k
      /\ ToSet(rest) = S \ AtOnce(order)
      /\ \A i, j \in DOMAIN rest : rest[i] = rest[j] => i = j
  <2> DEFINE first == {order[i] : i \in 1..k}
  <2>1. /\ IsFiniteSet(first) /\ Cardinality(first) = k
        /\ rest \in Seq(Entries) /\ Len(rest) = Len(order) - k
        /\ ToSet(rest) = ToSet(order) \ first
        /\ \A i, j \in DOMAIN rest : rest[i] = rest[j] => i = j
    BY <1>1, <1>4, FirstAndRest
  <2>2. AtOnce(order) = first
    BY <1>3
  <2> HIDE DEF first
  <2> QED
    BY <1>1, <2>1, <2>2
<1>6. AtOnce(order) \subseteq S
  <2>1. \A i \in 1..k : i \in DOMAIN order
    BY <1>1
  <2> QED
    BY <1>1, <1>3, <2>1 DEF ToSet
<1>7. Cardinality(G) = fetching + k
  <2>1. G = H \cup AtOnce(order) /\ H \cap AtOnce(order) = {}
    BY <1>6
  <2>2. IsFiniteSet(H) /\ Cardinality(H) \in Nat
    BY HoldersFinite
  <2> HIDE DEF G, H
  <2>3. Cardinality(H \cup AtOnce(order)) = Cardinality(H) + Cardinality(AtOnce(order))
                                            - Cardinality(H \cap AtOnce(order))
    BY <1>5, <2>2, FS_Union
  <2>4. Cardinality(H \cap AtOnce(order)) = 0
    BY <2>1, FS_EmptySet
  <2>5. Cardinality(H) = fetching
    BY <1>2 DEF H
  <2>6. k \in Nat
    BY <1>1
  <2> QED
    BY <1>5, <2>1, <2>2, <2>3, <2>4, <2>5, <2>6
<1>8. PICK w : w = queue \o rest
  OBVIOUS
<1>9. /\ w \in Seq(Entries) /\ ToSet(w) = Wait \cup (S \ AtOnce(order))
      /\ w # <<>> => queue # <<>> \/ rest # <<>>
      /\ \A i, j \in DOMAIN w : w[i] = w[j] => i = j
  <2>1. ToSet(queue) \cap ToSet(rest) = {}
    BY <1>2, <1>5
  <2>2. /\ w \in Seq(Entries) /\ ToSet(w) = ToSet(queue) \cup ToSet(rest)
        /\ w # <<>> => queue # <<>> \/ rest # <<>>
        /\ \A i, j \in DOMAIN w : w[i] = w[j] => i = j
    BY <1>2, <1>5, <1>8, <2>1, QueuesJoin
  <2> QED
    BY <1>2, <1>5, <2>2
<1>10. {e \in Entries : es[e].attempt = "waiting"} = Wait \cup (S \ AtOnce(order))
  BY <1>6
<1>11. w # <<>> => fetching + k = Concurrency
  <2>1. CASE queue # <<>>
    <3>1. fetching = Concurrency /\ k = 0
      BY <1>2, <1>3, <2>1
    <3> QED
      BY <3>1, DocumentStoreAssumption
  <2>2. CASE rest # <<>>
    <3>1. Len(rest) # 0 /\ Len(rest) \in Nat
      BY <1>5, <2>2
    <3>2. k < Len(order)
      <4>1. PICK l \in Nat : l = Len(order)
        BY <1>1
      <4>2. PICK d \in Nat : d = Len(rest)
        BY <3>1
      <4>3. k \in 0..l /\ d # 0 /\ d = l - k
        BY <1>5, <3>1, <4>1, <4>2
      <4>4. k < l
        BY <4>1, <4>2, <4>3
      <4> QED
        BY <4>1, <4>4
    <3> QED
      BY <1>3, <3>2
  <2> QED
    BY <1>9, <2>1, <2>2
<1>12. Accounts(es, fetching + k, w)
  BY <1>7, <1>9, <1>10, <1>11 DEF Accounts
<1> QED
  BY <1>3, <1>4, <1>5, <1>6, <1>8, <1>9, <1>12


\* What a fill finds or makes for the anchors it names, before any attempt.
NamedAs(A, n, e) ==
  IF e \in {n[a] : a \in A} /\ object[e] = Unused
  THEN [Unused EXCEPT !.anchor = CHOOSE a \in A : n[a] = e]
  ELSE object[e]

LEMMA NamedIsSound ==
  ASSUME StoreIInv, NEW A \in SUBSET DocAnchors, NEW n \in Naming(A)
  PROVE  /\ n \in [A -> Entries]
         /\ \A e \in Entries :
              LET x == NamedAs(A, n, e)
              IN  /\ x \in Records /\ EntrySound(x)
                  /\ x.attempt = object[e].attempt /\ x.document = object[e].document
                  /\ x.failures = object[e].failures
         /\ \A a \in A : NamedAs(A, n, n[a]).anchor = a
<1>1. /\ n \in [A -> Entries]
      /\ \A a \in A : IF entries[a] # None THEN n[a] = entries[a] ELSE object[n[a]] = Unused
      /\ \A a, b \in A : n[a] = n[b] => a = b
  BY DEF Naming
<1>2. /\ object \in [Entries -> Records] /\ \A e \in Entries : EntrySound(object[e])
      /\ \A a \in DocAnchors : entries[a] # None => object[entries[a]].anchor = a
  BY StoreTypeParts DEF StoreIInv, AskedIsSpent, EntriesNameTheirAnchor
<1>3. ASSUME NEW a \in A
      PROVE  /\ [Unused EXCEPT !.anchor = a] \in Records
             /\ EntrySound([Unused EXCEPT !.anchor = a])
             /\ [Unused EXCEPT !.anchor = a].anchor = a
             /\ [Unused EXCEPT !.anchor = a].attempt = Unused.attempt
             /\ [Unused EXCEPT !.anchor = a].document = Unused.document
             /\ [Unused EXCEPT !.anchor = a].failures = Unused.failures
  <2>1. PICK y : y = [Unused EXCEPT !.anchor = a]
    OBVIOUS
  <2>2. a \in DocAnchors
    OBVIOUS
  <2>3. y \in Records
    BY <2>1, <2>2, UnusedIsSound DEF Records
  <2>4. /\ y.anchor = a /\ y.attempt = Unused.attempt /\ y.document = Unused.document
        /\ y.failures = Unused.failures /\ y.asks = Unused.asks
        /\ y.unanswered = Unused.unanswered
    BY <2>1, UnusedIsSound DEF Records
  <2>5. EntrySound(y)
    BY <2>4, UnusedIsSound DEF EntrySound, Spent
  <2> QED
    BY <2>1, <2>3, <2>4, <2>5
<1>4. ASSUME NEW e \in Entries
      PROVE  LET x == NamedAs(A, n, e)
             IN  /\ x \in Records /\ EntrySound(x)
                 /\ x.attempt = object[e].attempt /\ x.document = object[e].document
                 /\ x.failures = object[e].failures
  <2>1. CASE e \in {n[a] : a \in A} /\ object[e] = Unused
    <3>1. PICK c \in A : NamedAs(A, n, e) = [Unused EXCEPT !.anchor = c]
      BY <2>1 DEF NamedAs
    <3> QED
      BY <1>3, <2>1, <3>1
  <2>2. CASE ~(e \in {n[a] : a \in A} /\ object[e] = Unused)
    BY <1>2, <2>2 DEF NamedAs
  <2> QED
    BY <2>1, <2>2
<1>5. ASSUME NEW a \in A PROVE NamedAs(A, n, n[a]).anchor = a
  <2>1. CASE object[n[a]] = Unused
    <3>1. (CHOOSE b \in A : n[b] = n[a]) = a
      BY <1>1
    <3>2. NamedAs(A, n, n[a]) = [Unused EXCEPT !.anchor = a]
      BY <1>1, <2>1, <3>1 DEF NamedAs
    <3> QED
      BY <1>3, <3>2
  <2>2. CASE object[n[a]] # Unused
    <3>1. entries[a] # None /\ n[a] = entries[a] /\ a \in DocAnchors
      BY <1>1, <2>2
    <3>2. NamedAs(A, n, n[a]) = object[n[a]]
      BY <2>2 DEF NamedAs
    <3> QED
      BY <1>2, <3>1, <3>2
  <2> QED
    BY <2>1, <2>2
<1> QED
  BY <1>1, <1>4, <1>5

LEMMA WaitingIsSound ==
  ASSUME NEW x \in Records, EntrySound(x), x.attempt # "asked",
         ~x.document, x.failures <= DocMaxRetries
  PROVE  LET y == [x EXCEPT !.attempt = "waiting"]
         IN  /\ y \in Records /\ EntrySound(y) /\ y.attempt = "waiting" /\ y.anchor = x.anchor
             /\ y.document = x.document /\ y.failures = x.failures
<1>1. PICK y : y = [x EXCEPT !.attempt = "waiting"]
  OBVIOUS
<1>2. y \in Records
  BY <1>1 DEF Records
<1>3. /\ y.attempt = "waiting" /\ y.anchor = x.anchor /\ y.document = x.document
      /\ y.failures = x.failures /\ y.asks = x.asks /\ y.unanswered = x.unanswered
  BY <1>1 DEF Records
<1>4. EntrySound(y)
  BY <1>3 DEF EntrySound, Spent
<1> QED
  BY <1>1, <1>2, <1>3, <1>4

LEMMA FillKeepsIInv ==
  ASSUME StoreIInv, NEW f \in Fills, NEW A \in SUBSET DocAnchors, Fill(f, A)
  PROVE  /\ StoreIInv' /\ fill[f].at = "idle" /\ fill'[f].at = "settling"
         /\ \A a \in DocAnchors : entries'[a] \in {entries[a], None} \/ entries[a] = None
         /\ KeepsAnswers(entries')
<1>1. PICK n \in Naming(A) :
        \E order \in SetToSeqs({e \in {n[a] : a \in A} : Due(e)}) :
          LET now == AtOnce(order)
              starting == {e \in {n[a] : a \in A} : Due(e)}
              es == [e \in Entries |->
                       CASE e \in now -> AskFor(NamedAs(A, n, e))
                         [] e \in starting \ now -> [NamedAs(A, n, e) EXCEPT !.attempt = "waiting"]
                         [] OTHER -> NamedAs(A, n, e)]
          IN  /\ Keep([a \in DocAnchors |-> IF a \in A THEN n[a] ELSE None], es)
              /\ fetching' = fetching + Cardinality(now)
              /\ queue' = queue \o SubSeq(order, Cardinality(now) + 1, Len(order))
              /\ fill' = [fill EXCEPT ![f] = [at |-> "settling",
                   awaits |-> {e \in {n[a] : a \in A} : es[e].attempt # "none"}]]
  BY DEF Fill, AtOnce, NamedAs
<1> DEFINE named == {n[a] : a \in A}
           S == {e \in named : Due(e)}
<1>2. PICK order \in SetToSeqs(S) :
          LET now == AtOnce(order)
              es == [e \in Entries |->
                       CASE e \in now -> AskFor(NamedAs(A, n, e))
                         [] e \in S \ now -> [NamedAs(A, n, e) EXCEPT !.attempt = "waiting"]
                         [] OTHER -> NamedAs(A, n, e)]
          IN  /\ Keep([a \in DocAnchors |-> IF a \in A THEN n[a] ELSE None], es)
              /\ fetching' = fetching + Cardinality(now)
              /\ queue' = queue \o SubSeq(order, Cardinality(now) + 1, Len(order))
              /\ fill' = [fill EXCEPT ![f] = [at |-> "settling",
                   awaits |-> {e \in named : es[e].attempt # "none"}]]
  BY <1>1
<1>3. PICK es : es = [e \in Entries |->
                       CASE e \in AtOnce(order) -> AskFor(NamedAs(A, n, e))
                         [] e \in S \ AtOnce(order) ->
                              [NamedAs(A, n, e) EXCEPT !.attempt = "waiting"]
                         [] OTHER -> NamedAs(A, n, e)]
  OBVIOUS
<1>4. PICK m : m = [a \in DocAnchors |-> IF a \in A THEN n[a] ELSE None]
  OBVIOUS
<1>5. /\ Keep(m, es)
      /\ fetching' = fetching + Cardinality(AtOnce(order))
      /\ queue' = queue \o SubSeq(order, Cardinality(AtOnce(order)) + 1, Len(order))
      /\ fill' = [fill EXCEPT ![f] = [at |-> "settling",
                    awaits |-> {e \in named : es[e].attempt # "none"}]]
  BY <1>2, <1>3, <1>4
<1>6. /\ StoreTypeOK /\ SlotsAreAccounted /\ n \in [A -> Entries]
      /\ fill \in [Fills -> Fillings] /\ object \in [Entries -> Records]
      /\ \A g \in Fills : \A e \in fill[g].awaits : object[e].attempt # "none"
      /\ answeredAll' \in BOOLEAN
  BY StoreTypeParts, NamedIsSound DEF StoreIInv, AwaitedAttemptsRun, Fill
<1>7. S \in SUBSET Entries /\ named \in SUBSET Entries
  BY <1>6
<1>8. \A e \in S : object[e].attempt = "none" /\ ~object[e].document
                   /\ object[e].failures <= DocMaxRetries
  BY DEF Due
<1>9. AtOnce(order) \subseteq S
  <2>1. DOMAIN order = 1..Len(order) /\ ToSet(order) = S
    BY <1>7, OrderNamesAll
  <2> QED
    BY <2>1 DEF AtOnce, ToSet
<1>10. ASSUME NEW e \in Entries
       PROVE  /\ es[e] \in Records /\ EntrySound(es[e])
              /\ es[e].anchor = NamedAs(A, n, e).anchor
              /\ es[e].document = object[e].document /\ es[e].failures = object[e].failures
              /\ es[e].attempt = IF e \in AtOnce(order) THEN "asked"
                                 ELSE IF e \in S THEN "waiting" ELSE object[e].attempt
  <2>1. PICK x : x = NamedAs(A, n, e)
    OBVIOUS
  <2>2. /\ x \in Records /\ EntrySound(x) /\ x.attempt = object[e].attempt
        /\ x.document = object[e].document /\ x.failures = object[e].failures
    BY <2>1, NamedIsSound
  <2>3. es[e] = CASE e \in AtOnce(order) -> AskFor(x)
                  [] e \in S \ AtOnce(order) -> [x EXCEPT !.attempt = "waiting"]
                  [] OTHER -> x
    BY <1>3, <2>1
  <2>4. CASE e \in AtOnce(order)
    <3>1. es[e] = AskFor(x) /\ e \in S
      BY <1>9, <2>3, <2>4
    <3>2. x.attempt # "asked" /\ ~x.document /\ x.failures <= DocMaxRetries
      BY <1>8, <2>2, <3>1
    <3> QED
      BY <2>1, <2>2, <2>4, <3>1, <3>2, AskIsSound
  <2>5. CASE e \in S \ AtOnce(order)
    <3>1. es[e] = [x EXCEPT !.attempt = "waiting"]
      BY <2>3, <2>5
    <3>2. x.attempt # "asked" /\ ~x.document /\ x.failures <= DocMaxRetries
      BY <1>8, <2>2, <2>5
    <3> QED
      BY <2>1, <2>2, <2>5, <3>1, <3>2, WaitingIsSound
  <2>6. CASE e \notin S
    <3>1. es[e] = x /\ e \notin AtOnce(order)
      BY <1>9, <2>3, <2>6
    <3> QED
      BY <2>1, <2>2, <2>6, <3>1
  <2> QED
    BY <2>4, <2>5, <2>6
<1>11. es \in [Entries -> Records]
  BY <1>3, <1>10
<1>12. m \in Stores /\ \A a \in DocAnchors : m[a] # None => a \in A /\ m[a] = n[a]
  BY <1>4, <1>6 DEF Stores
<1> HIDE DEF S, named
<1>13. /\ Accounts(es, fetching', queue') /\ fetching' \in 0..Concurrency
       /\ queue' \in Seq(Entries)
  <2>1. PICK k : k = Cardinality(AtOnce(order))
    OBVIOUS
  <2>2. PICK w : w = queue \o SubSeq(order, k + 1, Len(order))
    OBVIOUS
  <2>3. \A e \in Entries : es[e].attempt = IF e \in AtOnce(order) THEN "asked"
                                          ELSE IF e \in S THEN "waiting"
                                          ELSE object[e].attempt
    BY <1>10
  <2>4. Accounts(es, fetching + k, w) /\ fetching + k \in 0..Concurrency /\ w \in Seq(Entries)
    <3>1. /\ StoreTypeOK /\ SlotsAreAccounted /\ S \in SUBSET Entries /\ es \in [Entries -> Records]
          /\ order \in SetToSeqs(S) /\ \A e \in S : object[e].attempt = "none"
      BY <1>6, <1>7, <1>8, <1>11
    <3>2. LET c == Cardinality(AtOnce(order))
              v == queue \o SubSeq(order, c + 1, Len(order))
          IN  /\ Accounts(es, fetching + c, v) /\ fetching + c \in 0..Concurrency
              /\ v \in Seq(Entries) /\ AtOnce(order) \subseteq S
      BY <2>3, <3>1, FillAccounts
    <3> QED
      BY <2>1, <2>2, <3>2
  <2>5. fetching' = fetching + k /\ queue' = w
    BY <1>5, <2>1, <2>2
  <2> QED
    BY <2>4, <2>5
<1>14. \A a \in DocAnchors : m[a] # None => es[m[a]].anchor = a
  <2> SUFFICES ASSUME NEW a \in DocAnchors, m[a] # None PROVE es[m[a]].anchor = a
    OBVIOUS
  <2>1. a \in A /\ m[a] = n[a] /\ n[a] \in Entries
    BY <1>6, <1>12
  <2>2. NamedAs(A, n, n[a]).anchor = a
    BY <2>1, NamedIsSound
  <2> QED
    BY <1>10, <2>1, <2>2
<1>15. fill' \in [Fills -> Fillings]
  BY <1>5, <1>6, <1>7 DEF Fillings
<1>16. \A g \in Fills : \A e \in fill'[g].awaits : es[e].attempt # "none"
  <2> SUFFICES ASSUME NEW g \in Fills, NEW e \in fill'[g].awaits
               PROVE  es[e].attempt # "none"
    OBVIOUS
  <2>1. CASE g = f
    BY <1>5, <1>6, <2>1
  <2>2. CASE g # f
    <3>1. e \in fill[g].awaits /\ e \in Entries
      BY <1>5, <1>6, <2>2 DEF Fillings
    <3>2. object[e].attempt # "none"
      BY <1>6, <3>1
    <3> QED
      BY <1>10, <3>1, <3>2
  <2> QED
    BY <2>1, <2>2
<1>17. \A e \in Entries : EntrySound(es[e])
  BY <1>10
<1>18. \A a \in DocAnchors : entries'[a] \in {entries[a], None} \/ entries[a] = None
  <2>1. entries' = m /\ \A a \in A : entries[a] # None => n[a] = entries[a]
    BY <1>5 DEF Keep, Naming
  <2> QED
    BY <1>12, <2>1
<1>19. KeepsAnswers(entries')
  <2>1. entries' = m /\ \A a \in DocAnchors : m[a] # None => object'[m[a]] = es[m[a]]
    BY <1>5, <1>11, <1>12, KeptObjects
  <2>2. \A a \in DocAnchors : m[a] # None => m[a] \in Entries
    BY <1>12 DEF Stores
  <2> QED
    BY <1>10, <2>1, <2>2 DEF KeepsAnswers
<1>20. fill[f].at = "idle" /\ fill'[f].at = "settling"
  BY <1>5, <1>6 DEF Fill
<1> QED
  BY <1>5, <1>6, <1>11, <1>12, <1>13, <1>14, <1>15, <1>16, <1>17, <1>18, <1>19, <1>20,
     KeepIInv

(***************************************************************************)
(* The steps of an attempt, and the others.                                *)
(***************************************************************************)
LEMMA InitStore == StoreInit => StoreIInv
<1> SUFFICES ASSUME StoreInit PROVE StoreIInv
  OBVIOUS
<1>1. /\ entries = [a \in DocAnchors |-> None] /\ object = [e \in Entries |-> Unused]
      /\ fetching = 0 /\ queue = <<>> /\ answeredAll = FALSE
      /\ fill = [f \in Fills |-> [at |-> "idle", awaits |-> {}]]
  BY DEF StoreInit
<1>2. StoreTypeOK
  <2>1. entries \in Stores /\ object \in [Entries -> Records]
    BY <1>1, UnusedIsSound DEF Stores
  <2>2. fetching \in 0..Concurrency /\ queue \in Seq(Entries) /\ answeredAll \in BOOLEAN
    <3>1. <<>> \in Seq(Entries)
      OBVIOUS
    <3>2. 0 \in 0..Concurrency
      BY DocumentStoreAssumption
    <3> QED
      BY <1>1, <3>1, <3>2
  <2>3. fill \in [Fills -> Fillings]
    BY <1>1 DEF Fillings
  <2> QED
    BY <2>1, <2>2, <2>3, StoreTypeParts
<1>3. SlotsAreAccounted
  <2>1. Holders = {} /\ {e \in Entries : object[e].attempt = "waiting"} = {}
    BY <1>1, UnusedIsSound DEF Holders
  <2>2. Cardinality(Holders) = 0
    BY <2>1, FS_EmptySet
  <2>3. ToSet(queue) = {} /\ DOMAIN queue = {}
    BY <1>1 DEF ToSet
  <2> QED
    BY <1>1, <2>1, <2>2, <2>3 DEF SlotsAreAccounted
<1>4. AwaitedAttemptsRun
  BY <1>1 DEF AwaitedAttemptsRun
<1>5. EntriesNameTheirAnchor
  BY <1>1 DEF EntriesNameTheirAnchor
<1>6. AskedIsSpent /\ AskedWithinBudget
  BY <1>1, UnusedIsSound DEF AskedIsSpent, AskedWithinBudget, EntrySound
<1> QED
  BY <1>2, <1>3, <1>4, <1>5, <1>6 DEF StoreIInv

\* A step that changes one object only, neither its attempt's slot nor its anchor.
LEMMA OneEntry ==
  ASSUME StoreIInv, NEW e \in Entries, NEW x \in Records, EntrySound(x),
         object' = [object EXCEPT ![e] = x],
         x.anchor = object[e].anchor, x.attempt = "none" <=> object[e].attempt = "none",
         x.attempt = "waiting" <=> object[e].attempt = "waiting",
         x.document = object[e].document, x.failures = object[e].failures,
         UNCHANGED <<entries, fetching, queue, answeredAll, fill>>
  PROVE  StoreIInv' /\ KeepsAnswers(entries)
<1>1. /\ StoreTypeOK /\ SlotsAreAccounted /\ \A g \in Entries : EntrySound(object[g])
      /\ entries \in Stores /\ object \in [Entries -> Records]
      /\ \A a \in DocAnchors : entries[a] # None => object[entries[a]].anchor = a
      /\ fill \in [Fills -> Fillings]
      /\ \A f \in Fills : \A g \in fill[f].awaits : object[g].attempt # "none"
      /\ fetching \in 0..Concurrency /\ queue \in Seq(Entries) /\ answeredAll \in BOOLEAN
  BY StoreTypeParts DEF StoreIInv, AskedIsSpent, EntriesNameTheirAnchor, AwaitedAttemptsRun
<1>2. \A g \in Entries : object'[g] = IF g = e THEN x ELSE object[g]
  BY <1>1
<1>3. object' \in [Entries -> Records]
  BY <1>1
<1>4. \A g \in Entries : object'[g].attempt \in {"granted", "asked"}
                           <=> object[g].attempt \in {"granted", "asked"}
  BY <1>1, <1>2, RecordTypes
<1>5. StoreTypeOK'
  BY <1>1, <1>3
     DEF StoreTypeOK, Stores, Records, Fillings, FailureCounts, UnansweredCounts, AskCounts
<1>6. SlotsAreAccounted'
  <2>1. /\ Holders' = Holders
        /\ {g \in Entries : object'[g].attempt = "waiting"}
             = {g \in Entries : object[g].attempt = "waiting"}
    BY <1>2, <1>4 DEF Holders
  <2> QED
    BY <1>1, <2>1 DEF SlotsAreAccounted
<1>7. AwaitedAttemptsRun'
  BY <1>1, <1>2 DEF AwaitedAttemptsRun, Fillings
<1>8. EntriesNameTheirAnchor'
  BY <1>1, <1>2 DEF EntriesNameTheirAnchor, Stores
<1>9. AskedIsSpent' /\ AskedWithinBudget'
  <2>1. \A g \in Entries : EntrySound(object'[g])
    BY <1>1, <1>2
  <2> QED
    BY <2>1 DEF AskedIsSpent, AskedWithinBudget, EntrySound
<1>10. KeepsAnswers(entries)
  BY <1>1, <1>2 DEF KeepsAnswers, Stores
<1> QED
  BY <1>5, <1>6, <1>7, <1>8, <1>9, <1>10 DEF StoreIInv

\* Begin, and the three ways an attempt ends.
LEMMA SettlesKeepsIInv ==
  ASSUME StoreIInv, NEW e \in Entries, Settles(e)
  PROVE  StoreIInv' /\ KeepsAnswers(entries)
<1>1. object[e] \in Records /\ EntrySound(object[e]) /\ object \in [Entries -> Records]
  BY StoreTypeParts DEF StoreIInv, AskedIsSpent
<1>2. PICK x \in Records : x = object[e] /\ EntrySound(x)
  BY <1>1
<1>3. ASSUME Begin(e) PROVE StoreIInv' /\ KeepsAnswers(entries)
  <2>1. x.attempt = "granted" /\ ~x.document /\ x.failures <= DocMaxRetries
    BY <1>2, <1>3 DEF Begin, EntrySound
  <2>2. CASE Settled(e, object[e])
    <3>1. PICK y : y = [x EXCEPT !.attempt = "none"]
      OBVIOUS
    <3>2. /\ y.attempt = "none" /\ y.document = x.document /\ y.asks = x.asks
          /\ y.failures = x.failures /\ y.unanswered = x.unanswered
      BY <3>1 DEF Records
    <3>3. EntrySound(y)
      BY <1>2, <2>1, <3>2 DEF EntrySound, Spent
    <3> QED
      BY <1>2, <2>1, <2>2, <3>1, <3>3, SettledKeepsIInv
  <2>3. CASE /\ object' = [object EXCEPT ![e] = AskFor(@)]
             /\ UNCHANGED <<entries, fetching, queue, answeredAll, fill>>
    <3>1. object' = [object EXCEPT ![e] = AskFor(x)]
      BY <1>2, <2>3
    <3>2. /\ AskFor(x) \in Records /\ EntrySound(AskFor(x)) /\ AskFor(x).attempt = "asked"
          /\ AskFor(x).anchor = x.anchor
          /\ AskFor(x).document = x.document /\ AskFor(x).failures = x.failures
      BY <1>2, <2>1, AskIsSound
    <3> QED
      BY <1>2, <2>1, <2>3, <3>1, <3>2, OneEntry
  <2> QED
    BY <1>3, <2>2, <2>3 DEF Begin
<1>4. ASSUME object[e].attempt = "asked", NEW y, Settled(e, y),
             \/ y = [x EXCEPT !.document = TRUE, !.failed = FALSE,
                              !.failures = 0, !.unanswered = 0]
             \/ y = CountFailure(x)
             \/ x.unanswered + 1 < MaxUnanswered /\ y = [x EXCEPT !.unanswered = @ + 1]
      PROVE  StoreIInv' /\ KeepsAnswers(entries)
  <2>1. y \in Records /\ EntrySound([y EXCEPT !.attempt = "none"]) /\ y.anchor = x.anchor
    BY <1>2, <1>4, EndsAreSound
  <2> QED
    BY <1>2, <1>4, <2>1, SettledKeepsIInv
<1>5. CASE Resolves(e)
  BY <1>2, <1>4, <1>5 DEF Resolves
<1>6. CASE ReportsFailure(e)
  BY <1>2, <1>4, <1>6 DEF ReportsFailure
<1>7. CASE NoAnswer(e)
  BY <1>2, <1>4, <1>7 DEF NoAnswer
<1> QED
  BY <1>3, <1>5, <1>6, <1>7 DEF Settles

LEMMA RetryDueKeepsIInv ==
  ASSUME StoreIInv, NEW e \in Entries, RetryDue(e)
  PROVE  StoreIInv' /\ KeepsAnswers(entries)
<1>1. object[e] \in Records /\ EntrySound(object[e])
  BY StoreTypeParts DEF StoreIInv, AskedIsSpent
<1>2. PICK x : x = [object[e] EXCEPT !.due = TRUE]
  OBVIOUS
<1>3. x \in Records
  BY <1>1, <1>2 DEF Records
<1>4. /\ x.anchor = object[e].anchor /\ x.attempt = object[e].attempt
      /\ x.document = object[e].document /\ x.failures = object[e].failures
      /\ x.asks = object[e].asks /\ x.unanswered = object[e].unanswered
  BY <1>1, <1>2 DEF Records
<1>5. EntrySound(x)
  BY <1>1, <1>4 DEF EntrySound, Spent
<1>6. /\ object' = [object EXCEPT ![e] = x]
      /\ UNCHANGED <<entries, fetching, queue, answeredAll, fill>>
  BY <1>2 DEF RetryDue
<1> QED
  BY <1>3, <1>4, <1>5, <1>6, OneEntry

LEMMA ForgetKeepsIInv ==
  ASSUME StoreIInv, NEW a \in DocAnchors, Forget(a)
  PROVE  /\ StoreIInv' /\ KeepsAnswers([entries EXCEPT ![a] = None])
         /\ ~object[entries[a]].document
<1>1. PICK m : m = [entries EXCEPT ![a] = None]
  OBVIOUS
<1>2. /\ StoreTypeOK /\ SlotsAreAccounted /\ \A g \in Entries : EntrySound(object[g])
      /\ entries \in Stores /\ object \in [Entries -> Records]
      /\ \A b \in DocAnchors : entries[b] # None => object[entries[b]].anchor = b
      /\ fill \in [Fills -> Fillings]
      /\ \A f \in Fills : \A g \in fill[f].awaits : object[g].attempt # "none"
      /\ fetching \in 0..Concurrency /\ queue \in Seq(Entries) /\ answeredAll \in BOOLEAN
  BY StoreTypeParts DEF StoreIInv, AskedIsSpent, EntriesNameTheirAnchor, AwaitedAttemptsRun
<1>3. Keep(m, object) /\ UNCHANGED <<fetching, queue, answeredAll, fill>>
  BY <1>1 DEF Forget
<1>4. m \in Stores /\ \A b \in DocAnchors : m[b] # None => m[b] = entries[b]
  BY <1>1, <1>2 DEF Stores
<1>5. Accounts(object, fetching', queue')
  BY <1>2, <1>3, AccountsNow
<1>6. StoreIInv'
  BY <1>2, <1>3, <1>4, <1>5, KeepIInv
<1>7. KeepsAnswers(m)
  BY <1>2, <1>3, <1>4, KeptAnswers
<1> QED
  BY <1>1, <1>6, <1>7 DEF Forget

LEMMA FillDoneKeepsIInv ==
  ASSUME StoreIInv, NEW f \in Fills, FillDone(f)
  PROVE  StoreIInv' /\ KeepsAnswers(entries)
<1>1. /\ fill \in [Fills -> Fillings]
      /\ \A g \in Fills : \A e \in fill[g].awaits : object[e].attempt # "none"
      /\ answeredAll \in BOOLEAN /\ StoreTypeOK /\ entries \in Stores
  BY StoreTypeParts DEF StoreIInv, AwaitedAttemptsRun
<1>2. UNCHANGED <<entries, object, fetching, queue>>
  BY DEF FillDone
<1>3. /\ fill' \in [Fills -> Fillings] /\ answeredAll' \in BOOLEAN
      /\ \A g \in Fills : fill'[g].awaits = fill[g].awaits
  BY <1>1 DEF FillDone, Fillings
<1>4. StoreTypeOK'
  BY <1>1, <1>2, <1>3 DEF StoreTypeOK, Fillings
<1>5. AwaitedAttemptsRun'
  BY <1>1, <1>2, <1>3 DEF AwaitedAttemptsRun
<1>6. /\ SlotsAreAccounted' /\ EntriesNameTheirAnchor' /\ AskedIsSpent' /\ AskedWithinBudget'
  BY <1>2
     DEF StoreIInv, SlotsAreAccounted, Holders, EntriesNameTheirAnchor, AskedIsSpent,
         AskedWithinBudget
<1>7. KeepsAnswers(entries)
  BY <1>1, <1>2 DEF KeepsAnswers
<1> QED
  BY <1>4, <1>5, <1>6, <1>7 DEF StoreIInv

LEMMA NextStore ==
  ASSUME StoreIInv, [StoreNext]_storeVars
  PROVE  StoreIInv' /\ [AnswersKept]_storeVars
<1>1. /\ entries \in Stores
      /\ \A e \in Entries : object[e].document \in BOOLEAN
  BY StoreTypeParts, RecordTypes DEF StoreIInv
<1>2. ASSUME KeepsAnswers(entries) PROVE AnswersKept
  BY <1>2 DEF KeepsAnswers, AnswersKept
<1>3. ASSUME NEW f \in Fills, NEW A \in SUBSET DocAnchors, Fill(f, A)
      PROVE  StoreIInv' /\ AnswersKept
  <2>1. /\ StoreIInv' /\ fill[f].at = "idle" /\ fill'[f].at = "settling"
        /\ \A a \in DocAnchors : entries'[a] \in {entries[a], None} \/ entries[a] = None
        /\ KeepsAnswers(entries')
    BY <1>3, FillKeepsIInv
  <2> QED
    BY <2>1 DEF KeepsAnswers, AnswersKept
<1>4. ASSUME NEW a \in DocAnchors, Forget(a) PROVE StoreIInv' /\ AnswersKept
  <2>1. PICK m : m = [entries EXCEPT ![a] = None]
    OBVIOUS
  <2>2. /\ StoreIInv' /\ KeepsAnswers(m) /\ ~object[entries[a]].document
    BY <1>4, <2>1, ForgetKeepsIInv
  <2>3. \A b \in DocAnchors : m[b] = IF b = a THEN None ELSE entries[b]
    BY <1>1, <2>1 DEF Stores
  <2>4. AnswersKept
    BY <2>2, <2>3 DEF KeepsAnswers, AnswersKept
  <2> QED
    BY <2>2, <2>4
<1>5. ASSUME NEW f \in Fills, FillDone(f) PROVE StoreIInv' /\ AnswersKept
  BY <1>2, <1>5, FillDoneKeepsIInv
<1>6. ASSUME NEW e \in Entries, Settles(e) \/ RetryDue(e) PROVE StoreIInv' /\ AnswersKept
  BY <1>2, <1>6, SettlesKeepsIInv, RetryDueKeepsIInv
<1>7. ASSUME UNCHANGED storeVars PROVE StoreIInv'
  BY <1>7
     DEF storeVars, StoreIInv, StoreTypeOK, SlotsAreAccounted, Holders, AwaitedAttemptsRun,
         EntriesNameTheirAnchor, AskedIsSpent, AskedWithinBudget
<1> QED
  BY <1>3, <1>4, <1>5, <1>6, <1>7 DEF StoreNext

\* DocumentStore.fill, limited, attempt: however fills overlap and anchors come
\* and go, no slot is lost or given twice, a fill awaits only what runs, and no
\* entry is asked for more often than its failures and silences account for.
THEOREM StoreInductive == StoreSpec => []StoreIInv
<1>1. StoreInit => StoreIInv
  BY InitStore
<1>2. StoreIInv /\ [StoreNext]_storeVars => StoreIInv'
  BY NextStore
<1> QED
  BY <1>1, <1>2, PTL DEF StoreSpec

\* DocumentStore.attempt, forget: what the store answers is not undone by a late
\* fetch, by a fill that overlaps or by a retry through the metadata routes.
THEOREM AnswersStayHolds == StoreSpec => AnswersStay
<1>1. StoreIInv /\ [StoreNext]_storeVars => [AnswersKept]_storeVars
  BY NextStore
<1> QED
  BY <1>1, StoreInductive, PTL DEF StoreSpec, AnswersStay

(***************************************************************************)
(* Why fills end: somebody always holds a slot, and what a fill waits for  *)
(* only moves forward, in a queue that nobody jumps.                       *)
(***************************************************************************)
\* fill() awaiting: were every slot lost, its Promise.all would stay open.
NoFillIsStuck == \A f \in Fills : fill[f].awaits # {} => Holders # {}

LEMMA SomebodyHoldsASlot == StoreIInv => NoFillIsStuck
<1> SUFFICES ASSUME StoreIInv, NEW f \in Fills, NEW e \in fill[f].awaits
             PROVE  Holders # {}
  BY DEF NoFillIsStuck
<1>1. /\ e \in Entries /\ object[e].attempt \in {"waiting", "granted", "asked"}
      /\ SlotsAreAccounted
  BY StoreTypeParts, RecordTypes DEF StoreIInv, AwaitedAttemptsRun, Fillings
<1>2. CASE object[e].attempt \in {"granted", "asked"}
  BY <1>1, <1>2 DEF Holders
<1>3. CASE object[e].attempt = "waiting"
  <2>1. e \in ToSet(queue)
    BY <1>1, <1>3 DEF SlotsAreAccounted
  <2>2. queue # <<>>
    BY <2>1 DEF ToSet
  <2>3. Cardinality(Holders) = Concurrency /\ Concurrency # 0
    BY <1>1, <2>2, DocumentStoreAssumption DEF SlotsAreAccounted
  <2> QED
    BY <2>3, FS_EmptySet
<1> QED
  BY <1>1, <1>2, <1>3

\* limited() of a step: the queue loses its head or grows at its end, and the
\* attempts a fill waits for are handed a slot, then asked, never put back.
AttemptsAdvance ==
  /\ IsPrefix(queue, queue') \/ (queue # <<>> /\ queue' = Tail(queue))
  /\ \A f \in Fills : fill[f].at = "settling" =>
       /\ fill'[f].awaits \subseteq fill[f].awaits
       /\ \A e \in fill'[f].awaits :
            \/ object'[e].attempt = object[e].attempt
            \/ object[e].attempt = "waiting" /\ object'[e].attempt = "granted"
            \/ object[e].attempt = "granted" /\ object'[e].attempt = "asked"

LEMMA PrefixOf ==
  ASSUME NEW s \in Seq(Entries), NEW t \in Seq(Entries)
  PROVE  IsPrefix(s, s) /\ IsPrefix(s, s \o t)
<1>1. /\ Len(s) \in Nat /\ Len(t) \in Nat /\ Len(s \o t) = Len(s) + Len(t)
      /\ \A i \in 1..Len(s) : (s \o t)[i] = s[i]
  OBVIOUS
<1>2. SubSeq(s, 1, Len(s)) = SubSeq(s \o t, 1, Len(s))
  BY <1>1
<1> QED
  BY <1>1, <1>2 DEF IsPrefix

\* Keep loses no attempt under way.
LEMMA KeptAttempts ==
  ASSUME NEW m, NEW es, Keep(m, es), NEW e \in Entries, es[e].attempt # "none"
  PROVE  object'[e] = es[e]
BY DEF Keep

LEMMA SettledAdvances ==
  ASSUME StoreIInv, NEW e \in Entries, NEW x, Settled(e, x)
  PROVE  AttemptsAdvance
<1>1. /\ queue \in Seq(Entries) /\ object \in [Entries -> Records]
      /\ fill \in [Fills -> Fillings] /\ SlotsAreAccounted
      /\ \A f \in Fills : \A g \in fill[f].awaits : object[g].attempt # "none"
  BY StoreTypeParts DEF StoreIInv, AwaitedAttemptsRun
<1>2. \A f \in Fills : fill'[f].awaits = fill[f].awaits \ {e}
  BY <1>1 DEF Settled, Fillings
<1>3. IsPrefix(queue, queue') \/ (queue # <<>> /\ queue' = Tail(queue))
  BY <1>1, PrefixOf DEF Settled
<1>4. ASSUME NEW f \in Fills, NEW g \in fill'[f].awaits
      PROVE  \/ object'[g].attempt = object[g].attempt
             \/ object[g].attempt = "waiting" /\ object'[g].attempt = "granted"
  <2>1. g \in Entries /\ g # e /\ object[g].attempt # "none"
    BY <1>1, <1>2 DEF Fillings
  <2>2. CASE queue = <<>>
    <3>1. PICK es : es = [object EXCEPT ![e] = [x EXCEPT !.attempt = "none"]]
      OBVIOUS
    <3>2. Keep(entries, es) /\ es[g] = object[g]
      BY <1>1, <2>1, <2>2, <3>1 DEF Settled
    <3> QED
      BY <2>1, <3>2, KeptAttempts
  <2>3. CASE queue # <<>>
    <3>1. PICK es : es = [object EXCEPT ![e] = [x EXCEPT !.attempt = "none"],
                                        ![Head(queue)].attempt = "granted"]
      OBVIOUS
    <3>2. Keep(entries, es)
      BY <2>3, <3>1 DEF Settled
    <3>3. CASE g # Head(queue)
      <4>1. es[g] = object[g]
        BY <1>1, <2>1, <3>1, <3>3
      <4> QED
        BY <2>1, <3>2, <4>1, KeptAttempts
    <3>4. CASE g = Head(queue)
      <4>1. object[g].attempt = "waiting"
        BY <1>1, <2>3, <3>4, QueueShifts DEF SlotsAreAccounted
      <4>2. es[g] = [object[g] EXCEPT !.attempt = "granted"]
        BY <1>1, <2>1, <3>1, <3>4
      <4>3. es[g].attempt = "granted"
        BY <1>1, <2>1, <4>2 DEF Records
      <4> QED
        BY <2>1, <3>2, <4>1, <4>3, KeptAttempts
    <3> QED
      BY <3>3, <3>4
  <2> QED
    BY <2>2, <2>3
<1> QED
  BY <1>2, <1>3, <1>4 DEF AttemptsAdvance

LEMMA FillAdvances ==
  ASSUME StoreIInv, NEW f \in Fills, NEW A \in SUBSET DocAnchors, Fill(f, A)
  PROVE  AttemptsAdvance
<1>1. /\ queue \in Seq(Entries) /\ object \in [Entries -> Records]
      /\ fill \in [Fills -> Fillings]
      /\ \A g \in Fills : \A e \in fill[g].awaits : object[e].attempt # "none"
      /\ Unused.attempt = "none"
  BY StoreTypeParts, UnusedIsSound DEF StoreIInv, AwaitedAttemptsRun
<1>2. PICK n \in Naming(A) :
        \E order \in SetToSeqs({e \in {n[a] : a \in A} : Due(e)}) :
          LET now == AtOnce(order)
              starting == {e \in {n[a] : a \in A} : Due(e)}
              es == [e \in Entries |->
                       CASE e \in now -> AskFor(NamedAs(A, n, e))
                         [] e \in starting \ now -> [NamedAs(A, n, e) EXCEPT !.attempt = "waiting"]
                         [] OTHER -> NamedAs(A, n, e)]
          IN  /\ Keep([a \in DocAnchors |-> IF a \in A THEN n[a] ELSE None], es)
              /\ queue' = queue \o SubSeq(order, Cardinality(now) + 1, Len(order))
              /\ fill' = [fill EXCEPT ![f] = [at |-> "settling",
                   awaits |-> {e \in {n[a] : a \in A} : es[e].attempt # "none"}]]
  BY DEF Fill, AtOnce, NamedAs
<1> DEFINE S == {e \in {n[a] : a \in A} : Due(e)}
<1>3a. PICK order \in SetToSeqs(S) : \E m, es, awaited :
        /\ es = [e \in Entries |->
                   CASE e \in AtOnce(order) -> AskFor(NamedAs(A, n, e))
                     [] e \in S \ AtOnce(order) -> [NamedAs(A, n, e) EXCEPT !.attempt = "waiting"]
                     [] OTHER -> NamedAs(A, n, e)]
        /\ Keep(m, es)
        /\ queue' = queue \o SubSeq(order, Cardinality(AtOnce(order)) + 1, Len(order))
        /\ fill' = [fill EXCEPT ![f] = [at |-> "settling", awaits |-> awaited]]
  BY <1>2
<1>3. PICK m, es, awaited :
        /\ es = [e \in Entries |->
                   CASE e \in AtOnce(order) -> AskFor(NamedAs(A, n, e))
                     [] e \in S \ AtOnce(order) -> [NamedAs(A, n, e) EXCEPT !.attempt = "waiting"]
                     [] OTHER -> NamedAs(A, n, e)]
        /\ Keep(m, es)
        /\ queue' = queue \o SubSeq(order, Cardinality(AtOnce(order)) + 1, Len(order))
        /\ fill' = [fill EXCEPT ![f] = [at |-> "settling", awaits |-> awaited]]
  BY <1>3a
<1>4. S \in SUBSET Entries
  BY DEF Naming
<1>5. AtOnce(order) \subseteq S /\ order \in Seq(Entries)
  <2>1. DOMAIN order = 1..Len(order) /\ ToSet(order) = S /\ order \in Seq(Entries)
    BY <1>4, OrderNamesAll
  <2> QED
    BY <2>1 DEF AtOnce, ToSet
<1>6. IsPrefix(queue, queue')
  <2>1. PICK k : k = Cardinality(AtOnce(order))
    OBVIOUS
  <2>2. SubSeq(order, k + 1, Len(order)) \in Seq(Entries)
    <3>1. IsFiniteSet(AtOnce(order)) /\ k \in Nat
      BY <1>4, <1>5, <2>1, DocumentStoreAssumption, FS_Subset, FS_CardinalityType
    <3> QED
      BY <1>5, <3>1
  <2> QED
    BY <1>1, <1>3, <2>1, <2>2, PrefixOf
<1>7. ASSUME NEW g \in Fills, fill[g].at = "settling"
      PROVE  fill'[g].awaits = fill[g].awaits
  <2>1. g # f
    BY <1>7 DEF Fill
  <2> QED
    BY <1>1, <1>3, <2>1
<1>8. ASSUME NEW g \in Fills, NEW e \in fill[g].awaits
      PROVE  object'[e] = object[e]
  <2>1. e \in Entries /\ object[e].attempt # "none"
    BY <1>1 DEF Fillings
  <2>2. e \notin S /\ NamedAs(A, n, e) = object[e]
    BY <1>1, <2>1 DEF Due, NamedAs
  <2>3. es[e] = object[e]
    BY <1>3, <1>5, <2>1, <2>2
  <2> QED
    BY <1>3, <2>1, <2>3, KeptAttempts
<1> QED
  BY <1>6, <1>7, <1>8 DEF AttemptsAdvance

\* limited(), in [..]_storeVars: what an attempt has got it keeps until it ends.
LEMMA AllAdvance ==
  ASSUME StoreIInv, [StoreNext]_storeVars
  PROVE  [AttemptsAdvance]_storeVars
<1>1. /\ queue \in Seq(Entries) /\ object \in [Entries -> Records]
      /\ fill \in [Fills -> Fillings]
      /\ \A f \in Fills : \A e \in fill[f].awaits : e \in Entries /\ object[e].attempt # "none"
  BY StoreTypeParts DEF StoreIInv, AwaitedAttemptsRun, Fillings
<1>2. ASSUME NEW e \in Entries, Begin(e) PROVE AttemptsAdvance
  <2>1. CASE Settled(e, object[e])
    BY <2>1, SettledAdvances
  <2>2. CASE /\ object' = [object EXCEPT ![e] = AskFor(@)]
             /\ UNCHANGED <<entries, fetching, queue, answeredAll, fill>>
    <3>1. object[e].attempt = "granted" /\ AskFor(object[e]).attempt = "asked"
      BY <1>1, <1>2 DEF Begin, AskFor, Records
    <3>2. \A g \in Entries : object'[g] = IF g = e THEN AskFor(object[e]) ELSE object[g]
      BY <1>1, <2>2
    <3>3. IsPrefix(queue, queue')
      BY <1>1, <2>2, PrefixOf
    <3> QED
      BY <1>1, <2>2, <3>1, <3>2, <3>3 DEF AttemptsAdvance
  <2> QED
    BY <1>2, <2>1, <2>2 DEF Begin
<1>3. ASSUME NEW e \in Entries, Settles(e) PROVE AttemptsAdvance
  BY <1>2, <1>3, SettledAdvances DEF Settles, Resolves, ReportsFailure, NoAnswer
<1>4. ASSUME NEW e \in Entries, RetryDue(e) PROVE AttemptsAdvance
  <2>1. \A g \in Entries : object'[g].attempt = object[g].attempt
    BY <1>1, <1>4 DEF RetryDue, Records
  <2>2. IsPrefix(queue, queue') /\ fill' = fill
    BY <1>1, <1>4, PrefixOf DEF RetryDue
  <2> QED
    BY <1>1, <2>1, <2>2 DEF AttemptsAdvance
<1>5. ASSUME NEW a \in DocAnchors, Forget(a) PROVE AttemptsAdvance
  <2>1. IsPrefix(queue, queue') /\ fill' = fill
    BY <1>1, <1>5, PrefixOf DEF Forget
  <2>2. \A f \in Fills : \A e \in fill[f].awaits : object'[e] = object[e]
    BY <1>1, <1>5, KeptAttempts DEF Forget
  <2> QED
    BY <2>1, <2>2 DEF AttemptsAdvance
<1>6. ASSUME NEW f \in Fills, FillDone(f) PROVE AttemptsAdvance
  <2>1. /\ IsPrefix(queue, queue') /\ object' = object
        /\ \A g \in Fills : fill'[g].awaits = fill[g].awaits
    BY <1>1, <1>6, PrefixOf DEF FillDone, Fillings
  <2> QED
    BY <2>1 DEF AttemptsAdvance
<1> QED
  BY <1>3, <1>4, <1>5, <1>6, FillAdvances DEF StoreNext

\* DocumentStore.limited, while a fill waits: an attempt holds a slot, so that its
\* end brings the queue forward, though entries be dropped before they are asked for.
THEOREM NoFillIsStuckHolds == StoreSpec => []NoFillIsStuck
BY SomebodyHoldsASlot, StoreInductive, PTL

\* DocumentStore.limited, attempt: first come, first served; and no later fill,
\* no dropped entry and no forget adds to what a fill waits for or sets it back.
THEOREM AttemptsAdvanceHolds == StoreSpec => [][AttemptsAdvance]_storeVars
BY AllAdvance, StoreInductive, PTL DEF StoreSpec
=============================================================================
