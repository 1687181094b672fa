-------------------------- MODULE WalletCacheProofs --------------------------
(***************************************************************************)
(* The safety of WalletCache for every set of requests, wallets and        *)
(* fetches, every chain of tips and every limit on the entries.            *)
(***************************************************************************)
EXTENDS WalletCache, SequenceTheorems, TLAPS

-----------------------------------------------------------------------------
\* The Map of a namespace.

NoDup(s) == \A i, j \in DOMAIN s : s[i] = s[j] => i = j

LEMMA DeleteProperties ==
  ASSUME NEW S, NEW map \in Seq(S), NEW gone, NoDup(map),
         \A i, j \in DOMAIN map : map[i] \in gone /\ map[j] \in gone => i = j
  PROVE  /\ Delete(map, gone) \in Seq(S)
         /\ Len(Delete(map, gone)) =
              IF ToSet(map) \cap gone = {} THEN Len(map) ELSE Len(map) - 1
         /\ NoDup(Delete(map, gone))
         /\ ToSet(Delete(map, gone)) = ToSet(map) \ gone
<1> DEFINE found == {i \in DOMAIN map : map[i] \in gone}
           p == CHOOSE i \in found : TRUE
<1>1. CASE found = {}
  <2>1. Delete(map, gone) = map
    BY <1>1 DEF Delete
  <2> QED
    BY <1>1, <2>1 DEF ToSet
<1>2. CASE found # {}
  <2>1. p \in found /\ p \in 1..Len(map) /\ map[p] \in gone
    BY <1>2
  <2>2. Delete(map, gone) = SubSeq(map, 1, p - 1) \o SubSeq(map, p + 1, Len(map))
    BY <1>2 DEF Delete, RemoveAt
  <2> HIDE DEF p
  <2> DEFINE s == Delete(map, gone)
  <2> DEFINE left == SubSeq(map, 1, p - 1)
             right == SubSeq(map, p + 1, Len(map))
  <2>3. /\ left \in Seq(S) /\ Len(left) = p - 1
        /\ \A i \in 1..p - 1 : left[i] = map[i]
    BY <2>1, SubSeqProperties
  <2>4. /\ right \in Seq(S) /\ Len(right) = Len(map) - p
        /\ \A i \in 1..Len(map) - p : right[i] = map[p + i]
    <3>1. \A i \in p + 1..Len(map) : map[i] \in S
      BY <2>1
    <3>2. /\ right \in Seq(S)
          /\ Len(right) = IF p + 1 <= Len(map) THEN Len(map) - (p + 1) + 1 ELSE 0
          /\ \A i \in 1..Len(map) - (p + 1) + 1 : right[i] = map[p + 1 + i - 1]
      BY <2>1, <3>1, SubSeqProperties
    <3> QED
      BY <2>1, <3>2
  <2> HIDE DEF left, right
  <2>5. s = left \o right
    BY <2>2 DEF left, right
  <2>6. Len(map) \in Nat /\ p \in Nat
    BY <2>1
  <2> HIDE DEF s
  <2>7. /\ s \in Seq(S) /\ Len(s) = Len(left) + Len(right)
        /\ \A i \in 1..Len(left) + Len(right) :
             s[i] = IF i <= Len(left) THEN left[i] ELSE right[i - Len(left)]
    BY <2>3, <2>4, <2>5, ConcatProperties
  <2>8. s \in Seq(S) /\ Len(s) = Len(map) - 1
    BY <2>3, <2>4, <2>6, <2>7
  <2>9. ASSUME NEW i \in 1..Len(s)
        PROVE  s[i] = map[IF i < p THEN i ELSE i + 1]
    <3>2. s[i] = IF i <= Len(left) THEN left[i] ELSE right[i - Len(left)]
      BY <2>7
    <3>3. CASE i < p
      BY <2>1, <2>3, <3>2, <3>3
    <3>4. CASE i >= p
      <4>1. i - (p - 1) \in 1..Len(map) - p /\ p + (i - (p - 1)) = i + 1
        BY <2>1, <2>8, <3>4
      <4> QED
        BY <2>1, <2>8, <2>3, <2>4, <2>6, <3>2, <3>4, <4>1
    <3> QED
      BY <2>1, <3>3, <3>4
  <2>10. NoDup(s)
    <3>1. ASSUME NEW i \in 1..Len(s), NEW j \in 1..Len(s), s[i] = s[j]
          PROVE  i = j
      <4>1. map[IF i < p THEN i ELSE i + 1] = map[IF j < p THEN j ELSE j + 1]
        BY <2>9, <3>1
      <4>2. (IF i < p THEN i ELSE i + 1) = (IF j < p THEN j ELSE j + 1)
        BY <2>1, <2>8, <4>1 DEF NoDup
      <4> QED
        BY <2>1, <2>8, <4>2
    <3> QED
      BY <2>8, <3>1 DEF NoDup
  <2>11. ToSet(s) = ToSet(map) \ gone
    <3>1. ASSUME NEW i \in 1..Len(s)
          PROVE  s[i] \in ToSet(map) \ gone
      <4> DEFINE j == IF i < p THEN i ELSE i + 1
      <4>1. j \in 1..Len(map) /\ j # p /\ s[i] = map[j]
        BY <2>1, <2>8, <2>9, <2>6
      <4>2. map[j] \notin gone
        BY <2>1, <4>1
      <4> QED
        BY <4>1, <4>2 DEF ToSet
    <3>2. ASSUME NEW j \in 1..Len(map), map[j] \notin gone
          PROVE  \E i \in 1..Len(s) : s[i] = map[j]
      <4>1. j # p
        BY <2>1, <3>2
      <4>2. CASE j < p
        BY <2>1, <2>8, <2>9, <4>2
      <4>3. CASE j > p
        <5>1. j - 1 \in 1..Len(s) /\ ~(j - 1 < p) /\ (j - 1) + 1 = j
          BY <2>1, <2>8, <4>3
        <5> QED
          BY <2>9, <5>1
      <4> QED
        BY <2>1, <4>1, <4>2, <4>3
    <3>3. DOMAIN s = 1..Len(s) /\ DOMAIN map = 1..Len(map)
      BY <2>8
    <3> QED
      BY <3>1, <3>2, <3>3 DEF ToSet
  <2> QED
    BY <2>1, <2>8, <2>10, <2>11 DEF s, ToSet
<1> QED
  BY <1>1, <1>2

\* Every entry of a Map is of its namespace and holds a promise that has not
\* failed; no key has two, and the limit holds.
MapOK(fs, n, map) ==
  /\ map \in Seq(Fetches) /\ Len(map) <= MaxEntries /\ NoDup(map)
  /\ \A e \in ToSet(map) : fs[e].state \notin {"free", "failed"} /\ fs[e].ns = n
  /\ \A e, g \in ToSet(map) : fs[e].key = fs[g].key => e = g

LEMMA TouchOK ==
  ASSUME NEW n, NEW map, MapOK(fetch, n, map), NEW k, NEW f \in Fetches \ (ToSet(map) \ Keyed(k))
  PROVE  /\ Touch(map, k, f) \in Seq(Fetches) /\ NoDup(Touch(map, k, f))
         /\ ToSet(Touch(map, k, f)) = (ToSet(map) \ Keyed(k)) \cup {f}
         /\ Len(Touch(map, k, f)) <= Len(map) + 1
         /\ ToSet(map) \cap Keyed(k) # {} => Len(Touch(map, k, f)) = Len(map)
<1> DEFINE left == Delete(map, Keyed(k))
<1>1. map \in Seq(Fetches) /\ NoDup(map) /\ Len(map) \in Nat
  BY DEF MapOK
<1>2. \A i, j \in DOMAIN map : map[i] \in Keyed(k) /\ map[j] \in Keyed(k) => i = j
  BY DEF MapOK, Keyed, ToSet, NoDup
<1>3. /\ left \in Seq(Fetches) /\ NoDup(left) /\ ToSet(left) = ToSet(map) \ Keyed(k)
      /\ Len(left) = IF ToSet(map) \cap Keyed(k) = {} THEN Len(map) ELSE Len(map) - 1
  BY <1>1, <1>2, DeleteProperties
<1> HIDE DEF left
<1> DEFINE s == Append(left, f)
<1>4. s = Touch(map, k, f)
  BY DEF left, Touch
<1>5. /\ s \in Seq(Fetches) /\ Len(s) = Len(left) + 1 /\ s[Len(left) + 1] = f
      /\ \A i \in 1..Len(left) : s[i] = left[i]
  BY <1>3, AppendProperties
<1>6. Len(left) \in Nat /\ DOMAIN left = 1..Len(left) /\ DOMAIN s = 1..Len(left) + 1
  BY <1>3, <1>5
<1>7. \A i \in 1..Len(left) : left[i] # f
  BY <1>3, <1>6 DEF ToSet
<1> HIDE DEF s
<1>8. NoDup(s)
  BY <1>3, <1>5, <1>6, <1>7 DEF NoDup
<1>9. ToSet(s) = ToSet(left) \cup {f}
  <2>1. \A i \in DOMAIN s : i \in DOMAIN left \/ i = Len(left) + 1
    BY <1>6
  <2>2. \A i \in DOMAIN left : i \in DOMAIN s
    BY <1>6
  <2>3. Len(left) + 1 \in DOMAIN s
    BY <1>6
  <2> QED
    BY <1>5, <1>6, <2>1, <2>2, <2>3 DEF ToSet
<1> QED
  BY <1>1, <1>3, <1>4, <1>5, <1>8, <1>9

\* Hit: the entry moves to the end, and all stay.
LEMMA HitMap ==
  ASSUME NEW n, NEW map, MapOK(fetch, n, map), NEW e \in ToSet(map), NEW k, fetch[e].key = k
  PROVE  MapOK(fetch, n, Touch(map, k, e)) /\ ToSet(Touch(map, k, e)) = ToSet(map)
<1>1. ToSet(map) \subseteq Fetches
  BY DEF MapOK, ToSet
<1>2. e \in Keyed(k) /\ \A g \in ToSet(map) : g \in Keyed(k) => g = e
  BY <1>1 DEF Keyed, MapOK
<1>3. e \in Fetches \ (ToSet(map) \ Keyed(k)) /\ ToSet(map) \cap Keyed(k) # {}
  BY <1>1, <1>2
<1>4. ToSet(Touch(map, k, e)) = ToSet(map)
  <2>1. ToSet(Touch(map, k, e)) = (ToSet(map) \ Keyed(k)) \cup {e}
    BY <1>3, TouchOK
  <2> QED
    BY <1>2, <2>1
<1> QED
  BY <1>3, <1>4, TouchOK DEF MapOK

\* store(): those that stay beside the new entry are of other keys.
LEMMA StoreOK ==
  ASSUME NEW n, NEW map, MapOK(fetch, n, map), NEW k, NEW f \in Fetches \ ToSet(map)
  PROVE  /\ Store(map, k, f) \in Seq(Fetches) /\ NoDup(Store(map, k, f))
         /\ Len(Store(map, k, f)) <= MaxEntries
         /\ ToSet(Store(map, k, f)) \subseteq (ToSet(map) \ Keyed(k)) \cup {f}
<1> DEFINE s == Touch(map, k, f)
           d == Store(map, k, f)
<1>1. /\ s \in Seq(Fetches) /\ NoDup(s) /\ ToSet(s) = (ToSet(map) \ Keyed(k)) \cup {f}
      /\ Len(s) <= Len(map) + 1
  BY TouchOK
<1>2. Len(map) \in Nat /\ Len(map) <= MaxEntries /\ MaxEntries \in Nat \ {0}
  BY WalletCacheAssumption DEF MapOK
<1>3. d = IF Len(s) > MaxEntries THEN Tail(s) ELSE s
  BY DEF Store
<1> HIDE DEF s, d
<1>4. CASE Len(s) <= MaxEntries
  BY <1>1, <1>2, <1>3, <1>4 DEF d
<1>5. CASE Len(s) > MaxEntries
  <2>1. Len(s) \in Nat /\ s # <<>> /\ d = Tail(s)
    BY <1>1, <1>2, <1>3, <1>5
  <2>2. /\ d \in Seq(Fetches) /\ Len(d) = Len(s) - 1
        /\ \A i \in 1..Len(d) : d[i] = s[i + 1]
    BY <1>1, <2>1, HeadTailProperties
  <2>3. DOMAIN d = 1..Len(d) /\ DOMAIN s = 1..Len(s)
        /\ \A i \in 1..Len(d) : i + 1 \in 1..Len(s)
    BY <1>1, <2>1, <2>2
  <2>4. NoDup(d)
    BY <1>1, <2>1, <2>2, <2>3 DEF NoDup
  <2>5. ToSet(d) \subseteq ToSet(s)
    BY <2>2, <2>3 DEF ToSet
  <2> QED
    BY <1>1, <1>2, <1>5, <2>1, <2>2, <2>4, <2>5 DEF d
<1> QED
  BY <1>1, <1>2, <1>4, <1>5

LEMMA StoreMap ==
  ASSUME NEW n, NEW map, MapOK(fetch, n, map), NEW k, NEW f \in Fetches \ ToSet(map), NEW fs,
         \A e \in ToSet(map) : /\ fs[e].state \notin {"free", "failed"}
                               /\ fs[e].ns = fetch[e].ns /\ fs[e].key = fetch[e].key,
         fs[f].state \notin {"free", "failed"}, fs[f].ns = n, fs[f].key = k
  PROVE  MapOK(fs, n, Store(map, k, f))
<1> DEFINE d == Store(map, k, f)
<1>1. /\ d \in Seq(Fetches) /\ NoDup(d) /\ Len(d) <= MaxEntries
      /\ ToSet(d) \subseteq (ToSet(map) \ Keyed(k)) \cup {f}
  BY StoreOK
<1> HIDE DEF d
<1>2. ToSet(map) \subseteq Fetches
  BY DEF MapOK, ToSet
<1>3. \A e \in ToSet(d) : fs[e].state \notin {"free", "failed"} /\ fs[e].ns = n
  BY <1>1 DEF MapOK
<1>4. \A e, g \in ToSet(d) : fs[e].key = fs[g].key => e = g
  BY <1>1, <1>2 DEF MapOK, Keyed
<1> QED
  BY <1>1, <1>3, <1>4 DEF MapOK, d

\* A failed promise is taken out.
LEMMA DeleteMap ==
  ASSUME NEW n, NEW map, MapOK(fetch, n, map), NEW f, NEW fs,
         \A e \in ToSet(map) \ {f} : fs[e].state = fetch[e].state /\ fs[e].ns = fetch[e].ns
                                     /\ fs[e].key = fetch[e].key
  PROVE  /\ MapOK(fs, n, Delete(map, {f}))
         /\ ToSet(Delete(map, {f})) = ToSet(map) \ {f}
<1> DEFINE d == Delete(map, {f})
<1>1. \A i, j \in DOMAIN map : map[i] \in {f} /\ map[j] \in {f} => i = j
  BY DEF MapOK, NoDup
<1>0. map \in Seq(Fetches) /\ NoDup(map)
  BY DEF MapOK
<1>2. /\ d \in Seq(Fetches) /\ NoDup(d) /\ ToSet(d) = ToSet(map) \ {f}
      /\ Len(d) = IF ToSet(map) \cap {f} = {} THEN Len(map) ELSE Len(map) - 1
  BY <1>0, <1>1, DeleteProperties
<1>3. Len(map) \in Nat /\ Len(map) <= MaxEntries /\ MaxEntries \in Nat
  BY WalletCacheAssumption DEF MapOK
<1>4. Len(d) <= MaxEntries
  BY <1>2, <1>3
<1> HIDE DEF d
<1> QED
  BY <1>2, <1>4 DEF MapOK, d

-----------------------------------------------------------------------------
(***************************************************************************)
(* The invariant, stated of any fetches fs, Maps ms and promises gs, so    *)
(* that each action can be followed up to the garbage that Become takes    *)
(* away.                                                                   *)
(***************************************************************************)

Fetched == [state : FetchStates, kind : {"set", "refresh"}, ns : Namespaces,
            key : Keys \cup {None}, version : Nat, over : Fetches \cup {None},
            lost : BOOLEAN, expired : BOOLEAN, refreshing : BOOLEAN]

FetchesOK(fs) ==
  /\ fs \in [Fetches -> Fetched]
  /\ \A f \in Fetches : /\ fs[f].state = "free" => fs[f] = NoFetch
                        /\ fs[f].state # "free" => fs[f].key \in Keys

MapsOK(fs, ms) ==
  /\ ms \in [Namespaces -> Seq(Fetches)]
  /\ \A n \in Namespaces : MapOK(fs, n, ms[n])

\* A promise handed to a request has not failed.
PromisesOK(fs, gs) ==
  /\ gs \in [Requests -> Fetches \cup {None}]
  /\ \A r \in Requests : gs[r] # None => fs[gs[r]].state \notin {"free", "failed"}

InMap(ms, f) == \E n \in Namespaces : f \in ToSet(ms[n])

\* What a fetch refreshes is the one entry it took its mark from.
RefreshOK(fs, ms, f) ==
  /\ fs[f].kind = "refresh" => fs[f].ns # "info"
  /\ fs[f].kind = "refresh" /\ f \in Running(fs) => ~InMap(ms, f) /\ ~fs[f].refreshing
  /\ fs[f].over # None =>
       /\ f \in Running(fs) /\ fs[f].kind = "refresh"
       /\ fs[fs[f].over].state # "free" /\ fs[fs[f].over].refreshing
       /\ fs[fs[f].over].key = fs[f].key /\ fs[fs[f].over].ns = fs[f].ns
       /\ fs[f].lost => ~InMap(ms, fs[f].over)

MarksOK(fs, ms) ==
  /\ \A f, g \in Fetches : fs[f].over # None /\ fs[f].over = fs[g].over => f = g
  /\ \A e \in Fetches : fs[e].refreshing /\ InMap(ms, e) =>
       \E f \in Running(fs) : fs[f].over = e /\ ~fs[f].lost

RefreshesOK(fs, ms) ==
  /\ \A f \in Fetches : RefreshOK(fs, ms, f)
  /\ MarksOK(fs, ms)

Sound(fs, ms, gs) ==
  FetchesOK(fs) /\ MapsOK(fs, ms) /\ PromisesOK(fs, gs) /\ RefreshesOK(fs, ms)

\* The requests and the blocks.
RequestsOK ==
  /\ at \in [Requests -> {"idle", "rows", "answer"}]
  /\ since \in [Requests -> Nat]
  /\ \A r \in Requests : /\ since[r] <= confirmed
                         /\ at[r] # "idle" => got[r] # None

MarkedAt(m) == mark \in {Chain[m], [Chain[m] EXCEPT !.hash = None]}

BlocksOK ==
  /\ load \in Workloads /\ tip \in Positions
  /\ confirmed \in Nat /\ confirmed <= tip
  /\ answers \in [{"tip", "transaction"} -> Nat]
  /\ \A a \in {"tip", "transaction"} : answers[a] <= tip
  /\ mark = NoMark \/ \E m \in 1..tip : MarkedAt(m)

IsRead(fs, f) == fs[f].state \in {"read", "done"}

VersionsOK(fs) ==
  \A f \in Fetches : fs[f].version <= tip /\ (IsRead(fs, f) => fs[f].version >= 1)

\* What one getOrSet has cached is as recent as the block the cache has noted,
\* and as any block a client was told of.
CacheFresh(fs, ms) ==
  /\ TipsDiffer => \A m \in 1..tip : MarkedAt(m) =>
                     \A e \in ToSet(ms["info"]) : IsRead(fs, e) => fs[e].version >= m
  /\ ChainGrows => \A e \in ToSet(ms["info"]) : IsRead(fs, e) => fs[e].version >= confirmed

PromisesFresh(fs, gs, ss) ==
  ChainGrows => \A r \in Requests :
    gs[r] # None /\ fs[gs[r]].ns = "info" /\ IsRead(fs, gs[r]) => fs[gs[r]].version >= ss[r]

Fresh(fs, ms, gs, ss) == VersionsOK(fs) /\ CacheFresh(fs, ms) /\ PromisesFresh(fs, gs, ss)

IInv ==
  /\ Sound(fetch, cache, got)
  /\ RequestsOK
  /\ BlocksOK
  /\ Fresh(fetch, cache, got, since)

-----------------------------------------------------------------------------
\* What the garbage collection leaves.

LEMMA NoFetchOK == NoFetch \in Fetched /\ NoFetch.state = "free" /\ NoFetch.over = None
                     /\ NoFetch.refreshing = FALSE /\ NoFetch.kind = "set"
                     /\ NoFetch.version = 0
BY DEF NoFetch, Fetched, FetchStates, Namespaces

LEMMA BecomeKeeps ==
  ASSUME NEW fs, NEW ms, NEW gs, Become(fs, ms, gs), FetchesOK(fs)
  PROVE  /\ cache' = ms /\ got' = gs
         /\ DOMAIN fetch' = Fetches
         /\ \A f \in Fetches : fetch'[f] = fs[f] \/ fetch'[f] = NoFetch
         /\ \A f \in Fetches : InMap(ms, f) => fetch'[f] = fs[f]
         /\ \A r \in Requests : gs[r] \in Fetches => fetch'[gs[r]] = fs[gs[r]]
         /\ \A f \in Running(fs) : fetch'[f] = fs[f]
         /\ \A f \in Running(fs) : fs[f].over \in Fetches =>
              fetch'[fs[f].over] = fs[fs[f].over]
         /\ Running(fetch') = Running(fs)
<1>1. \A f \in Running(fs) : f \in Fetches
  BY DEF Running
<1>2. \A f \in Running(fs) : fetch'[f] = fs[f]
  BY <1>1 DEF Become
<1>3. \A f \in Fetches : fetch'[f] = fs[f] \/ fetch'[f] = NoFetch
  BY DEF Become
<1>4. Running(fetch') = Running(fs)
  BY <1>1, <1>2, <1>3, NoFetchOK DEF Running
<1> QED
  BY <1>1, <1>2, <1>3, <1>4 DEF Become, InMap

LEMMA BecomeSound ==
  ASSUME NEW fs, NEW ms, NEW gs, Become(fs, ms, gs), Sound(fs, ms, gs)
  PROVE  Sound(fetch, cache, got)'
<1> USE NoFetchOK
<1>1. FetchesOK(fs) /\ MapsOK(fs, ms) /\ PromisesOK(fs, gs) /\ RefreshesOK(fs, ms)
  BY DEF Sound
<1>2. /\ cache' = ms /\ got' = gs
      /\ DOMAIN fetch' = Fetches
      /\ \A f \in Fetches : fetch'[f] = fs[f] \/ fetch'[f] = NoFetch
      /\ \A f \in Fetches : InMap(ms, f) => fetch'[f] = fs[f]
      /\ \A r \in Requests : gs[r] \in Fetches => fetch'[gs[r]] = fs[gs[r]]
      /\ \A f \in Running(fs) : fetch'[f] = fs[f]
      /\ \A f \in Running(fs) : fs[f].over \in Fetches => fetch'[fs[f].over] = fs[fs[f].over]
      /\ Running(fetch') = Running(fs)
  BY <1>1, BecomeKeeps
<1>3. FetchesOK(fetch')
  <2>1. fetch' = [f \in Fetches |-> fetch'[f]]
    BY DEF Become
  <2>2. \A f \in Fetches : fs[f] \in Fetched
    BY <1>1 DEF FetchesOK
  <2>3. \A f \in Fetches : fetch'[f] \in Fetched
    BY <1>2, <2>2
  <2>4. fetch' \in [Fetches -> Fetched]
    BY <2>1, <2>3
  <2> QED
    BY <1>1, <1>2, <2>4 DEF FetchesOK
<1>4. MapsOK(fetch', cache')
  <2>1. ASSUME NEW n \in Namespaces
        PROVE  MapOK(fetch', n, ms[n])
    <3>1. MapOK(fs, n, ms[n])
      BY <1>1 DEF MapsOK
    <3>2. \A e \in ToSet(ms[n]) : fetch'[e] = fs[e]
      BY <1>2, <3>1 DEF InMap, MapOK, ToSet
    <3> QED
      BY <3>1, <3>2 DEF MapOK
  <2> QED
    BY <1>1, <1>2, <2>1 DEF MapsOK
<1>5. PromisesOK(fetch', got')
  BY <1>1, <1>2 DEF PromisesOK
<1>6. ASSUME NEW f \in Fetches
      PROVE  RefreshOK(fetch', cache', f)
  <2>1. RefreshOK(fs, ms, f) /\ fs[f].over \in Fetches \cup {None}
    BY <1>1 DEF RefreshesOK, FetchesOK, Fetched
  <2>2. CASE fetch'[f] = NoFetch
    BY <2>2 DEF RefreshOK
  <2>3. CASE fetch'[f] = fs[f]
    <3>1. fs[f].over # None => fetch'[fs[f].over] = fs[fs[f].over]
      BY <1>2, <2>1 DEF RefreshOK
    <3> QED
      BY <1>2, <2>1, <2>3, <3>1 DEF RefreshOK
  <2> QED
    BY <1>2, <2>2, <2>3
<1>7. MarksOK(fetch', cache')
  <2>1. MarksOK(fs, ms)
    BY <1>1 DEF RefreshesOK
  <2>2. \A f, g \in Fetches : fetch'[f].over # None /\ fetch'[f].over = fetch'[g].over => f = g
    BY <1>2, <2>1 DEF MarksOK
  <2>3. ASSUME NEW e \in Fetches, fetch'[e].refreshing, InMap(ms, e)
        PROVE  \E f \in Running(fetch') : fetch'[f].over = e /\ ~fetch'[f].lost
    BY <1>2, <2>1, <2>3 DEF MarksOK
  <2> QED
    BY <1>2, <2>2, <2>3 DEF MarksOK
<1> QED
  BY <1>3, <1>4, <1>5, <1>6, <1>7 DEF Sound, RefreshesOK

-----------------------------------------------------------------------------
\* Each step, up to its garbage.

LEMMA EntryFacts ==
  ASSUME Sound(fetch, cache, got), NEW n \in Namespaces, NEW k, NEW e \in Entry(n, k)
  PROVE  /\ e \in Fetches /\ e \in ToSet(cache[n]) /\ fetch[e].key = k /\ fetch[e].ns = n
         /\ fetch[e].state \notin {"free", "failed"} /\ InMap(cache, e)
         /\ e \notin Keyed(k) => FALSE
BY DEF Sound, MapsOK, MapOK, Entry, ToSet, InMap, Keyed

\* Hit, and an expired entry that answers.
LEMMA TouchSound ==
  ASSUME Sound(fetch, cache, got), NEW r \in Requests, NEW n \in Namespaces, NEW k,
         NEW e \in Entry(n, k)
  PROVE  /\ Sound(fetch, [cache EXCEPT ![n] = Touch(@, k, e)], [got EXCEPT ![r] = e])
         /\ \A m \in Namespaces :
              ToSet([cache EXCEPT ![n] = Touch(@, k, e)][m]) = ToSet(cache[m])
<1> DEFINE ms == [cache EXCEPT ![n] = Touch(@, k, e)]
           gs == [got EXCEPT ![r] = e]
<1>1. /\ e \in Fetches /\ e \in ToSet(cache[n]) /\ fetch[e].key = k
      /\ fetch[e].state \notin {"free", "failed"}
  BY EntryFacts
<1>2. cache \in [Namespaces -> Seq(Fetches)] /\ \A m \in Namespaces : MapOK(fetch, m, cache[m])
  BY DEF Sound, MapsOK
<1>3. MapOK(fetch, n, Touch(cache[n], k, e)) /\ ToSet(Touch(cache[n], k, e)) = ToSet(cache[n])
  BY <1>1, <1>2, HitMap
<1>4. \A m \in Namespaces : ms[m] = IF m = n THEN Touch(cache[n], k, e) ELSE cache[m]
  BY <1>2
<1>5. Touch(cache[n], k, e) \in Seq(Fetches)
  BY <1>3 DEF MapOK
<1>6. ms \in [Namespaces -> Seq(Fetches)]
  BY <1>2, <1>5
<1> HIDE DEF ms
<1>7. MapsOK(fetch, ms) /\ \A m \in Namespaces : ToSet(ms[m]) = ToSet(cache[m])
  BY <1>2, <1>3, <1>4, <1>6 DEF MapsOK
<1>8. PromisesOK(fetch, gs)
  BY <1>1 DEF Sound, PromisesOK
<1>9. \A f : InMap(ms, f) = InMap(cache, f)
  BY <1>7 DEF InMap
<1>10. RefreshesOK(fetch, ms)
  BY <1>9 DEF Sound, RefreshesOK, RefreshOK, MarksOK
<1> QED
  BY <1>7, <1>8, <1>10 DEF Sound, ms

LEMMA FreeFetch ==
  ASSUME NEW fs, NEW ms, NEW gs, Sound(fs, ms, gs), NEW f \in Fetches, fs[f] = NoFetch
  PROVE  /\ f \notin Running(fs) /\ ~InMap(ms, f)
         /\ \A r \in Requests : gs[r] # f
         /\ \A g \in Fetches : fs[g].over # f
<1>1. f # None
  BY WalletCacheAssumption
<1>2. ~InMap(ms, f)
  BY NoFetchOK DEF Sound, MapsOK, MapOK, InMap
<1>3. \A r \in Requests : gs[r] # f
  BY <1>1, NoFetchOK DEF Sound, PromisesOK
<1>4. \A g \in Fetches : fs[g].over # f
  BY <1>1, NoFetchOK DEF Sound, RefreshesOK, RefreshOK
<1> QED
  BY <1>2, <1>3, <1>4, NoFetchOK DEF Running

\* The refresh of an expired entry.
LEMMA RefreshSound ==
  ASSUME NEW ms, NEW gs, Sound(fetch, ms, gs), NEW n \in Namespaces, n # "info",
         NEW k \in Keys, NEW e \in Fetches, e \in ToSet(ms[n]), fetch[e].key = k,
         ~fetch[e].refreshing, NEW f \in Fetches, fetch[f] = NoFetch
  PROVE  Sound([fetch EXCEPT ![e].refreshing = TRUE,
                  ![f] = [NoFetch EXCEPT !.state = "waiting", !.kind = "refresh",
                                         !.ns = n, !.key = k, !.over = e]], ms, gs)
<1> DEFINE new == [NoFetch EXCEPT !.state = "waiting", !.kind = "refresh",
                                  !.ns = n, !.key = k, !.over = e]
           old == [fetch[e] EXCEPT !.refreshing = TRUE]
           fs == [fetch EXCEPT ![e].refreshing = TRUE, ![f] = new]
<1>1. FetchesOK(fetch) /\ MapsOK(fetch, ms) /\ PromisesOK(fetch, gs) /\ RefreshesOK(fetch, ms)
  BY DEF Sound
<1>2. /\ f \notin Running(fetch) /\ ~InMap(ms, f)
      /\ \A r \in Requests : gs[r] # f
      /\ \A g \in Fetches : fetch[g].over # f
  BY FreeFetch
<1>3. InMap(ms, e) /\ e # f /\ fetch[e].ns = n /\ fetch[e].state \notin {"free", "failed"}
  BY <1>1, <1>2 DEF InMap, MapsOK, MapOK
<1>4. fetch \in [Fetches -> Fetched]
  BY <1>1 DEF FetchesOK
<1>5. /\ new \in Fetched /\ new.state = "waiting" /\ new.kind = "refresh" /\ new.ns = n
      /\ new.key = k /\ new.over = e /\ new.refreshing = FALSE /\ new.lost = FALSE
  BY DEF NoFetch, Fetched, FetchStates, Namespaces
<1>6. /\ old \in Fetched /\ old.state = fetch[e].state /\ old.kind = fetch[e].kind
      /\ old.ns = fetch[e].ns /\ old.key = fetch[e].key /\ old.over = fetch[e].over
      /\ old.lost = fetch[e].lost /\ old.refreshing = TRUE
  BY <1>4 DEF Fetched
<1>7. /\ DOMAIN fs = Fetches /\ fs[f] = new /\ fs[e] = old
      /\ \A g \in Fetches \ {e, f} : fs[g] = fetch[g]
  BY <1>3, <1>4
<1>8. fs \in [Fetches -> Fetched]
  BY <1>4, <1>5, <1>6
<1> HIDE DEF new, old, fs
<1>9. FetchesOK(fs)
  BY <1>1, <1>3, <1>5, <1>6, <1>7, <1>8 DEF FetchesOK
<1>10. /\ \A g \in Fetches \ {f} : /\ fs[g].state = fetch[g].state /\ fs[g].kind = fetch[g].kind
                                   /\ fs[g].ns = fetch[g].ns /\ fs[g].key = fetch[g].key
                                   /\ fs[g].over = fetch[g].over /\ fs[g].lost = fetch[g].lost
       /\ \A g \in Fetches \ {f, e} : fs[g].refreshing = fetch[g].refreshing
  BY <1>3, <1>6, <1>7
<1>11. \A m \in Namespaces : \A g \in ToSet(ms[m]) : g \in Fetches \ {f}
  BY <1>1, <1>2 DEF InMap, MapsOK, MapOK, ToSet
<1>12. MapsOK(fs, ms)
  BY <1>1, <1>10, <1>11 DEF MapsOK, MapOK
<1>13. PromisesOK(fs, gs)
  BY <1>1, <1>2, <1>10 DEF PromisesOK
<1>14. Running(fs) = Running(fetch) \cup {f}
  BY <1>2, <1>5, <1>7, <1>10 DEF Running
<1>15. \A g \in Fetches : fetch[g].over # e
  BY <1>1, <1>3, WalletCacheAssumption DEF RefreshesOK, RefreshOK
<1>16. ASSUME NEW g \in Fetches
       PROVE  RefreshOK(fs, ms, g)
  <2>1. RefreshOK(fetch, ms, g) /\ fetch[g].over \in Fetches \cup {None}
    BY <1>1, <1>4 DEF RefreshesOK, Fetched
  <2>2. CASE g = f
    BY <1>2, <1>3, <1>5, <1>6, <1>7, <1>14, <2>2 DEF RefreshOK
  <2>3. CASE g # f
    <3>1. e \in Running(fetch) => fetch[e].kind # "refresh"
      BY <1>1, <1>3 DEF RefreshesOK, RefreshOK
    <3>2. fetch[g].over # None => fetch[g].over \in Fetches \ {e, f}
      BY <1>2, <1>15, <2>1
    <3> QED
      BY <1>10, <1>14, <2>1, <2>3, <3>1, <3>2 DEF RefreshOK
  <2> QED
    BY <2>2, <2>3
<1>17. MarksOK(fs, ms)
  <2>1. MarksOK(fetch, ms)
    BY <1>1 DEF RefreshesOK
  <2>2. ASSUME NEW g \in Fetches, NEW h \in Fetches, fs[g].over # None,
               fs[g].over = fs[h].over
        PROVE  g = h
    BY <1>5, <1>7, <1>10, <1>15, <2>1, <2>2 DEF MarksOK
  <2>3. ASSUME NEW g \in Fetches, fs[g].refreshing, InMap(ms, g)
        PROVE  \E h \in Running(fs) : fs[h].over = g /\ ~fs[h].lost
    <3>1. CASE g = e
      BY <1>5, <1>7, <1>14, <3>1
    <3>2. CASE g # e
      <4>1. fetch[g].refreshing
        BY <1>2, <1>10, <2>3, <3>2
      <4>2. PICK h \in Running(fetch) : fetch[h].over = g /\ ~fetch[h].lost
        BY <2>1, <2>3, <4>1 DEF MarksOK
      <4>3. h \in Fetches \ {f}
        BY <1>2, <4>2 DEF Running
      <4> QED
        BY <1>10, <1>14, <4>2, <4>3
    <3> QED
      BY <3>1, <3>2
  <2> QED
    BY <2>2, <2>3 DEF MarksOK
<1> QED
  BY <1>9, <1>12, <1>13, <1>16, <1>17 DEF Sound, RefreshesOK, fs, new

\* An entry is stored: whatever it replaces loses its mark with it.
LEMMA StoreSound ==
  ASSUME NEW fs, NEW gs, FetchesOK(fs), MapsOK(fetch, cache), PromisesOK(fs, gs),
         \A g \in Fetches : RefreshOK(fs, cache, g),
         NEW n \in Namespaces, NEW k \in Keys, NEW f \in Fetches, ~InMap(cache, f),
         fs[f].state \notin {"free", "failed"}, fs[f].ns = n, fs[f].key = k,
         ~fs[f].refreshing, f \in Running(fs) => fs[f].kind = "set",
         \A g \in Fetches : fs[g].over # f,
         \A e \in Fetches : InMap(cache, e) =>
           fs[e].state = fetch[e].state /\ fs[e].key = fetch[e].key /\ fs[e].ns = fetch[e].ns,
         \A g, h \in Fetches : fs[g].over # None /\ fs[g].over = fs[h].over => g = h,
         \A e \in Fetches : fs[e].refreshing /\ InMap(cache, e) =>
           \/ fs[e].key = k /\ fs[e].ns = n
           \/ \E g \in Running(fs) : fs[g].over = e /\ ~fs[g].lost
  PROVE  Sound(fs, [cache EXCEPT ![n] = Store(@, k, f)], gs)
<1> DEFINE ms == [cache EXCEPT ![n] = Store(@, k, f)]
<1>1. cache \in [Namespaces -> Seq(Fetches)] /\ \A m \in Namespaces : MapOK(fetch, m, cache[m])
  BY DEF MapsOK
<1>2. \A m \in Namespaces : \A e \in ToSet(cache[m]) : InMap(cache, e) /\ e \in Fetches /\ e # f
  BY <1>1 DEF InMap, MapOK, ToSet
<1>3. /\ MapOK(fs, n, Store(cache[n], k, f))
      /\ ToSet(Store(cache[n], k, f)) \subseteq (ToSet(cache[n]) \ Keyed(k)) \cup {f}
  <2>1. MapOK(fetch, n, cache[n]) /\ f \in Fetches \ ToSet(cache[n])
    BY <1>1, <1>2
  <2>2. \A e \in ToSet(cache[n]) : /\ fs[e].state \notin {"free", "failed"}
                                   /\ fs[e].ns = fetch[e].ns /\ fs[e].key = fetch[e].key
    BY <1>2, <2>1 DEF MapOK
  <2> QED
    BY <2>1, <2>2, StoreMap, StoreOK
<1>4. \A m \in Namespaces : ms[m] = IF m = n THEN Store(cache[n], k, f) ELSE cache[m]
  BY <1>1
<1>5. ms \in [Namespaces -> Seq(Fetches)]
  BY <1>1, <1>3 DEF MapOK
<1> HIDE DEF ms
<1>6. MapsOK(fs, ms)
  <2>1. ASSUME NEW m \in Namespaces, m # n
        PROVE  MapOK(fs, m, cache[m])
    BY <1>1, <1>2 DEF MapOK
  <2> QED
    BY <1>3, <1>4, <1>5, <2>1 DEF MapsOK
<1>7. \A e \in Fetches : InMap(ms, e) /\ e # f =>
        InMap(cache, e) /\ ~(fs[e].key = k /\ fs[e].ns = n)
  <2>1. ASSUME NEW e \in Fetches, e # f, NEW m \in Namespaces, e \in ToSet(ms[m])
        PROVE  InMap(cache, e) /\ ~(fs[e].key = k /\ fs[e].ns = n)
    <3>1. CASE m = n
      BY <1>2, <1>3, <1>4, <2>1, <3>1 DEF Keyed
    <3>2. CASE m # n
      BY <1>1, <1>2, <1>4, <2>1, <3>2 DEF MapOK
    <3> QED
      BY <3>1, <3>2
  <2> QED
    BY <2>1 DEF InMap
<1>8. ASSUME NEW g \in Fetches
      PROVE  RefreshOK(fs, ms, g)
  <2>1. fs[g].over \in Fetches \cup {None} /\ RefreshOK(fs, cache, g)
    BY DEF FetchesOK, Fetched
  <2> QED
    BY <1>7, <2>1 DEF RefreshOK
<1>9. MarksOK(fs, ms)
  BY <1>7 DEF MarksOK
<1> QED
  BY <1>6, <1>8, <1>9 DEF Sound, RefreshesOK, ms

\* Miss
LEMMA MissSound ==
  ASSUME Sound(fetch, cache, got), NEW r \in Requests, NEW n \in Namespaces, NEW k \in Keys,
         NEW state \in {"waiting", "read"}, NEW version \in Nat,
         NEW f \in Fetches, fetch[f] = NoFetch
  PROVE  Sound([fetch EXCEPT ![f] = [NoFetch EXCEPT !.state = state, !.version = version,
                                                    !.ns = n, !.key = k]],
               [cache EXCEPT ![n] = Store(@, k, f)], [got EXCEPT ![r] = f])
<1> DEFINE new == [NoFetch EXCEPT !.state = state, !.version = version, !.ns = n, !.key = k]
           fs == [fetch EXCEPT ![f] = new]
           gs == [got EXCEPT ![r] = f]
<1>1. /\ FetchesOK(fetch) /\ MapsOK(fetch, cache) /\ PromisesOK(fetch, got)
      /\ RefreshesOK(fetch, cache)
  BY DEF Sound
<1>2. /\ f \notin Running(fetch) /\ ~InMap(cache, f)
      /\ \A s \in Requests : got[s] # f
      /\ \A g \in Fetches : fetch[g].over # f
  BY FreeFetch
<1>3. fetch \in [Fetches -> Fetched]
  BY <1>1 DEF FetchesOK
<1>4. /\ new \in Fetched /\ new.state = state /\ new.kind = "set" /\ new.ns = n
      /\ new.key = k /\ new.over = None /\ new.refreshing = FALSE
  BY DEF NoFetch, Fetched, FetchStates, Namespaces
<1>5. fs[f] = new /\ \A g \in Fetches \ {f} : fs[g] = fetch[g]
  BY <1>3
<1>6. fs \in [Fetches -> Fetched]
  BY <1>3, <1>4
<1> HIDE DEF new, fs
<1>7. FetchesOK(fs)
  BY <1>1, <1>4, <1>5, <1>6 DEF FetchesOK
<1>8. gs \in [Requests -> Fetches \cup {None}]
  BY <1>1 DEF PromisesOK
<1>9. PromisesOK(fs, gs)
  BY <1>1, <1>2, <1>4, <1>5, <1>8 DEF PromisesOK
<1>10. Running(fs) = Running(fetch) \cup {f}
  BY <1>4, <1>5 DEF Running
<1>11. ASSUME NEW g \in Fetches
       PROVE  RefreshOK(fs, cache, g)
  <2>1. RefreshOK(fetch, cache, g) /\ fetch[g].over \in Fetches \cup {None}
    BY <1>1, <1>3 DEF RefreshesOK, Fetched
  <2>2. CASE g = f
    BY <1>4, <1>5, <2>2 DEF RefreshOK
  <2>3. CASE g # f
    BY <1>2, <1>5, <1>10, <2>1, <2>3 DEF RefreshOK
  <2> QED
    BY <2>2, <2>3
<1>12. MarksOK(fetch, cache)
  BY <1>1 DEF RefreshesOK
<1>13. \A g, h \in Fetches : fs[g].over # None /\ fs[g].over = fs[h].over => g = h
  BY <1>4, <1>5, <1>12 DEF MarksOK
<1>14. \A e \in Fetches : fs[e].refreshing /\ InMap(cache, e) =>
         \E g \in Running(fs) : fs[g].over = e /\ ~fs[g].lost
  BY <1>2, <1>5, <1>10, <1>12 DEF MarksOK, Running
<1>15. \A g \in Fetches : fs[g].over # f
  BY <1>2, <1>4, <1>5, WalletCacheAssumption
<1>16. Sound(fs, [cache EXCEPT ![n] = Store(@, k, f)], gs)
  BY <1>1, <1>2, <1>4, <1>5, <1>7, <1>9, <1>11, <1>13, <1>14, <1>15, StoreSound
<1> QED
  BY <1>16 DEF fs, new

\* Reply, and any promise given up.
LEMMA ReplySound ==
  ASSUME Sound(fetch, cache, got), NEW r \in Requests
  PROVE  Sound(fetch, cache, [got EXCEPT ![r] = None])
BY DEF Sound, PromisesOK

\* ProviderReads, Expire: what the links between fetches rest on stays.
LEMMA SameLinksSound ==
  ASSUME Sound(fetch, cache, got), NEW f \in Fetches, NEW new \in Fetched,
         new.kind = fetch[f].kind, new.ns = fetch[f].ns, new.key = fetch[f].key,
         new.over = fetch[f].over, new.lost = fetch[f].lost,
         new.refreshing = fetch[f].refreshing,
         \/ new.state = fetch[f].state /\ fetch[f].state # "free"
         \/ fetch[f].state = "waiting" /\ new.state = "read"
  PROVE  Sound([fetch EXCEPT ![f] = new], cache, got)
<1> DEFINE fs == [fetch EXCEPT ![f] = new]
<1>1. /\ FetchesOK(fetch) /\ MapsOK(fetch, cache) /\ PromisesOK(fetch, got)
      /\ RefreshesOK(fetch, cache)
  BY DEF Sound
<1>2. fetch \in [Fetches -> Fetched]
  BY <1>1 DEF FetchesOK
<1>3. /\ fs \in [Fetches -> Fetched] /\ fs[f] = new
      /\ \A g \in Fetches \ {f} : fs[g] = fetch[g]
  BY <1>2
<1> HIDE DEF fs
<1>4. \A g \in Fetches : /\ fs[g].kind = fetch[g].kind /\ fs[g].ns = fetch[g].ns
                         /\ fs[g].key = fetch[g].key /\ fs[g].over = fetch[g].over
                         /\ fs[g].lost = fetch[g].lost /\ fs[g].refreshing = fetch[g].refreshing
                         /\ fs[g].state = "free" <=> fetch[g].state = "free"
                         /\ fs[g].state = "failed" <=> fetch[g].state = "failed"
  BY <1>3
<1>5. Running(fs) = Running(fetch)
  BY <1>3 DEF Running
<1>6. FetchesOK(fs)
  BY <1>1, <1>3, <1>4 DEF FetchesOK
<1>7. MapsOK(fs, cache)
  <2>1. \A n \in Namespaces : \A e \in ToSet(cache[n]) : e \in Fetches
    BY <1>1 DEF MapsOK, MapOK, ToSet
  <2> QED
    BY <1>1, <1>4, <2>1 DEF MapsOK, MapOK
<1>8. PromisesOK(fs, got)
  BY <1>1, <1>4 DEF PromisesOK
<1>9. RefreshesOK(fs, cache)
  <2>1. ASSUME NEW g \in Fetches
        PROVE  RefreshOK(fs, cache, g)
    <3>1. RefreshOK(fetch, cache, g) /\ fetch[g].over \in Fetches \cup {None}
      BY <1>1, <1>2 DEF RefreshesOK, Fetched
    <3> QED
      BY <1>4, <1>5, <3>1 DEF RefreshOK
  <2>2. \A g \in Running(fs) : g \in Fetches
    BY DEF Running
  <2>3. MarksOK(fs, cache)
    BY <1>1, <1>4, <1>5, <2>2 DEF RefreshesOK, MarksOK
  <2> QED
    BY <2>1, <2>3 DEF RefreshesOK
<1> QED
  BY <1>6, <1>7, <1>8, <1>9 DEF Sound, fs

Resolved(f) == [fetch EXCEPT ![f].state = "done", ![f].over = None]

\* Resolve: a refresh lets go of the entry it replaces, or finds it gone.
LEMMA ResolveSound ==
  ASSUME Sound(fetch, cache, got), NEW f \in Fetches, fetch[f].state = "read"
  PROVE  /\ fetch[f].kind = "set" \/ ~StillThere(f) => Sound(Resolved(f), cache, got)
         /\ fetch[f].kind = "refresh" /\ StillThere(f) =>
              Sound(Resolved(f), [cache EXCEPT ![fetch[f].ns] = Store(@, fetch[f].key, f)], got)
<1> DEFINE done == Resolved(f)
           new == [fetch[f] EXCEPT !.state = "done", !.over = None]
           n == fetch[f].ns
           k == fetch[f].key
<1>1. /\ FetchesOK(fetch) /\ MapsOK(fetch, cache) /\ PromisesOK(fetch, got)
      /\ RefreshesOK(fetch, cache)
  BY DEF Sound
<1>2. fetch \in [Fetches -> Fetched]
  BY <1>1 DEF FetchesOK
<1>3. f \in Running(fetch) /\ k \in Keys /\ n \in Namespaces
  BY <1>1, <1>2 DEF Running, FetchesOK, Fetched
<1>4. /\ new \in Fetched /\ new.state = "done" /\ new.kind = fetch[f].kind
      /\ new.ns = n /\ new.key = k /\ new.over = None /\ new.lost = fetch[f].lost
      /\ new.refreshing = fetch[f].refreshing
  BY <1>2 DEF Fetched, FetchStates
<1>5. done[f] = new /\ \A g \in Fetches \ {f} : done[g] = fetch[g]
  BY <1>2 DEF Resolved
<1>6. done \in [Fetches -> Fetched]
  BY <1>2, <1>4 DEF Resolved
<1> HIDE DEF new, done
<1>7. \A g \in Fetches : /\ done[g].kind = fetch[g].kind /\ done[g].ns = fetch[g].ns
                         /\ done[g].key = fetch[g].key /\ done[g].lost = fetch[g].lost
                         /\ done[g].refreshing = fetch[g].refreshing
                         /\ done[g].state = "free" <=> fetch[g].state = "free"
                         /\ done[g].state = "failed" <=> fetch[g].state = "failed"
                         /\ g # f => done[g].over = fetch[g].over
  BY <1>4, <1>5
<1>8. FetchesOK(done)
  BY <1>1, <1>4, <1>5, <1>6 DEF FetchesOK
<1>9. PromisesOK(done, got)
  BY <1>1, <1>7 DEF PromisesOK
<1>10. Running(done) = Running(fetch) \ {f}
  BY <1>4, <1>5 DEF Running
<1>11. MarksOK(fetch, cache) /\ \A g \in Fetches : RefreshOK(fetch, cache, g)
  BY <1>1 DEF RefreshesOK
<1>12. ASSUME NEW g \in Fetches
       PROVE  RefreshOK(done, cache, g)
  <2>1. RefreshOK(fetch, cache, g) /\ fetch[g].over \in Fetches \cup {None}
    BY <1>2, <1>11 DEF Fetched
  <2>2. CASE g = f
    BY <1>4, <1>5, <1>10, <2>1, <2>2 DEF RefreshOK
  <2>3. CASE g # f
    BY <1>7, <1>10, <2>1, <2>3 DEF RefreshOK
  <2> QED
    BY <2>2, <2>3
<1>13. \A g, h \in Fetches : done[g].over # None /\ done[g].over = done[h].over => g = h
  BY <1>4, <1>5, <1>7, <1>11 DEF MarksOK
<1>14. ASSUME NEW e \in Fetches, done[e].refreshing, InMap(cache, e),
              e # fetch[f].over \/ fetch[f].lost
       PROVE  \E g \in Running(done) : done[g].over = e /\ ~done[g].lost
  <2>1. PICK g \in Running(fetch) : fetch[g].over = e /\ ~fetch[g].lost
    BY <1>7, <1>11, <1>14 DEF MarksOK
  <2>2. g \in Fetches \ {f}
    BY <1>14, <2>1 DEF Running
  <2> QED
    BY <1>7, <1>10, <2>1, <2>2
<1>15. ASSUME fetch[f].kind = "set" \/ ~StillThere(f)
       PROVE  Sound(done, cache, got)
  <2>1. \A e \in Fetches : InMap(cache, e) => e # fetch[f].over \/ fetch[f].lost
    <3>1. ASSUME NEW e \in Fetches, InMap(cache, e), e = fetch[f].over, ~fetch[f].lost
          PROVE  FALSE
      <4>1. fetch[f].over # None /\ RefreshOK(fetch, cache, f)
        BY <1>11, <3>1, WalletCacheAssumption
      <4>2. fetch[e].ns = n /\ fetch[f].kind # "set"
        BY <3>1, <4>1 DEF RefreshOK
      <4>3. e \in ToSet(cache[n])
        BY <1>1, <3>1, <4>2 DEF InMap, MapsOK, MapOK
      <4> QED
        BY <1>15, <3>1, <4>2, <4>3 DEF StillThere
    <3> QED
      BY <3>1
  <2>2. MarksOK(done, cache)
    BY <1>13, <1>14, <2>1 DEF MarksOK
  <2>3. MapsOK(done, cache)
    <3>1. \A m \in Namespaces : \A e \in ToSet(cache[m]) : e \in Fetches
      BY <1>1 DEF MapsOK, MapOK, ToSet
    <3> QED
      BY <1>1, <1>7, <3>1 DEF MapsOK, MapOK
  <2> QED
    BY <1>8, <1>9, <1>12, <2>2, <2>3 DEF Sound, RefreshesOK
<1>16. ASSUME fetch[f].kind = "refresh", StillThere(f)
       PROVE  Sound(done, [cache EXCEPT ![n] = Store(@, k, f)], got)
  <2>1. RefreshOK(fetch, cache, f)
    BY <1>11
  <2>2. ~InMap(cache, f) /\ ~fetch[f].refreshing
    BY <1>3, <1>16, <2>1 DEF RefreshOK
  <2>3. \A g \in Fetches : done[g].over # f
    <3>1. ASSUME NEW g \in Fetches, g # f, fetch[g].over = f
          PROVE  FALSE
      BY <1>11, <2>2, <3>1, WalletCacheAssumption DEF RefreshOK
    <3> QED
      BY <1>4, <1>5, <3>1, WalletCacheAssumption
  <2>4. \A e \in Fetches : done[e].refreshing /\ InMap(cache, e) =>
          \/ done[e].key = k /\ done[e].ns = n
          \/ \E g \in Running(done) : done[g].over = e /\ ~done[g].lost
    <3>1. \A e \in Fetches : e = fetch[f].over => fetch[e].key = k /\ fetch[e].ns = n
      BY <2>1, WalletCacheAssumption DEF RefreshOK
    <3> QED
      BY <1>7, <1>14, <3>1
  <2>5. \A e \in Fetches : InMap(cache, e) =>
          done[e].state = fetch[e].state /\ done[e].key = fetch[e].key /\ done[e].ns = fetch[e].ns
    BY <1>5, <2>2
  <2>6. done[f].ns = n /\ done[f].key = k /\ ~done[f].refreshing
    BY <1>4, <1>5, <2>2
  <2>7. done[f].state \notin {"free", "failed"} /\ f \notin Running(done)
    BY <1>4, <1>5, <1>10
  <2> QED
    BY <1>1, <1>3, <1>8, <1>9, <1>12, <1>13, <2>2, <2>3, <2>4, <2>5, <2>6, <2>7, StoreSound
<1> QED
  BY <1>15, <1>16 DEF done

\* Fail: the promise is taken out everywhere, and the entry it was to replace
\* may be refreshed again.
LEMMA FailSound ==
  ASSUME Sound(fetch, cache, got), NEW f \in Fetches, fetch[f].state \in {"waiting", "read"}
  PROVE  Sound(Failed(f), [n \in Namespaces |-> Delete(cache[n], {f})],
               [r \in Requests |-> IF got[r] = f THEN None ELSE got[r]])
<1> DEFINE fs == Failed(f)
           ms == [n \in Namespaces |-> Delete(cache[n], {f})]
           gs == [r \in Requests |-> IF got[r] = f THEN None ELSE got[r]]
           new == [fetch[f] EXCEPT !.state = "failed", !.over = None]
<1>1. /\ FetchesOK(fetch) /\ MapsOK(fetch, cache) /\ PromisesOK(fetch, got)
      /\ RefreshesOK(fetch, cache)
  BY DEF Sound
<1>2. fetch \in [Fetches -> Fetched]
  BY <1>1 DEF FetchesOK
<1>3. /\ new \in Fetched /\ new.state = "failed" /\ new.over = None /\ new.kind = fetch[f].kind
      /\ new.ns = fetch[f].ns /\ new.key = fetch[f].key
      /\ new.refreshing = fetch[f].refreshing
  BY <1>2 DEF Fetched, FetchStates
<1>4. fs[f] = new
  BY DEF Failed
<1>5. ASSUME NEW g \in Fetches \ {f}
      PROVE  /\ fs[g] \in Fetched
             /\ fs[g].state = fetch[g].state /\ fs[g].kind = fetch[g].kind
             /\ fs[g].ns = fetch[g].ns /\ fs[g].key = fetch[g].key
             /\ fs[g].lost = fetch[g].lost /\ fs[g].version = fetch[g].version
             /\ fs[g].over \in {fetch[g].over, None}
             /\ g = fetch[f].over => fs[g].refreshing = FALSE /\ fs[g].over = fetch[g].over
             /\ g # fetch[f].over => /\ fs[g].refreshing = fetch[g].refreshing
                                     /\ ~fetch[g].lost => fs[g].over = fetch[g].over
                                     /\ fetch[g].lost => fs[g].over # f
  <2>1. fetch[g] \in Fetched /\ f # None
    BY <1>2, WalletCacheAssumption
  <2>2. fs[g] = IF g = fetch[f].over THEN [fetch[g] EXCEPT !.refreshing = FALSE]
                ELSE IF fetch[g].lost /\ fetch[g].over = f THEN [fetch[g] EXCEPT !.over = None]
                ELSE fetch[g]
    BY DEF Failed
  <2> HIDE DEF fs
  <2>3. CASE g = fetch[f].over
    BY <2>1, <2>2, <2>3 DEF Fetched
  <2>4. CASE g # fetch[f].over /\ fetch[g].lost /\ fetch[g].over = f
    BY <2>1, <2>2, <2>4 DEF Fetched
  <2>5. CASE g # fetch[f].over /\ ~(fetch[g].lost /\ fetch[g].over = f)
    BY <2>1, <2>2, <2>5
  <2> QED
    BY <2>3, <2>4, <2>5
<1>6. DOMAIN fs = Fetches /\ fs = [g \in Fetches |-> fs[g]]
  BY DEF Failed
<1> HIDE DEF new, fs
<1>7. FetchesOK(fs)
  <2>1. \A g \in Fetches : fs[g] \in Fetched
    BY <1>3, <1>4, <1>5
  <2>2. fs \in [Fetches -> Fetched]
    BY <1>6, <2>1
  <2>3. ASSUME NEW g \in Fetches \ {f}, fetch[g].state = "free"
        PROVE  fs[g] = NoFetch
    <3>1. fetch[g] = NoFetch
      BY <1>1, <2>3 DEF FetchesOK
    <3>2. \A h \in Fetches : fetch[h].over # g
      BY <3>1, FreeFetch
    <3>3. ~fetch[g].lost
      BY <3>1 DEF NoFetch
    <3> QED
      BY <3>1, <3>2, <3>3 DEF fs, Failed
  <2>4. \A g \in Fetches : fs[g].state # "free" => fs[g].key \in Keys
    BY <1>1, <1>3, <1>4, <1>5 DEF FetchesOK
  <2> QED
    BY <1>3, <1>4, <1>5, <2>2, <2>3, <2>4 DEF FetchesOK
<1>8. MapsOK(fs, ms) /\ \A n \in Namespaces : ToSet(ms[n]) = ToSet(cache[n]) \ {f}
  <2>1. ASSUME NEW n \in Namespaces
        PROVE  MapOK(fs, n, ms[n]) /\ ToSet(ms[n]) = ToSet(cache[n]) \ {f}
    <3>1. MapOK(fetch, n, cache[n])
      BY <1>1 DEF MapsOK
    <3>2. \A e \in ToSet(cache[n]) : e \in Fetches
      BY <3>1 DEF MapOK, ToSet
    <3>3. \A e \in ToSet(cache[n]) \ {f} : fs[e].state = fetch[e].state /\ fs[e].ns = fetch[e].ns
                                           /\ fs[e].key = fetch[e].key
      BY <1>5, <3>2
    <3> QED
      BY <3>1, <3>3, DeleteMap
  <2>2. ms \in [Namespaces -> Seq(Fetches)]
    BY <2>1 DEF MapOK
  <2> QED
    BY <2>1, <2>2 DEF MapsOK
<1>9. PromisesOK(fs, gs)
  BY <1>1, <1>5 DEF PromisesOK
<1> HIDE DEF ms
<1>10. \A e : InMap(ms, e) <=> InMap(cache, e) /\ e # f
  BY <1>8 DEF InMap
<1>11. Running(fs) = Running(fetch) \ {f}
  BY <1>3, <1>4, <1>5 DEF Running
<1>12. MarksOK(fetch, cache) /\ \A g \in Fetches : RefreshOK(fetch, cache, g)
  BY <1>1 DEF RefreshesOK
<1>13. ASSUME NEW g \in Fetches
       PROVE  RefreshOK(fs, ms, g)
  <2>1. RefreshOK(fetch, cache, g) /\ fetch[g].over \in Fetches \cup {None}
    BY <1>2, <1>12 DEF Fetched
  <2>2. CASE g = f
    BY <1>3, <1>4, <1>11, <2>1, <2>2 DEF RefreshOK
  <2>3. CASE g # f
    <3>1. fs[g].kind = "refresh" => fs[g].ns # "info"
      BY <1>5, <2>1, <2>3 DEF RefreshOK
    <3>2. fs[g].kind = "refresh" /\ g \in Running(fs) => ~InMap(ms, g) /\ ~fs[g].refreshing
      BY <1>5, <1>10, <1>11, <2>1, <2>3 DEF RefreshOK
    <3>3. ASSUME fs[g].over # None
          PROVE  /\ g \in Running(fs) /\ fs[g].kind = "refresh"
                 /\ fs[fs[g].over].state # "free" /\ fs[fs[g].over].refreshing
                 /\ fs[fs[g].over].key = fs[g].key /\ fs[fs[g].over].ns = fs[g].ns
                 /\ fs[g].lost => ~InMap(ms, fs[g].over)
      <4> DEFINE e == fetch[g].over
      <4>1. fs[g].over = e /\ e # None /\ e \in Fetches
        BY <1>5, <2>1, <2>3, <3>3
      <4>2. /\ g \in Running(fetch) /\ fetch[g].kind = "refresh"
            /\ fetch[e].state # "free" /\ fetch[e].refreshing
            /\ fetch[e].key = fetch[g].key /\ fetch[e].ns = fetch[g].ns
            /\ fetch[g].lost => ~InMap(cache, e)
        BY <2>1, <4>1 DEF RefreshOK
      <4>3. e # fetch[f].over
        BY <1>12, <2>3, <4>1 DEF MarksOK
      <4> HIDE DEF e
      <4>4. /\ fs[e].state # "free" /\ fs[e].refreshing
            /\ fs[e].key = fetch[e].key /\ fs[e].ns = fetch[e].ns
        <5>1. CASE e = f
          BY <1>3, <1>4, <4>2, <5>1
        <5>2. CASE e # f
          BY <1>5, <4>1, <4>2, <4>3, <5>2
        <5> QED
          BY <5>1, <5>2
      <4> QED
        BY <1>5, <1>10, <1>11, <2>3, <4>1, <4>2, <4>4
    <3> QED
      BY <3>1, <3>2, <3>3 DEF RefreshOK
  <2> QED
    BY <2>2, <2>3
<1>14. MarksOK(fs, ms)
  <2>1. \A g, h \in Fetches : fs[g].over # None /\ fs[g].over = fs[h].over => g = h
    <3>1. \A g \in Fetches : fs[g].over # None => fs[g].over = fetch[g].over
      BY <1>3, <1>4, <1>5
    <3> QED
      BY <1>12, <3>1 DEF MarksOK
  <2>2. ASSUME NEW e \in Fetches, fs[e].refreshing, InMap(ms, e)
        PROVE  \E g \in Running(fs) : fs[g].over = e /\ ~fs[g].lost
    <3>1. e # f /\ e # fetch[f].over /\ fetch[e].refreshing /\ InMap(cache, e)
      BY <1>5, <1>10, <2>2
    <3>2. PICK g \in Running(fetch) : fetch[g].over = e /\ ~fetch[g].lost
      BY <1>12, <3>1 DEF MarksOK
    <3>3. g \in Fetches \ {f}
      BY <3>1, <3>2 DEF Running
    <3> QED
      BY <1>5, <1>11, <3>2, <3>3
  <2> QED
    BY <2>1, <2>2 DEF MarksOK
<1> QED
  BY <1>7, <1>8, <1>9, <1>13, <1>14 DEF Sound, RefreshesOK, fs, ms

\* Clear: the Maps are left to the fetches under way.
LEMMA ClearSound ==
  ASSUME Sound(fetch, cache, got), Clear
  PROVE  /\ Sound(fetch, cache, got)'
         /\ got' = got
         /\ cache' = [n \in Namespaces |-> <<>>]
         /\ \A f \in Fetches : /\ fetch'[f].state \in {fetch[f].state, "free"}
                               /\ fetch'[f].version \in {fetch[f].version, 0}
                               /\ fetch'[f].state # "free" =>
                                    /\ fetch'[f].version = fetch[f].version
                                    /\ fetch'[f].ns = fetch[f].ns
<1> DEFINE Kept(f) == IF StillThere(f) THEN fetch[f].over ELSE None
           left(f) == [fetch[f] EXCEPT !.lost = TRUE, !.over = Kept(f)]
           fs == [f \in Fetches |-> IF f \in Running(fetch) THEN left(f) ELSE fetch[f]]
           ms == [n \in Namespaces |-> <<>>]
<1>1. /\ FetchesOK(fetch) /\ MapsOK(fetch, cache) /\ PromisesOK(fetch, got)
      /\ RefreshesOK(fetch, cache)
  BY DEF Sound
<1>2. fetch \in [Fetches -> Fetched]
  BY <1>1 DEF FetchesOK
<1>3. Become(fs, ms, got)
  BY DEF Clear
<1>4. ASSUME NEW f \in Fetches
      PROVE  /\ fs[f] \in Fetched
             /\ fs[f].state = fetch[f].state /\ fs[f].kind = fetch[f].kind
             /\ fs[f].ns = fetch[f].ns /\ fs[f].key = fetch[f].key
             /\ fs[f].version = fetch[f].version /\ fs[f].refreshing = fetch[f].refreshing
             /\ f \notin Running(fetch) => fs[f] = fetch[f]
             /\ fs[f].over \in {fetch[f].over, None}
  <2>1. fetch[f] \in Fetched /\ Kept(f) \in {fetch[f].over, None}
    BY <1>2
  <2> HIDE DEF Kept
  <2>2. CASE f \in Running(fetch)
    BY <2>1, <2>2 DEF Fetched
  <2>3. CASE f \notin Running(fetch)
    BY <2>1, <2>3
  <2> QED
    BY <2>2, <2>3
<1>5. fs = [f \in Fetches |-> fs[f]]
  OBVIOUS
<1>6. \A f : ~InMap(ms, f)
  BY DEF InMap, ToSet
<1> HIDE DEF fs
<1>7. Running(fs) = Running(fetch)
  BY <1>4 DEF Running
<1>8. FetchesOK(fs)
  <2>1. fs \in [Fetches -> Fetched]
    BY <1>4, <1>5
  <2>2. \A f \in Fetches : fetch[f].state = "free" => f \notin Running(fetch)
    BY DEF Running
  <2> QED
    BY <1>1, <1>4, <2>1, <2>2 DEF FetchesOK
<1>9. MapsOK(fs, ms)
  BY WalletCacheAssumption DEF MapsOK, MapOK, NoDup, ToSet
<1> HIDE DEF ms
<1>10. PromisesOK(fs, got)
  BY <1>1, <1>4 DEF PromisesOK
<1>11. ASSUME NEW g \in Fetches
       PROVE  RefreshOK(fs, ms, g)
  <2>1. RefreshOK(fetch, cache, g) /\ fetch[g].over \in Fetches \cup {None}
    BY <1>1, <1>2 DEF RefreshesOK, Fetched
  <2> QED
    BY <1>4, <1>6, <1>7, <2>1 DEF RefreshOK
<1>12. MarksOK(fs, ms)
  BY <1>1, <1>4, <1>6 DEF RefreshesOK, MarksOK
<1>13. Sound(fs, ms, got)
  BY <1>8, <1>9, <1>10, <1>11, <1>12 DEF Sound, RefreshesOK
<1>14. Sound(fetch, cache, got)'
  BY <1>3, <1>13, BecomeSound
<1>15. \A f \in Fetches : fetch'[f] = fs[f] \/ fetch'[f] = NoFetch
  BY <1>3, <1>8, BecomeKeeps
<1> QED
  BY <1>3, <1>4, <1>14, <1>15, NoFetchOK DEF Become, ms

-----------------------------------------------------------------------------
\* Freshness.

LEMMA ChainFacts ==
  ASSUME BlocksOK
  PROVE  /\ \A i \in Positions : /\ Chain[i].block \in Nat \ {0} /\ Chain[i].slot \in Nat
                                 /\ Chain[i].hash \in Hashes
                                 /\ Chain[i] \in [block : Nat \ {0}, slot : Nat, hash : Hashes]
         /\ Len(Chain) \in Nat /\ tip \in Nat /\ 1..tip \subseteq Positions
         /\ None \notin Hashes
<1> DEFINE Tips == [block : Nat \ {0}, slot : Nat, hash : Hashes]
<1>1. Chain \in Seq(Tips)
  BY WalletCacheAssumption DEF BlocksOK, Chain
<1> HIDE DEF Chain, Tips
<1>2. \A i \in Positions : Chain[i] \in Tips
  BY <1>1 DEF Positions
<1>3. Len(Chain) \in Nat
  BY <1>1
<1> USE DEF Tips
<1> QED
  BY <1>2, <1>3, WalletCacheAssumption DEF BlocksOK, Positions

LEMMA MarkFacts ==
  ASSUME BlocksOK, NEW m \in Positions, MarkedAt(m)
  PROVE  /\ mark.block = Chain[m].block /\ mark.slot = Chain[m].slot
         /\ mark.hash \in {Chain[m].hash, None}
<1> DEFINE Tips == [block : Nat \ {0}, slot : Nat, hash : Hashes]
<1>1. Chain \in Seq(Tips)
  BY WalletCacheAssumption DEF BlocksOK, Chain
<1> HIDE DEF Chain, Tips
<1>2. Chain[m] \in Tips
  BY <1>1 DEF Positions
<1> USE DEF Tips
<1> QED
  BY <1>2 DEF MarkedAt

\* A mark names one position of the chain.
LEMMA MarkedOnce ==
  ASSUME BlocksOK, TipsDiffer, NEW m \in Positions, MarkedAt(m), NEW i \in Positions,
         MarkedAt(i) \/ SameBlock(Chain[i], mark) \/ SameBlock(mark, Chain[i])
  PROVE  i = m
<1>1. /\ mark.block = Chain[m].block /\ mark.slot = Chain[m].slot
      /\ mark.hash \in {Chain[m].hash, None}
  BY MarkFacts
<1>2. Chain[i].hash # None
  BY ChainFacts
<1>3. CASE MarkedAt(i)
  BY <1>1, <1>3, MarkFacts DEF TipsDiffer
<1>4. CASE SameBlock(Chain[i], mark) \/ SameBlock(mark, Chain[i])
  BY <1>1, <1>2, <1>4 DEF SameBlock, TipsDiffer
<1> QED
  BY <1>3, <1>4

\* No block is NoMark.
LEMMA NoMarkFacts ==
  ASSUME BlocksOK, mark = NoMark, NEW i \in Positions
  PROVE  /\ ~SameBlock(Chain[i], mark) /\ ~SameBlock(mark, Chain[i])
         /\ Chain[i].block > mark.block /\ ~MarkedAt(i)
<1>1. mark.block = 0
  BY DEF NoMark
<1>2. Chain[i].block \in Nat \ {0}
  BY ChainFacts
<1>3. ~MarkedAt(i)
  BY <1>1, <1>2, MarkFacts
<1> QED
  BY <1>1, <1>2, <1>3 DEF SameBlock

LEMMA GrowingDiffers ==
  ASSUME BlocksOK, ChainGrows
  PROVE  TipsDiffer
<1>1. ASSUME NEW i \in Positions, NEW j \in Positions, i # j, Chain[i].block = Chain[j].block
      PROVE  FALSE
  <2>1. Chain[i].block \in Nat /\ Chain[j].block \in Nat /\ i \in Nat /\ j \in Nat
    BY ChainFacts DEF Positions
  <2>2. CASE i < j
    BY <1>1, <2>1, <2>2 DEF ChainGrows
  <2>3. CASE j < i
    BY <1>1, <2>1, <2>3 DEF ChainGrows
  <2> QED
    BY <1>1, <2>1, <2>2, <2>3
<1> QED
  BY <1>1 DEF TipsDiffer

\* A step that reads at the tip, or keeps what was read, keeps it all fresh.
LEMMA FreshStep ==
  ASSUME IInv, NEW fs, NEW ms, NEW gs, NEW ss,
         \A f \in Fetches : fs[f].version \in Nat,
         VersionsOK(fs),
         \A f \in Fetches : IsRead(fs, f) /\ fs[f].ns = "info" =>
           \/ fs[f].version = tip
           \/ IsRead(fetch, f) /\ fetch[f].ns = "info" /\ fs[f].version = fetch[f].version,
         \A e \in ToSet(ms["info"]) :
           e \in Fetches /\ fs[e].ns = "info" /\ (e \in ToSet(cache["info"]) \/ ~IsRead(fs, e)),
         \A r \in Requests : ss[r] \in Nat /\ ss[r] <= confirmed,
         \A r \in Requests : gs[r] # None =>
           /\ gs[r] \in Fetches
           /\ \/ gs[r] = got[r] /\ ss[r] = since[r]
              \/ gs[r] \in ToSet(cache["info"])
              \/ ~(fs[gs[r]].ns = "info" /\ IsRead(fs, gs[r]))
  PROVE  Fresh(fs, ms, gs, ss)
<1>1. /\ Fresh(fetch, cache, got, since) /\ BlocksOK /\ tip \in Nat
      /\ confirmed \in Nat /\ confirmed <= tip
  BY ChainFacts DEF IInv, BlocksOK
<1>2. CacheFresh(fetch, cache) /\ PromisesFresh(fetch, got, since)
  BY <1>1 DEF Fresh
<1>3. CacheFresh(fs, ms)
  <2>1. ASSUME TipsDiffer, NEW m \in 1..tip, MarkedAt(m), NEW e \in ToSet(ms["info"]),
               IsRead(fs, e)
        PROVE  fs[e].version >= m
    <3>1. \/ fs[e].version = tip
          \/ /\ IsRead(fetch, e) /\ fs[e].version = fetch[e].version
             /\ e \in ToSet(cache["info"])
      BY <2>1
    <3> QED
      BY <1>1, <1>2, <2>1, <3>1 DEF CacheFresh
  <2>2. ASSUME ChainGrows, NEW e \in ToSet(ms["info"]), IsRead(fs, e)
        PROVE  fs[e].version >= confirmed
    <3>1. \/ fs[e].version = tip
          \/ /\ IsRead(fetch, e) /\ fs[e].version = fetch[e].version
             /\ e \in ToSet(cache["info"])
      BY <2>2
    <3> QED
      BY <1>1, <1>2, <2>2, <3>1 DEF CacheFresh
  <2> QED
    BY <2>1, <2>2 DEF CacheFresh
<1>4. PromisesFresh(fs, gs, ss)
  <2>1. ASSUME ChainGrows, NEW r \in Requests, gs[r] # None, fs[gs[r]].ns = "info",
               IsRead(fs, gs[r])
        PROVE  fs[gs[r]].version >= ss[r]
    <3> DEFINE f == gs[r]
    <3>1. f \in Fetches /\ fs[f].version \in Nat /\ ss[r] \in Nat /\ ss[r] <= confirmed
      BY <2>1
    <3>2. CASE fs[f].version = tip
      BY <1>1, <3>1, <3>2
    <3>3. CASE /\ IsRead(fetch, f) /\ fetch[f].ns = "info"
               /\ fs[f].version = fetch[f].version
      <4>1. CASE f = got[r] /\ ss[r] = since[r]
        BY <1>2, <2>1, <3>3, <4>1 DEF PromisesFresh
      <4>2. CASE f \in ToSet(cache["info"])
        <5>1. fetch[f].version >= confirmed
          BY <1>2, <2>1, <3>3, <4>2 DEF CacheFresh
        <5> QED
          BY <1>1, <3>1, <3>3, <5>1
      <4> QED
        BY <2>1, <4>1, <4>2
    <3> QED
      BY <2>1, <3>1, <3>2, <3>3
  <2> QED
    BY <2>1 DEF PromisesFresh
<1> QED
  BY <1>3, <1>4 DEF Fresh

\* What Become leaves is as fresh.
LEMMA BecomeFresh ==
  ASSUME NEW fs, NEW ms, NEW gs, Become(fs, ms, gs), Sound(fs, ms, gs), UNCHANGED chain,
         tip \in Nat, Fresh(fs, ms, gs, since')
  PROVE  Fresh(fetch, cache, got, since)'
<1>1. /\ cache' = ms /\ got' = gs
      /\ \A f \in Fetches : fetch'[f] = fs[f] \/ fetch'[f] = NoFetch
      /\ \A f \in Fetches : InMap(ms, f) => fetch'[f] = fs[f]
      /\ \A r \in Requests : gs[r] \in Fetches => fetch'[gs[r]] = fs[gs[r]]
  BY BecomeKeeps DEF Sound
<1>2. Chain' = Chain /\ Positions' = Positions
  BY DEF chain, Chain, Positions
<1>3. TipsDiffer' = TipsDiffer /\ ChainGrows' = ChainGrows /\ \A m : MarkedAt(m)' = MarkedAt(m)
  BY <1>2 DEF TipsDiffer, ChainGrows, MarkedAt, chain
<1>4. \A e \in ToSet(ms["info"]) : fetch'[e] = fs[e]
  BY <1>1 DEF InMap, Sound, MapsOK, MapOK, ToSet, Namespaces
<1>5. VersionsOK(fetch)'
  <2>1. ASSUME NEW f \in Fetches
        PROVE  fetch'[f].version <= tip' /\ (IsRead(fetch', f) => fetch'[f].version >= 1)
    <3>1. CASE fetch'[f] = NoFetch
      BY <3>1, NoFetchOK DEF IsRead, chain
    <3>2. CASE fetch'[f] = fs[f]
      BY <3>2 DEF Fresh, VersionsOK, IsRead, chain
    <3> QED
      BY <1>1, <3>1, <3>2
  <2> QED
    BY <2>1 DEF VersionsOK
<1>6. CacheFresh(fetch, cache)'
  BY <1>1, <1>3, <1>4 DEF Fresh, CacheFresh, IsRead, chain
<1>7. PromisesFresh(fetch, got, since)'
  BY <1>1, <1>3 DEF Fresh, PromisesFresh, IsRead, Sound, PromisesOK
<1> QED
  BY <1>5, <1>6, <1>7 DEF Fresh

-----------------------------------------------------------------------------
\* Every step keeps the invariant.

LEMMA SoundFacts ==
  ASSUME IInv
  PROVE  /\ Sound(fetch, cache, got) /\ RequestsOK /\ BlocksOK
         /\ fetch \in [Fetches -> Fetched] /\ tip \in Nat /\ tip >= 1
         /\ confirmed \in Nat /\ confirmed <= tip
         /\ got \in [Requests -> Fetches \cup {None}]
         /\ \A f \in Fetches : /\ fetch[f].version \in Nat /\ fetch[f].version <= tip
                               /\ IsRead(fetch, f) => fetch[f].version >= 1
         /\ \A n \in Namespaces : \A e \in ToSet(cache[n]) :
              e \in Fetches /\ fetch[e].ns = n /\ fetch[e].state \notin {"free", "failed"}
         /\ "info" \in Namespaces
<1>1. Sound(fetch, cache, got) /\ RequestsOK /\ BlocksOK /\ VersionsOK(fetch)
  BY DEF IInv, Fresh
<1>2. fetch \in [Fetches -> Fetched] /\ got \in [Requests -> Fetches \cup {None}]
  BY <1>1 DEF Sound, FetchesOK, PromisesOK
<1>3. tip \in Nat /\ tip >= 1
  BY <1>1 DEF BlocksOK, Positions
<1>4. \A n \in Namespaces : \A e \in ToSet(cache[n]) :
        e \in Fetches /\ fetch[e].ns = n /\ fetch[e].state \notin {"free", "failed"}
  BY <1>1 DEF Sound, MapsOK, MapOK, ToSet
<1> QED
  BY <1>1, <1>2, <1>3, <1>4 DEF BlocksOK, VersionsOK, Fetched, Namespaces

\* A step of request r that leaves the blocks alone.
Moves(r) ==
  /\ UNCHANGED chain
  /\ at' \in [Requests -> {"idle", "rows", "answer"}]
  /\ since' \in [Requests -> Nat]
  /\ \A s \in Requests : since'[s] <= confirmed
  /\ \A s \in Requests \ {r} : at'[s] = at[s] /\ since'[s] = since[s]

LEMMA SameChain ==
  ASSUME UNCHANGED chain
  PROVE  /\ load' = load /\ tip' = tip /\ confirmed' = confirmed
         /\ BlocksOK => BlocksOK'
         /\ TipsDiffer' = TipsDiffer /\ ChainGrows' = ChainGrows
         /\ \A m : MarkedAt(m)' = MarkedAt(m)
<1>1. Chain' = Chain /\ Positions' = Positions
  BY DEF chain, Chain, Positions
<1> QED
  BY <1>1 DEF chain, BlocksOK, MarkedAt, TipsDiffer, ChainGrows

\* The step of a request, once its outcome is sound and its reads are fresh.
LEMMA RequestStep ==
  ASSUME IInv, NEW r \in Requests, Moves(r), NEW fs, NEW ms, NEW gs,
         Become(fs, ms, gs), Sound(fs, ms, gs), Fresh(fs, ms, gs, since'),
         \A s \in Requests \ {r} : gs[s] = got[s],
         at'[r] # "idle" => gs[r] # None
  PROVE  IInv'
<1>1. Sound(fetch, cache, got)'
  BY BecomeSound
<1>2. Fresh(fetch, cache, got, since)'
  BY SoundFacts, BecomeFresh DEF Moves
<1>3. BlocksOK' /\ confirmed' = confirmed
  BY SameChain, SoundFacts DEF Moves
<1>4. RequestsOK'
  BY <1>3, SoundFacts DEF Moves, Become, RequestsOK
<1> QED
  BY <1>1, <1>2, <1>3, <1>4 DEF IInv

LEMMA TouchFresh ==
  ASSUME IInv, NEW r \in Requests, NEW n \in Namespaces, NEW k, NEW e \in Entry(n, k), Moves(r)
  PROVE  Fresh(fetch, [cache EXCEPT ![n] = Touch(@, k, e)], [got EXCEPT ![r] = e], since')
<1> DEFINE ms == [cache EXCEPT ![n] = Touch(@, k, e)]
           gs == [got EXCEPT ![r] = e]
<1>1. /\ e \in Fetches /\ e \in ToSet(cache[n]) /\ fetch[e].ns = n
  BY EntryFacts, SoundFacts
<1>2. ToSet(ms["info"]) = ToSet(cache["info"])
  <2>1. Sound(fetch, cache, got)
    BY SoundFacts
  <2>2. Sound(fetch, ms, gs) /\ \A m \in Namespaces : ToSet(ms[m]) = ToSet(cache[m])
    BY <2>1, TouchSound
  <2> HIDE DEF ms
  <2> QED
    BY <2>2, SoundFacts
<1>3. \A s \in Requests : gs[s] = IF s = r THEN e ELSE got[s]
  BY SoundFacts
<1>4. \A s \in Requests : gs[s] # None =>
        /\ gs[s] \in Fetches
        /\ \/ gs[s] = got[s] /\ since'[s] = since[s]
           \/ gs[s] \in ToSet(cache["info"])
           \/ ~(fetch[gs[s]].ns = "info" /\ IsRead(fetch, gs[s]))
  BY <1>1, <1>3, SoundFacts DEF Moves
<1>5. \A f \in Fetches : fetch[f].version \in Nat
  BY SoundFacts
<1>6. VersionsOK(fetch)
  BY DEF IInv, Fresh
<1>7. \A g \in ToSet(ms["info"]) :
        g \in Fetches /\ fetch[g].ns = "info" /\ (g \in ToSet(cache["info"]) \/ ~IsRead(fetch, g))
  BY <1>2, SoundFacts
<1>8. \A s \in Requests : since'[s] \in Nat /\ since'[s] <= confirmed
  BY DEF Moves
<1> HIDE DEF ms, gs
<1>9. Fresh(fetch, ms, gs, since')
  BY <1>4, <1>5, <1>6, <1>7, <1>8, FreshStep
<1> QED
  BY <1>9 DEF ms, gs

LEMMA HitStep ==
  ASSUME IInv, NEW r \in Requests, NEW n \in Namespaces, NEW k, Hit(r, n, k), Moves(r)
  PROVE  IInv'
<1>1. PICK e \in Entry(n, k) :
        Become(fetch, [cache EXCEPT ![n] = Touch(@, k, e)], [got EXCEPT ![r] = e])
  BY DEF Hit
<1> DEFINE ms == [cache EXCEPT ![n] = Touch(@, k, e)]
           gs == [got EXCEPT ![r] = e]
<1>2. Sound(fetch, ms, gs) /\ Fresh(fetch, ms, gs, since')
  BY SoundFacts, TouchSound, TouchFresh
<1>3. e # None
  BY SoundFacts, EntryFacts, WalletCacheAssumption
<1>4. gs[r] = e /\ \A s \in Requests \ {r} : gs[s] = got[s]
  BY SoundFacts
<1> HIDE DEF ms, gs
<1>5. Become(fetch, ms, gs)
  BY <1>1 DEF ms, gs
<1> QED
  BY <1>2, <1>3, <1>4, <1>5, RequestStep

\* A list is computed from votes that have been read, any other miss waits.
LEMMA MissStep ==
  ASSUME IInv, NEW r \in Requests, NEW n \in Namespaces, NEW k \in Keys,
         NEW state \in {"waiting", "read"}, NEW version \in Nat, version <= tip,
         state = "read" => version >= 1 /\ n # "info",
         Miss(r, n, k, state, version), Moves(r)
  PROVE  IInv'
<1> DEFINE new == [NoFetch EXCEPT !.state = state, !.version = version, !.ns = n, !.key = k]
<1>1. PICK f \in Fetches : /\ fetch[f] = NoFetch
                           /\ Become([fetch EXCEPT ![f] = new],
                                     [cache EXCEPT ![n] = Store(@, k, f)],
                                     [got EXCEPT ![r] = f])
  BY DEF Miss
<1> DEFINE fs == [fetch EXCEPT ![f] = new]
           ms == [cache EXCEPT ![n] = Store(@, k, f)]
           gs == [got EXCEPT ![r] = f]
<1>2. Sound(fs, ms, gs)
  BY <1>1, SoundFacts, MissSound
<1>3. gs[r] = f /\ \A s \in Requests \ {r} : gs[s] = got[s]
  BY SoundFacts
<1>4. new.state = state /\ new.ns = n /\ new.version = version
  BY DEF NoFetch
<1>5. fs[f] = new /\ \A g \in Fetches \ {f} : fs[g] = fetch[g]
  BY SoundFacts
<1>6. \A m \in Namespaces : ToSet(ms[m]) \subseteq ToSet(cache[m]) \cup {f}
  <2>1. MapOK(fetch, n, cache[n]) /\ cache \in [Namespaces -> Seq(Fetches)]
    BY SoundFacts DEF Sound, MapsOK
  <2>2. f \notin ToSet(cache[n])
    BY <1>1, SoundFacts, NoFetchOK
  <2>3. ToSet(Store(cache[n], k, f)) \subseteq (ToSet(cache[n]) \ Keyed(k)) \cup {f}
    BY <2>1, <2>2, StoreOK
  <2> QED
    BY <2>1, <2>3
<1> HIDE DEF new, fs, ms, gs
<1>7. \A g \in Fetches : /\ fs[g].version \in Nat /\ fs[g].version <= tip
                         /\ IsRead(fs, g) => fs[g].version >= 1
  BY <1>4, <1>5, SoundFacts DEF IsRead
<1>8. ~(fs[f].ns = "info" /\ IsRead(fs, f))
  BY <1>4, <1>5 DEF IsRead
<1>9. \A g \in Fetches : IsRead(fs, g) /\ fs[g].ns = "info" =>
        IsRead(fetch, g) /\ fetch[g].ns = "info" /\ fs[g].version = fetch[g].version
  BY <1>5, <1>8 DEF IsRead
<1>10. \A e \in ToSet(ms["info"]) :
         e \in Fetches /\ fs[e].ns = "info" /\ (e \in ToSet(cache["info"]) \/ ~IsRead(fs, e))
  <2>1. \A e \in ToSet(ms["info"]) : e \in Fetches /\ fs[e].ns = "info"
    BY <1>2, SoundFacts DEF Sound, MapsOK, MapOK, ToSet
  <2> QED
    BY <1>6, <1>8, <2>1, SoundFacts
<1>11. \A s \in Requests : gs[s] # None =>
         /\ gs[s] \in Fetches
         /\ \/ gs[s] = got[s] /\ since'[s] = since[s]
            \/ gs[s] \in ToSet(cache["info"])
            \/ ~(fs[gs[s]].ns = "info" /\ IsRead(fs, gs[s]))
  BY <1>3, <1>8, SoundFacts DEF Moves
<1>12. Fresh(fs, ms, gs, since')
  <2>1. VersionsOK(fs) /\ \A s \in Requests : since'[s] \in Nat /\ since'[s] <= confirmed
    BY <1>7 DEF VersionsOK, Moves
  <2> QED
    BY <1>7, <1>9, <1>10, <1>11, <2>1, FreshStep
<1>13. Become(fs, ms, gs) /\ gs[r] # None
  BY <1>1, <1>3, WalletCacheAssumption DEF fs, ms, gs
<1> QED
  BY <1>2, <1>3, <1>12, <1>13, RequestStep

LEMMA StaleStep ==
  ASSUME IInv, NEW r \in Requests, NEW n \in Namespaces, n # "info", NEW k \in Keys,
         Stale(r, n, k), Moves(r)
  PROVE  IInv'
<1>1. PICK e \in Entry(n, k) :
        \/ /\ fetch[e].refreshing
           /\ Become(fetch, [cache EXCEPT ![n] = Touch(@, k, e)], [got EXCEPT ![r] = e])
        \/ /\ ~fetch[e].refreshing
           /\ \E f \in Fetches :
                /\ fetch[f] = NoFetch
                /\ Become([fetch EXCEPT ![e].refreshing = TRUE,
                             ![f] = [NoFetch EXCEPT !.state = "waiting", !.kind = "refresh",
                                                    !.ns = n, !.key = k, !.over = e]],
                          [cache EXCEPT ![n] = Touch(@, k, e)], [got EXCEPT ![r] = e])
  BY DEF Stale
<1> DEFINE ms == [cache EXCEPT ![n] = Touch(@, k, e)]
           gs == [got EXCEPT ![r] = e]
<1>2. /\ Sound(fetch, ms, gs) /\ Fresh(fetch, ms, gs, since')
      /\ \A m \in Namespaces : ToSet(ms[m]) = ToSet(cache[m])
  <2>1. Sound(fetch, cache, got)
    BY SoundFacts
  <2>2. Sound(fetch, ms, gs) /\ \A m \in Namespaces : ToSet(ms[m]) = ToSet(cache[m])
    BY <2>1, TouchSound
  <2>3. Fresh(fetch, ms, gs, since')
    BY TouchFresh
  <2> HIDE DEF ms, gs
  <2> QED
    BY <2>2, <2>3
<1>3. /\ e # None /\ e \in Fetches /\ fetch[e].key = k /\ fetch[e].ns = n
      /\ e \in ToSet(cache[n])
  BY SoundFacts, EntryFacts, WalletCacheAssumption
<1>4. gs[r] = e /\ \A s \in Requests \ {r} : gs[s] = got[s]
  BY SoundFacts
<1> HIDE DEF ms, gs
<1>5. CASE Become(fetch, ms, gs)
  BY <1>2, <1>3, <1>4, <1>5, RequestStep
<1>6. CASE ~fetch[e].refreshing /\ ~Become(fetch, ms, gs)
  <2>1. PICK f \in Fetches :
          /\ fetch[f] = NoFetch
          /\ Become([fetch EXCEPT ![e].refreshing = TRUE,
                       ![f] = [NoFetch EXCEPT !.state = "waiting", !.kind = "refresh",
                                              !.ns = n, !.key = k, !.over = e]], ms, gs)
    BY <1>1, <1>6 DEF ms, gs
  <2> DEFINE new == [NoFetch EXCEPT !.state = "waiting", !.kind = "refresh",
                                    !.ns = n, !.key = k, !.over = e]
             old == [fetch[e] EXCEPT !.refreshing = TRUE]
             fs == [fetch EXCEPT ![e].refreshing = TRUE, ![f] = new]
  <2>2. Sound(fs, ms, gs)
    BY <1>2, <1>3, <1>6, <2>1, RefreshSound
  <2>3. new.state = "waiting" /\ new.version = 0
    BY DEF NoFetch
  <2>4. e # f
    BY <1>3, <2>1, SoundFacts, NoFetchOK
  <2>5. /\ fs[f] = new /\ fs[e] = old
        /\ \A g \in Fetches \ {e, f} : fs[g] = fetch[g]
    BY <1>3, <2>4, SoundFacts
  <2>6. old.state = fetch[e].state /\ old.version = fetch[e].version /\ old.ns = fetch[e].ns
    BY <1>3, SoundFacts DEF Fetched
  <2> HIDE DEF new, old, fs
  <2>7. \A g \in Fetches \ {f} : /\ fs[g].state = fetch[g].state /\ fs[g].ns = fetch[g].ns
                                 /\ fs[g].version = fetch[g].version
    BY <2>5, <2>6
  <2>8. ~IsRead(fs, f) /\ fs[f].version = 0
    BY <2>3, <2>5 DEF IsRead
  <2>9. \A g \in Fetches : /\ fs[g].version \in Nat /\ fs[g].version <= tip
                           /\ IsRead(fs, g) => fs[g].version >= 1
    BY <2>7, <2>8, SoundFacts DEF IsRead
  <2>10. \A g \in Fetches : IsRead(fs, g) /\ fs[g].ns = "info" =>
           IsRead(fetch, g) /\ fetch[g].ns = "info" /\ fs[g].version = fetch[g].version
    BY <2>7, <2>8 DEF IsRead
  <2>11. \A g \in ToSet(ms["info"]) :
           g \in Fetches /\ fs[g].ns = "info" /\ (g \in ToSet(cache["info"]) \/ ~IsRead(fs, g))
    <3>1. f \notin ToSet(cache["info"])
      BY <2>1, SoundFacts, NoFetchOK
    <3> QED
      BY <1>2, <2>7, <3>1, SoundFacts
  <2>12. \A s \in Requests : gs[s] # None =>
           /\ gs[s] \in Fetches
           /\ \/ gs[s] = got[s] /\ since'[s] = since[s]
              \/ gs[s] \in ToSet(cache["info"])
              \/ ~(fs[gs[s]].ns = "info" /\ IsRead(fs, gs[s]))
    <3>1. fs[e].ns # "info"
      BY <1>3, <2>4, <2>7
    <3> QED
      BY <1>3, <1>4, <3>1, SoundFacts DEF Moves
  <2>13. Fresh(fs, ms, gs, since')
    <3>1. VersionsOK(fs) /\ \A s \in Requests : since'[s] \in Nat /\ since'[s] <= confirmed
      BY <2>9 DEF VersionsOK, Moves
    <3> QED
      BY <2>9, <2>10, <2>11, <2>12, <3>1, FreshStep
  <2>14. Become(fs, ms, gs)
    BY <2>1 DEF fs, new
  <2> QED
    BY <1>3, <1>4, <2>2, <2>13, <2>14, RequestStep
<1> QED
  BY <1>1, <1>5, <1>6 DEF ms, gs

\* The reads.
LEMMA AsksMoves ==
  ASSUME IInv, NEW r \in Requests, NEW route, NEW next \in {"rows", "answer"},
         Asks(r, route, next)
  PROVE  Moves(r)
<1>1. RequestsOK /\ confirmed \in Nat
  BY SoundFacts
<1> QED
  BY <1>1 DEF Asks, Moves, RequestsOK

LEMMA ReadStep ==
  ASSUME IInv, NEW r \in Requests, NEW k \in Keys,
         ReadInfo(r, k) \/ ReadSearch(r, k) \/ ReadRows(r, k)
  PROVE  IInv'
<1>1. "info" \in Namespaces /\ "search" \in Namespaces /\ "rows" \in Namespaces
  BY DEF Namespaces
<1>2. tip \in Nat /\ 0 <= tip
  BY SoundFacts
<1>3. Moves(r)
  BY AsksMoves DEF ReadInfo, ReadSearch, ReadRows
<1>4. CASE ReadInfo(r, k)
  BY <1>1, <1>2, <1>3, <1>4, HitStep, MissStep DEF ReadInfo
<1>5. CASE ReadSearch(r, k)
  BY <1>1, <1>2, <1>3, <1>5, HitStep, MissStep, StaleStep DEF ReadSearch
<1>6. CASE ReadRows(r, k)
  BY <1>1, <1>2, <1>3, <1>6, HitStep, MissStep DEF ReadRows
<1> QED
  BY <1>4, <1>5, <1>6

LEMMA ReadListStep ==
  ASSUME IInv, NEW r \in Requests, ReadList(r)
  PROVE  IInv'
<1> DEFINE f == got[r]
           k == fetch[f].key
<1>1. f \in Fetches /\ fetch[f].state = "done"
  <2>1. f # None /\ f \in Fetches \cup {None}
    BY SoundFacts DEF ReadList, RequestsOK
  <2> QED
    BY <2>1 DEF ReadList
<1>2. k \in Keys /\ fetch[f].version \in Nat /\ fetch[f].version >= 1 /\ fetch[f].version <= tip
  BY <1>1, SoundFacts DEF Sound, FetchesOK, IsRead
<1>3. Moves(r)
  BY SoundFacts DEF ReadList, Moves, RequestsOK
<1>4. "list" \in Namespaces
  BY DEF Namespaces
<1>5. Hit(r, "list", k) \/ Miss(r, "list", k, "read", fetch[f].version)
  BY DEF ReadList
<1> HIDE DEF k
<1> QED
  BY <1>2, <1>3, <1>4, <1>5, HitStep, MissStep

LEMMA ReplyStep ==
  ASSUME IInv, NEW r \in Requests, Reply(r)
  PROVE  IInv'
<1> DEFINE gs == [got EXCEPT ![r] = None]
<1>1. Moves(r) /\ at'[r] = "idle"
  BY SoundFacts DEF Reply, Moves, RequestsOK
<1>2. Sound(fetch, cache, gs)
  BY SoundFacts, ReplySound
<1>3. gs[r] = None /\ \A s \in Requests \ {r} : gs[s] = got[s]
  BY SoundFacts
<1> HIDE DEF gs
<1>4. \A s \in Requests : gs[s] # None =>
        gs[s] \in Fetches /\ gs[s] = got[s] /\ since'[s] = since[s]
  BY <1>1, <1>3, SoundFacts DEF Moves
<1>5. Fresh(fetch, cache, gs, since')
  <2>1. \A s \in Requests : since'[s] \in Nat /\ since'[s] <= confirmed
    BY <1>1 DEF Moves
  <2>2. VersionsOK(fetch) /\ \A f \in Fetches : fetch[f].version \in Nat
    BY SoundFacts DEF IInv, Fresh
  <2>3. \A e \in ToSet(cache["info"]) : e \in Fetches /\ fetch[e].ns = "info"
    BY SoundFacts
  <2> QED
    BY <1>4, <2>1, <2>2, <2>3, FreshStep
<1>6. Become(fetch, cache, gs)
  BY DEF Reply, gs
<1> QED
  BY <1>1, <1>2, <1>3, <1>5, <1>6, RequestStep

\* The fetches.
LEMMA SameFetchStep ==
  ASSUME IInv, NEW f \in Fetches, NEW new \in Fetched, fetch' = [fetch EXCEPT ![f] = new],
         UNCHANGED <<chain, cache, got, at, since>>,
         new.kind = fetch[f].kind, new.ns = fetch[f].ns, new.key = fetch[f].key,
         new.over = fetch[f].over, new.lost = fetch[f].lost,
         new.refreshing = fetch[f].refreshing,
         \/ /\ new.state = fetch[f].state /\ fetch[f].state # "free"
            /\ new.version = fetch[f].version
         \/ fetch[f].state = "waiting" /\ new.state = "read" /\ new.version = tip
  PROVE  IInv'
<1> DEFINE fs == [fetch EXCEPT ![f] = new]
<1>1. Sound(fs, cache, got)
  BY SoundFacts, SameLinksSound
<1>2. fs[f] = new /\ \A g \in Fetches \ {f} : fs[g] = fetch[g]
  BY SoundFacts
<1> HIDE DEF fs
<1>3. \A g \in Fetches : /\ fs[g].version \in Nat /\ fs[g].version <= tip
                         /\ IsRead(fs, g) => fs[g].version >= 1
                         /\ fs[g].ns = fetch[g].ns
                         /\ IsRead(fs, g) => \/ fs[g].version = tip
                                             \/ /\ IsRead(fetch, g)
                                                /\ fs[g].version = fetch[g].version
  BY <1>2, SoundFacts DEF IsRead
<1>4. Fresh(fs, cache, got, since)
  <2>1. VersionsOK(fs)
    BY <1>3 DEF VersionsOK
  <2>2. \A e \in ToSet(cache["info"]) : e \in Fetches /\ fs[e].ns = "info"
    BY <1>3, SoundFacts
  <2>3. \A s \in Requests : since[s] \in Nat /\ since[s] <= confirmed
    BY SoundFacts DEF RequestsOK
  <2>4. \A s \in Requests : got[s] # None => got[s] \in Fetches
    BY SoundFacts
  <2> QED
    BY <1>3, <2>1, <2>2, <2>3, <2>4, FreshStep
<1>5. fetch' = fs
  BY DEF fs
<1>6. TipsDiffer' = TipsDiffer /\ ChainGrows' = ChainGrows /\ \A m : MarkedAt(m)' = MarkedAt(m)
  BY SameChain
<1>7. Fresh(fetch, cache, got, since)'
  BY <1>4, <1>5, <1>6
     DEF Fresh, VersionsOK, CacheFresh, PromisesFresh, IsRead, chain
<1>8. BlocksOK' /\ RequestsOK'
  BY SoundFacts, SameChain DEF RequestsOK
<1> QED
  BY <1>1, <1>5, <1>7, <1>8 DEF IInv

LEMMA ProviderReadsStep ==
  ASSUME IInv, NEW f \in Fetches, ProviderReads(f)
  PROVE  IInv'
<1> DEFINE new == [fetch[f] EXCEPT !.state = "read", !.version = tip]
<1>1. fetch[f] \in Fetched /\ tip \in Nat
  BY SoundFacts
<1>2. /\ new \in Fetched /\ new.kind = fetch[f].kind /\ new.ns = fetch[f].ns
      /\ new.key = fetch[f].key /\ new.over = fetch[f].over /\ new.lost = fetch[f].lost
      /\ new.refreshing = fetch[f].refreshing /\ new.state = "read" /\ new.version = tip
  BY <1>1 DEF Fetched, FetchStates
<1>3. /\ fetch' = [fetch EXCEPT ![f] = new] /\ UNCHANGED <<chain, cache, got, at, since>>
      /\ fetch[f].state = "waiting"
  BY DEF ProviderReads
<1> HIDE DEF new
<1> QED
  BY <1>2, <1>3, SameFetchStep

LEMMA ExpireStep ==
  ASSUME IInv, NEW f \in Fetches, Expire(f)
  PROVE  IInv'
<1> DEFINE new == [fetch[f] EXCEPT !.expired = TRUE]
<1>1. fetch[f] \in Fetched /\ fetch[f].state # "free"
  BY SoundFacts DEF Expire
<1>2. /\ new \in Fetched /\ new.kind = fetch[f].kind /\ new.ns = fetch[f].ns
      /\ new.key = fetch[f].key /\ new.over = fetch[f].over /\ new.lost = fetch[f].lost
      /\ new.refreshing = fetch[f].refreshing /\ new.state = fetch[f].state
      /\ new.version = fetch[f].version
  BY <1>1 DEF Fetched
<1>3. fetch' = [fetch EXCEPT ![f] = new] /\ UNCHANGED <<chain, cache, got, at, since>>
  BY DEF Expire
<1> HIDE DEF new
<1> QED
  BY <1>1, <1>2, <1>3, SameFetchStep

\* A fetch ends, once its outcome is sound.
LEMMA EndStep ==
  ASSUME IInv, NEW fs, NEW ms, NEW gs, Become(fs, ms, gs), Sound(fs, ms, gs), UNCHANGED chain,
         \A g \in Fetches : /\ fs[g].version = fetch[g].version
                            /\ fs[g].ns = fetch[g].ns
                            /\ IsRead(fs, g) => IsRead(fetch, g),
         \A e \in ToSet(ms["info"]) : e \in ToSet(cache["info"]),
         \A r \in Requests : /\ gs[r] # None => gs[r] = got[r] /\ since'[r] = since[r]
                             /\ since'[r] \in {since[r], 0},
         RequestsOK'
  PROVE  IInv'
<1>1. VersionsOK(fs)
  BY SoundFacts DEF VersionsOK
<1>2. \A g \in Fetches : fs[g].version \in Nat
  BY SoundFacts
<1>3. \A g \in Fetches : IsRead(fs, g) /\ fs[g].ns = "info" =>
        IsRead(fetch, g) /\ fetch[g].ns = "info" /\ fs[g].version = fetch[g].version
  OBVIOUS
<1>4. \A e \in ToSet(ms["info"]) : e \in Fetches /\ fs[e].ns = "info"
  BY SoundFacts
<1>5. \A r \in Requests : since'[r] \in Nat /\ since'[r] <= confirmed
  BY SoundFacts DEF RequestsOK
<1>6. \A r \in Requests : gs[r] # None =>
        gs[r] \in Fetches /\ gs[r] = got[r] /\ since'[r] = since[r]
  BY SoundFacts
<1>7. Fresh(fs, ms, gs, since')
  BY <1>1, <1>2, <1>3, <1>4, <1>5, <1>6, FreshStep
<1>8. Fresh(fetch, cache, got, since)'
  BY <1>7, SoundFacts, BecomeFresh
<1>9. Sound(fetch, cache, got)' /\ BlocksOK'
  BY BecomeSound, SoundFacts, SameChain
<1> QED
  BY <1>8, <1>9 DEF IInv

LEMMA ResolveStep ==
  ASSUME IInv, NEW f \in Fetches, Resolve(f)
  PROVE  IInv'
<1> DEFINE n == fetch[f].ns
           k == fetch[f].key
           ms == [cache EXCEPT ![n] = Store(@, k, f)]
           fs == Resolved(f)
           new == [fetch[f] EXCEPT !.state = "done", !.over = None]
<1>1. /\ fetch[f].state = "read" /\ UNCHANGED <<chain, at, since>>
      /\ \/ (fetch[f].kind = "set" \/ ~StillThere(f)) /\ Become(fs, cache, got)
         \/ fetch[f].kind = "refresh" /\ StillThere(f) /\ Become(fs, ms, got)
  BY DEF Resolve, Resolved
<1>2. fetch[f] \in Fetched
  BY SoundFacts
<1>3. fs[f] = new /\ \A g \in Fetches \ {f} : fs[g] = fetch[g]
  BY SoundFacts DEF Resolved
<1>4. new.version = fetch[f].version /\ new.ns = fetch[f].ns
  BY <1>2 DEF Fetched
<1> HIDE DEF fs, new
<1>5. \A g \in Fetches : /\ fs[g].version = fetch[g].version /\ fs[g].ns = fetch[g].ns
                         /\ IsRead(fs, g) => IsRead(fetch, g)
  BY <1>1, <1>3, <1>4 DEF IsRead
<1>6. RequestsOK'
  BY <1>1, SoundFacts DEF RequestsOK, chain, Become
<1>7. \A r \in Requests : since'[r] = since[r]
  BY <1>1
<1>8. CASE (fetch[f].kind = "set" \/ ~StillThere(f)) /\ Become(fs, cache, got)
  <2>1. Sound(fs, cache, got)
    BY <1>1, <1>8, SoundFacts, ResolveSound DEF fs
  <2> QED
    BY <1>1, <1>5, <1>6, <1>7, <1>8, <2>1, EndStep
<1>9. CASE fetch[f].kind = "refresh" /\ StillThere(f) /\ Become(fs, ms, got)
  <2>1. Sound(fs, ms, got)
    BY <1>1, <1>9, SoundFacts, ResolveSound DEF fs
  <2>2. n # "info" /\ cache \in [Namespaces -> Seq(Fetches)]
    BY <1>9, SoundFacts DEF Sound, RefreshesOK, RefreshOK, MapsOK
  <2>3. ms["info"] = cache["info"]
    BY <2>2 DEF Namespaces
  <2> HIDE DEF ms
  <2> QED
    BY <1>1, <1>5, <1>6, <1>7, <1>9, <2>1, <2>3, EndStep
<1> QED
  BY <1>1, <1>8, <1>9

LEMMA FailStep ==
  ASSUME IInv, NEW f \in Fetches, Fail(f)
  PROVE  IInv'
<1> DEFINE fs == Failed(f)
           ms == [n \in Namespaces |-> Delete(cache[n], {f})]
           gs == [r \in Requests |-> IF got[r] = f THEN None ELSE got[r]]
<1>1. /\ fetch[f].state \in {"waiting", "read"} /\ Refused(f) /\ Become(fs, ms, gs)
      /\ UNCHANGED chain
  BY DEF Fail
<1>2. Sound(fs, ms, gs)
  BY <1>1, SoundFacts, FailSound
<1>3. ASSUME NEW g \in Fetches
      PROVE  /\ fs[g].version = fetch[g].version /\ fs[g].ns = fetch[g].ns
             /\ IsRead(fs, g) => IsRead(fetch, g)
  <2>1. fetch[g] \in Fetched
    BY SoundFacts
  <2>2. \/ fs[g] = [fetch[g] EXCEPT !.state = "failed", !.over = None]
        \/ fs[g] = [fetch[g] EXCEPT !.refreshing = FALSE]
        \/ fs[g] = [fetch[g] EXCEPT !.over = None]
        \/ fs[g] = fetch[g]
    BY DEF Failed
  <2> HIDE DEF fs
  <2> QED
    BY <2>1, <2>2 DEF Fetched, IsRead
<1>4. \A e \in ToSet(ms["info"]) : e \in ToSet(cache["info"])
  <2>1. MapOK(fetch, "info", cache["info"]) /\ "info" \in Namespaces
    BY SoundFacts DEF Sound, MapsOK
  <2>2. ToSet(Delete(cache["info"], {f})) = ToSet(cache["info"]) \ {f}
    BY <2>1, DeleteMap
  <2> QED
    BY <2>1, <2>2
<1>5. \A r \in Requests : /\ gs[r] = (IF got[r] = f THEN None ELSE got[r])
                          /\ at'[r] = (IF got[r] = f THEN "idle" ELSE at[r])
                          /\ since'[r] = (IF got[r] = f THEN 0 ELSE since[r])
  BY <1>1 DEF Refused
<1>6. RequestsOK'
  <2>1. /\ at' \in [Requests -> {"idle", "rows", "answer"}]
        /\ since' \in [Requests -> Nat]
    BY <1>1, SoundFacts DEF Refused, RequestsOK
  <2>2. got' = gs /\ confirmed' = confirmed
    BY <1>1 DEF Become, chain
  <2> HIDE DEF gs
  <2> QED
    BY <1>5, <2>1, <2>2, SoundFacts DEF RequestsOK
<1> HIDE DEF fs, ms, gs
<1>7. \A r \in Requests : /\ gs[r] # None => gs[r] = got[r] /\ since'[r] = since[r]
                          /\ since'[r] \in {since[r], 0}
  BY <1>5
<1> QED
  BY <1>1, <1>2, <1>3, <1>4, <1>6, <1>7, EndStep

\* The blocks.
LEMMA NewTipStep ==
  ASSUME IInv, NewTip
  PROVE  IInv'
<1>1. /\ load' = load /\ tip' = tip + 1 /\ tip < Len(Chain)
      /\ UNCHANGED <<answers, mark, confirmed, cache, fetch, got, at, since>>
  BY DEF NewTip, cached
<1>2. Chain' = Chain /\ Positions' = Positions
  BY <1>1 DEF Chain, Positions
<1>3. TipsDiffer' = TipsDiffer /\ ChainGrows' = ChainGrows /\ \A m : MarkedAt(m)' = MarkedAt(m)
  BY <1>1, <1>2 DEF TipsDiffer, ChainGrows, MarkedAt
<1>4. Len(Chain) \in Nat /\ tip \in Nat /\ tip \in Positions
  BY SoundFacts, ChainFacts DEF BlocksOK
<1>5. tip' \in Positions' /\ tip' \in Nat /\ 1..tip \subseteq 1..tip' /\ tip' \in Positions
  BY <1>1, <1>2, <1>4 DEF Positions
<1>6. BlocksOK'
  <2>1. answers \in [{"tip", "transaction"} -> Nat]
        /\ \A a \in {"tip", "transaction"} : answers[a] <= tip
    BY SoundFacts DEF BlocksOK
  <2>2. \A a \in {"tip", "transaction"} : answers[a] <= tip'
    BY <1>1, <1>4, <2>1
  <2>3. mark = NoMark \/ \E m \in 1..tip : MarkedAt(m)
    BY SoundFacts DEF BlocksOK
  <2>4. confirmed <= tip' /\ confirmed \in Nat
    BY <1>1, <1>4, SoundFacts
  <2> QED
    BY <1>1, <1>3, <1>5, <2>1, <2>2, <2>3, <2>4, SoundFacts DEF BlocksOK
<1>7. CacheFresh(fetch, cache)'
  <2>1. CacheFresh(fetch, cache)
    BY DEF IInv, Fresh
  <2>2. ASSUME TipsDiffer, NEW m \in 1..tip', MarkedAt(m)
        PROVE  m \in 1..tip
    <3>1. m \in Positions
      BY <1>4, <1>5, <2>2 DEF Positions
    <3>2. mark # NoMark
      BY <2>2, <3>1, SoundFacts, NoMarkFacts
    <3>3. PICK i \in 1..tip : MarkedAt(i)
      BY <3>2, SoundFacts DEF BlocksOK
    <3>4. i \in Positions
      BY <3>3, SoundFacts, ChainFacts
    <3>5. i = m
      BY <2>2, <3>1, <3>3, <3>4, SoundFacts, MarkedOnce
    <3> QED
      BY <3>3, <3>5
  <2> QED
    BY <1>1, <1>3, <2>1, <2>2 DEF CacheFresh, IsRead
<1>8. PromisesFresh(fetch, got, since)'
  BY <1>1, <1>3 DEF IInv, Fresh, PromisesFresh, IsRead
<1>9. VersionsOK(fetch)'
  <2>1. \A f \in Fetches : fetch[f].version <= tip'
    BY <1>1, <1>4, SoundFacts
  <2> QED
    BY <1>1, <2>1, SoundFacts DEF VersionsOK, IsRead
<1>10. Sound(fetch, cache, got)' /\ RequestsOK'
  BY <1>1, SoundFacts DEF RequestsOK
<1> QED
  BY <1>6, <1>7, <1>8, <1>9, <1>10 DEF IInv, Fresh

LEMMA AnswerStep ==
  ASSUME IInv, AnswerTip \/ \E i \in Positions : AnswerTransaction(i)
  PROVE  IInv'
<1>1. UNCHANGED <<load, tip, mark, confirmed, cache, fetch, got, at, since>>
  BY DEF AnswerTip, AnswerTransaction, cached
<1>2. /\ answers' \in [{"tip", "transaction"} -> Nat]
      /\ \A a \in {"tip", "transaction"} : answers'[a] <= tip
  BY SoundFacts DEF AnswerTip, AnswerTransaction, BlocksOK, Positions
<1>3. Chain' = Chain /\ Positions' = Positions
  BY <1>1 DEF Chain, Positions
<1>4. TipsDiffer' = TipsDiffer /\ ChainGrows' = ChainGrows /\ \A m : MarkedAt(m)' = MarkedAt(m)
  BY <1>1, <1>3 DEF TipsDiffer, ChainGrows, MarkedAt
<1>5. BlocksOK'
  BY <1>1, <1>2, <1>3, <1>4, SoundFacts DEF BlocksOK
<1>6. Fresh(fetch, cache, got, since)'
  BY <1>1, <1>4 DEF IInv, Fresh, VersionsOK, CacheFresh, PromisesFresh, IsRead
<1>7. Sound(fetch, cache, got)' /\ RequestsOK'
  BY <1>1, SoundFacts DEF RequestsOK
<1> QED
  BY <1>5, <1>6, <1>7 DEF IInv

\* What a clear leaves is fresh, whatever block is noted with it.
LEMMA ClearFresh ==
  ASSUME IInv, Clear, UNCHANGED <<load, tip, since>>
  PROVE  Fresh(fetch, cache, got, since)'
<1>1. /\ got' = got
      /\ cache' = [n \in Namespaces |-> <<>>]
      /\ \A f \in Fetches : /\ fetch'[f].state \in {fetch[f].state, "free"}
                            /\ fetch'[f].version \in {fetch[f].version, 0}
                            /\ fetch'[f].state # "free" =>
                                 /\ fetch'[f].version = fetch[f].version
                                 /\ fetch'[f].ns = fetch[f].ns
  BY SoundFacts, ClearSound
<1>2. ChainGrows' = ChainGrows
  BY DEF ChainGrows, Chain, Positions
<1>3. VersionsOK(fetch)'
  BY <1>1, SoundFacts DEF VersionsOK, IsRead
<1>4. CacheFresh(fetch, cache)'
  <2>1. ToSet(cache'["info"]) = {}
    BY <1>1, SoundFacts DEF ToSet
  <2> QED
    BY <2>1 DEF CacheFresh
<1>5. PromisesFresh(fetch, got, since)'
  <2>1. PromisesFresh(fetch, got, since)
    BY DEF IInv, Fresh
  <2>2. ASSUME ChainGrows, NEW r \in Requests, got[r] # None, fetch'[got[r]].ns = "info",
               IsRead(fetch', got[r])
        PROVE  fetch'[got[r]].version >= since[r]
    <3>1. got[r] \in Fetches
      BY <2>2, SoundFacts
    <3>2. /\ fetch'[got[r]].version = fetch[got[r]].version
          /\ fetch'[got[r]].ns = fetch[got[r]].ns
          /\ IsRead(fetch, got[r])
      BY <1>1, <2>2, <3>1 DEF IsRead
    <3> QED
      BY <2>1, <2>2, <3>1, <3>2 DEF PromisesFresh
  <2> QED
    BY <1>1, <1>2, <2>2 DEF PromisesFresh
<1> QED
  BY <1>3, <1>4, <1>5 DEF Fresh

\* noteTip(): the block noted already is the one its entries were read at, or
\* they go.
LEMMA NoteTipStep ==
  ASSUME IInv, NoteTip
  PROVE  IInv'
<1>1. PICK a \in 1..tip :
        /\ mark' = Chain[a] /\ UNCHANGED <<load, tip, confirmed, at, since>>
        /\ answers' = [answers EXCEPT !["tip"] = 0]
        /\ \/ SameBlock(Chain[a], mark) /\ UNCHANGED cached
           \/ ~SameBlock(Chain[a], mark) /\ Clear
  <2>1. answers["tip"] \in 1..tip
    BY SoundFacts DEF NoteTip, BlocksOK
  <2> QED
    BY <2>1 DEF NoteTip
<1>2. Chain' = Chain /\ Positions' = Positions /\ a \in Positions
  BY <1>1, SoundFacts, ChainFacts DEF Chain, Positions
<1>3. TipsDiffer' = TipsDiffer /\ ChainGrows' = ChainGrows
  BY <1>2 DEF TipsDiffer, ChainGrows
<1>4. MarkedAt(a)'
  BY <1>1, <1>2 DEF MarkedAt
<1>5. BlocksOK'
  BY <1>1, <1>2, <1>4, SoundFacts DEF BlocksOK
<1>6. CASE Clear
  <2>1. Sound(fetch, cache, got)' /\ got' = got
    BY <1>6, SoundFacts, ClearSound
  <2>2. Fresh(fetch, cache, got, since)'
    BY <1>1, <1>6, ClearFresh
  <2>3. RequestsOK'
    BY <1>1, <2>1, SoundFacts DEF RequestsOK
  <2> QED
    BY <1>5, <2>1, <2>2, <2>3 DEF IInv
<1>7. CASE SameBlock(Chain[a], mark) /\ UNCHANGED cached
  <2>1. UNCHANGED <<cache, fetch, got>>
    BY <1>7 DEF cached
  <2>2. CacheFresh(fetch, cache) /\ PromisesFresh(fetch, got, since) /\ VersionsOK(fetch)
    BY DEF IInv, Fresh
  <2>3. ASSUME TipsDiffer, NEW m \in 1..tip, MarkedAt(m)',
               NEW e \in ToSet(cache["info"]), IsRead(fetch, e)
        PROVE  fetch[e].version >= m
    <3>1. m \in Positions /\ MarkedAt(a)' /\ BlocksOK' /\ TipsDiffer' /\ a \in Positions'
      BY <1>2, <1>3, <1>4, <1>5, <2>3, SoundFacts, ChainFacts
    <3>2. Chain[m].block = Chain[a].block /\ Chain[m].slot = Chain[a].slot
      <4>1. Chain[m] \in [block : Nat \ {0}, slot : Nat, hash : Hashes]
        BY <3>1, SoundFacts, ChainFacts
      <4>2. Chain[a] = Chain[m] \/ Chain[a] = [Chain[m] EXCEPT !.hash = None]
        BY <1>1, <1>2, <2>3 DEF MarkedAt
      <4> QED
        BY <4>1, <4>2
    <3>3. m = a
      BY <1>2, <2>3, <3>1, <3>2 DEF TipsDiffer
    <3>4. PICK i \in 1..tip : MarkedAt(i)
      BY <1>2, <1>7, SoundFacts, NoMarkFacts DEF BlocksOK
    <3>5. i = a
      BY <1>2, <1>7, <2>3, <3>4, SoundFacts, ChainFacts, MarkedOnce
    <3> QED
      BY <2>2, <2>3, <3>3, <3>4, <3>5 DEF CacheFresh
  <2>4. Fresh(fetch, cache, got, since)'
    <3>1. CacheFresh(fetch, cache)'
      BY <1>1, <1>3, <2>1, <2>2, <2>3 DEF CacheFresh, IsRead
    <3> QED
      BY <1>1, <1>3, <2>1, <2>2, <3>1 DEF Fresh, PromisesFresh, VersionsOK, IsRead
  <2>5. Sound(fetch, cache, got)' /\ RequestsOK'
    BY <1>1, <2>1, SoundFacts DEF RequestsOK
  <2> QED
    BY <1>5, <2>4, <2>5 DEF IInv
<1> QED
  BY <1>1, <1>6, <1>7

\* noteBlock(): on a chain that grows, what was read at the noted block has
\* every block up to it.
LEMMA NoteBlockStep ==
  ASSUME IInv, NoteBlock
  PROVE  IInv'
<1>1. PICK i \in 1..tip :
        /\ UNCHANGED <<load, tip, at, since>>
        /\ answers' = [answers EXCEPT !["transaction"] = 0]
        /\ confirmed' = IF i > confirmed THEN i ELSE confirmed
        /\ \/ Chain[i].block <= mark.block /\ UNCHANGED <<mark, cached>>
           \/ mark' = [Chain[i] EXCEPT !.hash = None] /\ Clear
  <2>1. answers["transaction"] \in 1..tip
    BY SoundFacts DEF NoteBlock, BlocksOK
  <2> QED
    BY <2>1 DEF NoteBlock
<1>2. Chain' = Chain /\ Positions' = Positions /\ i \in Positions /\ tip' = tip
  BY <1>1, SoundFacts, ChainFacts DEF Chain, Positions
<1>3. TipsDiffer' = TipsDiffer /\ ChainGrows' = ChainGrows
  BY <1>2 DEF TipsDiffer, ChainGrows
<1>4. confirmed' \in Nat /\ confirmed' <= tip /\ confirmed <= confirmed'
  BY <1>1, SoundFacts
<1>5. RequestsOK' <=> /\ \A r \in Requests : at[r] # "idle" => got'[r] # None
  BY <1>1, <1>4, SoundFacts DEF RequestsOK
<1>6. mark' = mark \/ MarkedAt(i)'
  BY <1>1, <1>2 DEF MarkedAt
<1>7. BlocksOK'
  <2>1. mark' = mark => (\A m : MarkedAt(m)' = MarkedAt(m))
    BY <1>2 DEF MarkedAt
  <2>2. mark = NoMark \/ \E m \in 1..tip : MarkedAt(m)
    BY SoundFacts DEF BlocksOK
  <2>3. mark' = NoMark \/ \E m \in 1..tip : MarkedAt(m)'
    BY <1>1, <1>6, <2>1, <2>2 DEF NoMark
  <2> QED
    BY <1>1, <1>2, <1>4, <2>3, SoundFacts DEF BlocksOK
<1>8. CASE Clear
  <2>1. Sound(fetch, cache, got)' /\ got' = got
    BY <1>8, SoundFacts, ClearSound
  <2>2. Fresh(fetch, cache, got, since)'
    BY <1>1, <1>8, ClearFresh
  <2>3. RequestsOK'
    BY <1>5, <2>1, SoundFacts DEF RequestsOK
  <2> QED
    BY <1>7, <2>1, <2>2, <2>3 DEF IInv
<1>9. CASE Chain[i].block <= mark.block /\ UNCHANGED <<mark, cached>>
  <2>1. UNCHANGED <<cache, fetch, got>>
    BY <1>9 DEF cached
  <2>2. CacheFresh(fetch, cache) /\ PromisesFresh(fetch, got, since) /\ VersionsOK(fetch)
    BY DEF IInv, Fresh
  <2>3. \A m : MarkedAt(m)' = MarkedAt(m)
    BY <1>2, <1>9 DEF MarkedAt
  <2>4. ASSUME ChainGrows, NEW e \in ToSet(cache["info"]), IsRead(fetch, e)
        PROVE  fetch[e].version >= confirmed'
    <3>1. Chain[i].block \in Nat \ {0}
      BY <1>2, SoundFacts, ChainFacts
    <3>2. mark # NoMark
      BY <1>9, <3>1 DEF NoMark
    <3>3. PICK m \in 1..tip : MarkedAt(m)
      BY <3>2, SoundFacts DEF BlocksOK
    <3>4. m \in Positions /\ mark.block = Chain[m].block /\ Chain[m].block \in Nat
      BY <3>3, SoundFacts, ChainFacts, MarkFacts
    <3>5. i <= m
      <4>1. CASE m < i
        <5>1. Chain[m].block < Chain[i].block
          BY <1>2, <2>4, <3>4, <4>1 DEF ChainGrows
        <5> QED
          BY <1>9, <3>1, <3>4, <5>1
      <4> QED
        BY <1>1, <3>3, <4>1
    <3>6. fetch[e].version >= m
      BY <2>2, <2>4, <3>3, GrowingDiffers, SoundFacts DEF CacheFresh
    <3>7. fetch[e].version >= confirmed /\ fetch[e].version \in Nat
      BY <2>2, <2>4, SoundFacts DEF CacheFresh
    <3> QED
      BY <1>1, <3>3, <3>5, <3>6, <3>7, SoundFacts
  <2>5. CacheFresh(fetch, cache)'
    BY <1>1, <1>3, <2>1, <2>2, <2>3, <2>4 DEF CacheFresh, IsRead
  <2>6. Fresh(fetch, cache, got, since)'
    BY <1>1, <1>3, <2>1, <2>2, <2>5 DEF Fresh, PromisesFresh, VersionsOK, IsRead
  <2>7. Sound(fetch, cache, got)' /\ RequestsOK'
    BY <1>5, <2>1, SoundFacts DEF RequestsOK
  <2> QED
    BY <1>7, <2>6, <2>7 DEF IInv
<1> QED
  BY <1>1, <1>8, <1>9

-----------------------------------------------------------------------------
\* The theorems.

LEMMA InitIInv == Init => IInv
<1> SUFFICES ASSUME Init
             PROVE  IInv
  OBVIOUS
<1> USE NoFetchOK, WalletCacheAssumption
<1>1. FetchesOK(fetch) /\ Running(fetch) = {}
  BY DEF Init, FetchesOK, Running
<1>2. \A f : ~InMap(cache, f)
  BY DEF Init, InMap, ToSet
<1>3. MapsOK(fetch, cache)
  BY DEF Init, MapsOK, MapOK, NoDup, ToSet
<1>4. PromisesOK(fetch, got)
  BY DEF Init, PromisesOK
<1>5. RefreshesOK(fetch, cache)
  BY <1>1, <1>2 DEF Init, RefreshesOK, RefreshOK, MarksOK
<1>6. RequestsOK
  BY DEF Init, RequestsOK
<1>7. BlocksOK
  <2> DEFINE Tips == [block : Nat \ {0}, slot : Nat, hash : Hashes]
  <2>1. Chain \in Seq(Tips) \ {<<>>}
    BY DEF Init, Chain
  <2> HIDE DEF Tips, Chain
  <2>2. Len(Chain) \in Nat \ {0}
    BY <2>1
  <2> QED
    BY <2>2 DEF Init, BlocksOK, Positions
<1>8. Fresh(fetch, cache, got, since)
  BY DEF Init, Fresh, VersionsOK, CacheFresh, PromisesFresh, IsRead, ToSet, Namespaces
<1> QED
  BY <1>1, <1>3, <1>4, <1>5, <1>6, <1>7, <1>8 DEF IInv, Sound

LEMMA StepIInv == IInv /\ [Next]_vars => IInv'
<1> SUFFICES ASSUME IInv, [Next]_vars
             PROVE  IInv'
  OBVIOUS
<1>1. ASSUME NEW r \in Requests, NEW k \in Keys,
             ReadInfo(r, k) \/ ReadSearch(r, k) \/ ReadRows(r, k)
      PROVE  IInv'
  BY <1>1, ReadStep
<1>2. ASSUME NEW r \in Requests, ReadList(r)
      PROVE  IInv'
  BY <1>2, ReadListStep
<1>3. ASSUME NEW r \in Requests, Reply(r)
      PROVE  IInv'
  BY <1>3, ReplyStep
<1>4. ASSUME NEW f \in Fetches, ProviderReads(f)
      PROVE  IInv'
  BY <1>4, ProviderReadsStep
<1>5. ASSUME NEW f \in Fetches, Resolve(f)
      PROVE  IInv'
  BY <1>5, ResolveStep
<1>6. ASSUME NEW f \in Fetches, Fail(f)
      PROVE  IInv'
  BY <1>6, FailStep
<1>7. ASSUME NEW f \in Fetches, Expire(f)
      PROVE  IInv'
  BY <1>7, ExpireStep
<1>8. CASE NewTip
  BY <1>8, NewTipStep
<1>9. CASE AnswerTip \/ \E i \in Positions : AnswerTransaction(i)
  BY <1>9, AnswerStep
<1>10. CASE NoteTip
  BY <1>10, NoteTipStep
<1>11. CASE NoteBlock
  BY <1>11, NoteBlockStep
<1>12. CASE UNCHANGED vars
  <2>1. UNCHANGED <<load, tip, answers, mark, confirmed, cache, fetch, got, at, since>>
    BY <1>12 DEF vars, chain, cached
  <2> QED
    BY <2>1 DEF IInv, RequestsOK, BlocksOK, Fresh, VersionsOK, CacheFresh, PromisesFresh,
                IsRead, MarkedAt, TipsDiffer, ChainGrows, Chain, Positions
<1> QED
  BY <1>1, <1>2, <1>3, <1>4, <1>5, <1>6, <1>7, <1>8, <1>9, <1>10, <1>11, <1>12 DEF Next

\* The invariant on which the theorems below rest holds in every state, for
\* every number of requests, wallets and fetches, every chain and every limit.
THEOREM Inductive == Spec => []IInv
<1>1. Init => IInv
  BY InitIInv
<1>2. IInv /\ [Next]_vars => IInv'
  BY StepIInv
<1> QED
  BY <1>1, <1>2, PTL DEF Spec

\* A Map never holds two entries of one key or more than the limit, and what
\* every variable holds is of its kind.
THEOREM TypeCorrect == Spec => []TypeOK
<1>1. IInv => TypeOK
  <2> SUFFICES ASSUME IInv
               PROVE  TypeOK
    OBVIOUS
  <2> USE SoundFacts
  <2>1. load \in Workloads /\ tip \in Positions /\ confirmed \in Positions \cup {0}
    BY DEF BlocksOK, Positions
  <2>2. answers \in [{"tip", "transaction"} -> Positions \cup {0}]
    <3>1. /\ answers \in [{"tip", "transaction"} -> Nat]
          /\ \A a \in {"tip", "transaction"} : answers[a] <= tip
      BY DEF BlocksOK
    <3>2. \A a \in {"tip", "transaction"} : answers[a] \in Positions \cup {0}
      BY <2>1, <3>1 DEF Positions
    <3> QED
      BY <3>1, <3>2
  <2>3. mark \in {NoMark} \cup {Chain[i] : i \in Positions}
                   \cup {[Chain[i] EXCEPT !.hash = None] : i \in Positions}
    <3>1. mark = NoMark \/ \E m \in Positions : MarkedAt(m)
      BY ChainFacts DEF BlocksOK
    <3> QED
      BY <3>1 DEF MarkedAt
  <2>4. /\ cache \in [Namespaces -> Seq(Fetches)]
        /\ \A n \in Namespaces : MapOK(fetch, n, cache[n])
    BY DEF Sound, MapsOK
  <2>5. ASSUME NEW n \in Namespaces
        PROVE  /\ Len(cache[n]) <= MaxEntries
               /\ \A i, j \in DOMAIN cache[n] :
                    fetch[cache[n][i]].key = fetch[cache[n][j]].key => i = j
    BY <2>4 DEF MapOK, NoDup, ToSet
  <2>6. fetch \in [Fetches ->
          [state : FetchStates, kind : {"set", "refresh"}, ns : Namespaces,
           key : Keys \cup {None}, version : Positions \cup {0}, over : Fetches \cup {None},
           lost : BOOLEAN, expired : BOOLEAN, refreshing : BOOLEAN]]
    <3>1. \A f \in Fetches : fetch[f] \in Fetched /\ fetch[f].version \in Positions \cup {0}
      BY <2>1 DEF Positions
    <3>2. \A f \in Fetches : fetch[f] \in
            [state : FetchStates, kind : {"set", "refresh"}, ns : Namespaces,
             key : Keys \cup {None}, version : Positions \cup {0}, over : Fetches \cup {None},
             lost : BOOLEAN, expired : BOOLEAN, refreshing : BOOLEAN]
      BY <3>1 DEF Fetched
    <3> QED
      BY <3>2
  <2>7. at \in [Requests -> {"idle", "rows", "answer"}]
        /\ since \in [Requests -> Positions \cup {0}]
    <3>1. \A r \in Requests : since[r] \in Positions \cup {0}
      BY <2>1 DEF RequestsOK, Positions
    <3> QED
      BY <3>1 DEF RequestsOK
  <2> QED
    BY <2>1, <2>2, <2>3, <2>4, <2>5, <2>6, <2>7 DEF TypeOK
<1> QED
  BY <1>1, Inductive, PTL

\* As long as the chain grows, a client that was told of its transaction's block
\* and reads the wallet's state through one getOrSet gets an answer of that
\* block or a later one: whoever joins whose fetch, and whatever is evicted,
\* cleared or fails in between.
THEOREM PlainReadsAreFreshHolds == Spec => []PlainReadsAreFresh
<1>1. IInv => PlainReadsAreFresh
  <2> SUFFICES ASSUME IInv, ChainGrows, NEW r \in Requests, ReadsThePast(r),
                      fetch[got[r]].ns = "info"
               PROVE  FALSE
    BY DEF PlainReadsAreFresh
  <2>1. got[r] # None /\ got[r] \in Fetches /\ since[r] \in Nat
    BY SoundFacts DEF ReadsThePast, RequestsOK
  <2>2. fetch[got[r]].version >= since[r] /\ fetch[got[r]].version \in Nat
    BY <2>1, SoundFacts DEF IInv, Fresh, PromisesFresh, IsRead, ReadsThePast
  <2> QED
    BY <2>1, <2>2 DEF ReadsThePast
<1> QED
  BY <1>1, Inductive, PTL

\* Through every fork and rollback: once the cache has noted the provider's tip,
\* nothing one getOrSet has cached was read from a block off the chain.
THEOREM SettledCacheIsOnChainHolds == Spec => []SettledCacheIsOnChain
<1>1. IInv => SettledCacheIsOnChain
  <2> SUFFICES ASSUME IInv, TipsDiffer, SameBlock(mark, Chain[tip]),
                      NEW e \in ToSet(cache["info"]), fetch[e].state = "done"
               PROVE  OnChain(fetch[e].version, tip)
    BY DEF SettledCacheIsOnChain
  <2>1. tip \in Positions /\ BlocksOK
    BY SoundFacts DEF BlocksOK
  <2>2. PICK m \in 1..tip : MarkedAt(m)
    BY <2>1, NoMarkFacts DEF BlocksOK
  <2>3. m = tip
    BY <2>1, <2>2, ChainFacts, MarkedOnce
  <2>4. fetch[e].version >= tip
    BY <2>2, <2>3 DEF IInv, Fresh, CacheFresh, IsRead
  <2>5. fetch[e].version \in Nat /\ tip \in Nat
    BY SoundFacts
  <2> QED
    BY <2>4, <2>5 DEF OnChain
<1> QED
  BY <1>1, Inductive, PTL

\* No failed promise is left in a Map: the next reader asks again.
THEOREM NoFailureIsKeptHolds == Spec => []NoFailureIsKept
<1>1. IInv => NoFailureIsKept
  BY SoundFacts DEF NoFailureIsKept, Entries
<1> QED
  BY <1>1, Inductive, PTL

\* An entry marked refreshing has one refresh under way, in its own Map, that
\* will unmark or replace it.
THEOREM OneRefreshPerMarkHolds == Spec => []OneRefreshPerMark
<1>1. IInv => OneRefreshPerMark
  <2> SUFFICES ASSUME IInv
               PROVE  OneRefreshPerMark
    OBVIOUS
  <2>1. MarksOK(fetch, cache) /\ \A f \in Fetches : RefreshOK(fetch, cache, f)
    BY SoundFacts DEF Sound, RefreshesOK
  <2>2. \A f \in Running(fetch) : f \in Fetches
    BY DEF Running
  <2>3. ASSUME NEW e \in Entries, fetch[e].refreshing
        PROVE  \E f \in Running(fetch) : /\ fetch[f].kind = "refresh" /\ fetch[f].over = e
                                         /\ ~fetch[f].lost
    <3>1. e \in Fetches /\ InMap(cache, e) /\ e # None
      BY SoundFacts, WalletCacheAssumption DEF Entries, InMap
    <3>2. PICK f \in Running(fetch) : fetch[f].over = e /\ ~fetch[f].lost
      BY <2>1, <2>3, <3>1 DEF MarksOK
    <3> QED
      BY <2>1, <2>2, <3>1, <3>2 DEF RefreshOK
  <2> QED
    BY <2>1, <2>2, <2>3 DEF OneRefreshPerMark, MarksOK
<1> QED
  BY <1>1, Inductive, PTL
=============================================================================
