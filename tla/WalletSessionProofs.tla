------------------------- MODULE WalletSessionProofs -------------------------
(***************************************************************************)
(* The safety of the wallet's page and of the transaction it watches, for  *)
(* any number of wallets, keys, transactions and overlapping calls.        *)
(***************************************************************************)
EXTENDS WalletSession, FiniteSetTheorems, TLAPS

Transactions == Tx \cup {None}
Renderings == [api : Wallet \cup {None}, key : Slots, tx : Transactions]
Checks == [at : {"off", "idle", "status", "refetch", "wait"}, key : Slots,
           attempts : 0..MaxAttempts]
TornChecks == [tx : Tx, key : Slots]
Enablings == [at : {"idle", "asked", "attached", "keyed", "stuck"}, wallet : Wallet \cup {None}]
Reconciles == [asking : BOOLEAN, unconfirmed : Registrations]
Flowing == [at : {"idle", "signing", "sent"}, key : Slots, tx : Transactions, registers : Slots]

TornIsFinite == IsFiniteSet(torn)

\* A call of buildSignSubmitConwayCertTx has a transaction, and one that awaits
\* the wallet's answer has sent it.
FlowsHaveTx ==
  \A f \in Flows : /\ flow[f].at # "idle" => flow[f].tx \in Tx
                   /\ flow[f].at = "sent" => flow[f].tx \in sent

EnablingHasWallet == enabling.at \in {"asked", "attached", "keyed"} => enabling.wallet \in Wallet

AttemptsLeft ==
  /\ check.at \in {"idle", "status"} => check.attempts = 0
  /\ check.at = "refetch" => check.attempts < MaxAttempts

ShownIsCurrent == ~renewed => transaction = shown.tx

\* A refetch is asked for what landed only, and so is success.
SuccessLanded ==
  /\ succeeded \subseteq landed
  /\ check.at \in {"refetch", "wait"} => shown.tx \in landed
  /\ \A c \in torn : c.tx \in landed

\* The effect resets the key that stores what it watches, or nothing.
WatchesStored == ~raced /\ check.at # "off" => stored[check.key] \in {None, shown.tx}

\* A registration the reconcile effect may drop is not reported, nor will be
\* before the effect runs again.
DoubtIsKept ==
  reconcile.asking =>
    /\ shown.tx = None
    /\ \A k \in StakeKey : LET tx == reconcile.unconfirmed[k] IN
         tx # None => tx \notin succeeded /\ \A c \in torn : c.tx # tx

IInv ==
  /\ TypeOK /\ TornIsFinite /\ FlowsHaveTx /\ EnablingHasWallet /\ AttemptsLeft
  /\ ShownIsCurrent /\ SuccessLanded /\ WatchesStored /\ DoubtIsKept /\ NothingLost


LEMMA TypeParts ==
  TypeOK <=>
    /\ walletApi \in Wallet \cup {None} /\ stakeKey \in Slots
    /\ transaction \in Transactions /\ renewed \in BOOLEAN
    /\ shown \in Renderings /\ check \in Checks /\ (check.at # "off" => shown.tx # None)
    /\ torn \subseteq TornChecks /\ Cardinality(torn) <= MaxTorn
    /\ stored \in [Slots -> Transactions]
    /\ landed \subseteq Tx /\ late \subseteq recorded /\ recorded \subseteq Tx
    /\ succeeded \subseteq Tx /\ failed \subseteq Tx /\ raced \in BOOLEAN
    /\ enabling \in Enablings /\ stakeKeys \subseteq StakeKey /\ listed \in BOOLEAN
    /\ sessionRegisteredStakeKeys \in Registrations
    /\ rendered \in [listed : BOOLEAN, registered : Registrations]
    /\ reconcile \in Reconciles
    /\ saved \in [name : Wallet \cup {None}, key : Slots]
    /\ flow \in [Flows -> Flowing] /\ registers \in [Tx -> Slots]
    /\ landed \cup recorded \subseteq sent /\ sent \subseteq Tx /\ connects \in 0..MaxConnects
BY DEF TypeOK, PendingTypeOK, Transactions, Renderings, Checks, TornChecks, Enablings,
       Reconciles, Flowing

LEMMA Blank ==
  /\ NoCheck \in Checks /\ NoCheck.at = "off"
  /\ NotShown \in Renderings /\ NotShown.tx = None
  /\ NoneRegistered \in Registrations
  /\ NoFlow \in Flowing /\ NoFlow.at = "idle"
  /\ NoReconcile \in Reconciles /\ ~NoReconcile.asking
  /\ NotEnabling \in Enablings /\ NotEnabling.at = "idle"
  /\ NothingSaved \in [name : Wallet \cup {None}, key : Slots]
BY PendingAssumption
   DEF NoCheck, NotShown, NoneRegistered, NoFlow, NoReconcile, NotEnabling, NothingSaved, Checks,
       Renderings, Registrations, Flowing, Reconciles, Enablings, Slots, Transactions

LEMMA InitIInv == Init => IInv
<1> SUFFICES ASSUME Init PROVE IInv
  OBVIOUS
<1>1. TypeOK
  <2>1. IsFiniteSet({}) /\ Cardinality({}) = 0
    BY FS_EmptySet
  <2>2. flow \in [Flows -> Flowing]
    BY Blank DEF Init
  <2>3. stored \in [Slots -> Transactions] /\ registers \in [Tx -> Slots]
    BY DEF Init, PendingInit, Transactions, Slots
  <2>4. rendered \in [listed : BOOLEAN, registered : Registrations]
    BY Blank DEF Init
  <2>5. None \in Transactions /\ None \in Slots /\ 0 <= MaxTorn /\ 0 \in 0..MaxConnects
    BY PendingAssumption, WalletAssumption DEF Transactions, Slots
  <2> QED
    BY <2>1, <2>2, <2>3, <2>4, <2>5, Blank, TypeParts DEF Init, PendingInit
<1>2. IsFiniteSet({})
  BY FS_EmptySet
<1> QED
  BY <1>1, <1>2, Blank
     DEF IInv, Init, PendingInit, TornIsFinite, FlowsHaveTx, EnablingHasWallet, AttemptsLeft,
         ShownIsCurrent, SuccessLanded, WatchesStored, DoubtIsKept, NothingLost

(***************************************************************************)
(* checkTransaction().                                                     *)
(***************************************************************************)
\* What no check changes.
Elsewhere == <<session, flow, registers, sent, connects>>

\* A check that goes on under the same key.
LEMMA CheckGoesOn ==
  ASSUME IInv, check.at # "off", Silent, UNCHANGED Elsewhere,
         NEW place \in {"idle", "status", "refetch", "wait"}, NEW n \in 0..MaxAttempts,
         check' = [check EXCEPT !.at = place, !.attempts = n],
         place \in {"idle", "status"} => n = 0, place = "refetch" => n < MaxAttempts,
         place \in {"refetch", "wait"} => shown.tx \in landed
  PROVE  IInv'
<1>1. check' \in Checks /\ check'.at = place /\ check'.attempts = n /\ check'.key = check.key
  BY TypeParts DEF IInv, Checks
<1>2. TypeOK'
  BY <1>1 DEF IInv, Silent, world, alerts, Elsewhere, session, TypeOK, PendingTypeOK, Checks
<1>3. AttemptsLeft'
  BY <1>1 DEF AttemptsLeft
<1>4. SuccessLanded' /\ WatchesStored'
  BY <1>1 DEF IInv, Silent, world, alerts, SuccessLanded, WatchesStored
<1> QED
  BY <1>2, <1>3, <1>4
     DEF IInv, Silent, world, alerts, Elsewhere, session, TornIsFinite, FlowsHaveTx,
         EnablingHasWallet, ShownIsCurrent, DoubtIsKept, NothingLost

\* resetTransaction() after the report of the transaction that was watched.
LEMMA Reported ==
  ASSUME IInv, check.at # "off", Reset(check.key), check' = NoCheck,
         UNCHANGED <<world, torn, raced, Elsewhere>>,
         shown.tx \in succeeded' \cup failed', succeeded \subseteq succeeded',
         failed \subseteq failed', failed' \subseteq Tx, succeeded' \subseteq landed
  PROVE  IInv'
<1>1. check.key \in Slots /\ shown.tx \in Tx
  BY TypeParts DEF IInv, Checks, Renderings, Transactions
<1>2. /\ stored' \in [Slots -> Transactions]
      /\ \A k \in Slots \ {check.key} : stored'[k] = stored[k]
  BY <1>1, TypeParts DEF IInv, Reset, Transactions
<1>3. transaction' = None /\ renewed' = TRUE
  BY <1>1, PendingAssumption DEF Reset, SetTransaction
<1>4. check' \in Checks /\ check'.at = "off"
  BY Blank
<1>5. TypeOK'
  BY <1>2, <1>3, <1>4, TypeParts
     DEF IInv, world, Elsewhere, session, TypeOK, PendingTypeOK, Transactions, Checks
<1>6. WatchesStored' /\ AttemptsLeft' /\ ShownIsCurrent'
  BY <1>3, <1>4 DEF WatchesStored, AttemptsLeft, ShownIsCurrent
<1>7. SuccessLanded'
  BY <1>4 DEF IInv, world, SuccessLanded
<1>8. DoubtIsKept'
  BY <1>1, PendingAssumption DEF IInv, Elsewhere, session, world, DoubtIsKept
<1>9. NothingLost'
  <2> SUFFICES ASSUME ~raced, NEW tx \in recorded
               PROVE  tx \in succeeded' \cup failed' \/ \E k \in Slots : stored'[k] = tx
    BY DEF NothingLost, world
  <2>1. CASE tx \in succeeded \cup failed
    BY <2>1
  <2>2. CASE \E k \in Slots : stored[k] = tx
    <3>1. PICK k \in Slots : stored[k] = tx
      BY <2>2
    <3>2. CASE k = check.key
      BY <3>1, <3>2, PendingAssumption, TypeParts DEF IInv, WatchesStored
    <3> QED
      BY <1>2, <3>1, <3>2
  <2> QED
    BY <2>1, <2>2 DEF IInv, NothingLost
<1> QED
  BY <1>5, <1>6, <1>7, <1>8, <1>9
     DEF IInv, world, Elsewhere, session, TornIsFinite, FlowsHaveTx, EnablingHasWallet

LEMMA TornKeepsIInv ==
  ASSUME IInv, NEW c \in torn, TornRefetched(c), UNCHANGED Elsewhere
  PROVE  IInv'
<1>1. c \in TornChecks /\ c.tx \in Tx /\ c.key \in Slots /\ c.tx \in landed
  BY TypeParts DEF IInv, TornChecks, SuccessLanded
<1>2. torn' = torn \ {c} /\ IsFiniteSet(torn') /\ Cardinality(torn') <= MaxTorn
  <2>1. IsFiniteSet(torn) /\ Cardinality(torn) \in Nat
    BY FS_CardinalityType DEF IInv, TornIsFinite
  <2>2. IsFiniteSet(torn \ {c}) /\ Cardinality(torn \ {c}) = Cardinality(torn) - 1
    BY <2>1, FS_RemoveElement
  <2> QED
    BY <2>1, <2>2, TypeParts, PendingAssumption DEF IInv, TornRefetched
<1>3. CASE /\ succeeded' = succeeded \cup {c.tx} /\ raced' = TRUE /\ Reset(c.key)
           /\ UNCHANGED <<world, check, failed>>
  <2>1. stored' \in [Slots -> Transactions]
    BY <1>3, TypeParts DEF IInv, Reset, Transactions
  <2>2. transaction' = None /\ renewed' = (shown.tx # None)
    BY <1>3 DEF Reset, SetTransaction
  <2>3. TypeOK'
    BY <1>1, <1>2, <1>3, <2>1, <2>2, TypeParts
       DEF IInv, world, Elsewhere, session, TypeOK, PendingTypeOK, Transactions
  <2>4. ShownIsCurrent' /\ AttemptsLeft' /\ SuccessLanded' /\ TornIsFinite'
    BY <1>1, <1>2, <1>3, <2>2
       DEF IInv, world, ShownIsCurrent, AttemptsLeft, SuccessLanded, TornIsFinite
  <2>5. DoubtIsKept'
    BY <1>2, <1>3 DEF IInv, world, Elsewhere, session, DoubtIsKept
  <2> QED
    BY <1>3, <2>3, <2>4, <2>5
       DEF IInv, world, Elsewhere, session, FlowsHaveTx, EnablingHasWallet, WatchesStored,
           NothingLost
<1>4. CASE UNCHANGED <<world, transaction, renewed, check, stored, alerts>>
  <2>1. TypeOK'
    BY <1>2, <1>4 DEF IInv, world, alerts, Elsewhere, session, TypeOK, PendingTypeOK
  <2> QED
    BY <1>2, <1>4, <2>1
       DEF IInv, world, alerts, Elsewhere, session, TornIsFinite, FlowsHaveTx, EnablingHasWallet,
           AttemptsLeft, ShownIsCurrent, SuccessLanded, WatchesStored, DoubtIsKept, NothingLost
<1> QED
  BY <1>3, <1>4 DEF TornRefetched

LEMMA CheckKeepsIInv ==
  ASSUME IInv, Check
  PROVE  IInv'
<1> USE DEF At, To, Idle
<1>1. UNCHANGED Elsewhere
  BY DEF Check, Elsewhere, session
<1>2. check \in Checks /\ check.attempts \in 0..MaxAttempts /\ MaxAttempts \in Nat \ {0}
  BY TypeParts, PendingAssumption DEF IInv, Checks
<1>3. check = [check EXCEPT !.attempts = check.attempts]
  BY <1>2 DEF Checks
<1>4. shown.tx \in Tx \/ check.at = "off"
  BY TypeParts DEF IInv, Renderings, Transactions
<1>5. succeeded \subseteq landed /\ failed \subseteq Tx /\ landed \subseteq Tx
  BY TypeParts DEF IInv, SuccessLanded
<1>6. ASSUME check.at # "off", Silent, Idle PROVE IInv'
  <2>1. 0 \in 0..MaxAttempts /\ check' = [check EXCEPT !.at = "idle", !.attempts = 0]
    BY <1>2, <1>6
  <2> QED
    BY <1>1, <1>6, <2>1, CheckGoesOn
<1>7. ASSUME check.at # "off", Fail PROVE IInv'
  BY <1>1, <1>4, <1>5, <1>7, Reported DEF Fail, world
<1>8. ASSUME check.at # "off", shown.tx \in landed, Succeed PROVE IInv'
  BY <1>1, <1>4, <1>5, <1>8, Reported DEF Succeed, world
<1>9. ASSUME check.at # "off", Unresolved PROVE IInv'
  BY <1>6, <1>7, <1>9 DEF Unresolved
<1>10. ASSUME check.at # "off", check.attempts < MaxAttempts, shown.tx \in landed,
              To("refetch"), Silent
       PROVE  IInv'
  <2>1. check' = [check EXCEPT !.at = "refetch", !.attempts = check.attempts]
    BY <1>2, <1>10 DEF Checks
  <2> QED
    BY <1>1, <1>2, <1>10, <2>1, CheckGoesOn
<1>11. CASE Poll
  <2>1. check' = [check EXCEPT !.at = "status", !.attempts = 0]
    BY <1>2, <1>11 DEF Poll, IInv, AttemptsLeft, Checks
  <2> QED
    <3>1. 0 \in 0..MaxAttempts /\ check.at # "off" /\ Silent
      BY <1>2, <1>11 DEF Poll
    <3> QED
      BY <1>1, <2>1, <3>1, CheckGoesOn
<1>12. CASE StatusFails
  BY <1>6, <1>12 DEF StatusFails
<1>13. CASE Status
  <2>1. check.at # "off" /\ check.attempts < MaxAttempts
    BY <1>2, <1>13 DEF Status, IInv, AttemptsLeft
  <2> QED
    BY <1>8, <1>9, <1>10, <1>13, <2>1 DEF Status, Confirmed
<1>14. CASE Refetched
  <2>1. check.at # "off" /\ check.attempts < MaxAttempts /\ shown.tx \in landed
    BY <1>2, <1>14 DEF Refetched, IInv, AttemptsLeft, SuccessLanded
  <2>2. ASSUME check' = [check EXCEPT !.at = "wait", !.attempts = @ + 1], Silent PROVE IInv'
    <3>1. PICK n \in 0..MaxAttempts : n = check.attempts + 1
      BY <1>2, <2>1
    <3>2. check' = [check EXCEPT !.at = "wait", !.attempts = n]
      BY <2>2, <3>1
    <3> QED
      BY <1>1, <2>1, <2>2, <3>2, CheckGoesOn
  <2> QED
    BY <1>8, <1>14, <2>1, <2>2 DEF Refetched
<1>15. CASE NextAttempt
  <2>1. check.at # "off" /\ shown.tx \in landed
    BY <1>15 DEF NextAttempt, IInv, SuccessLanded
  <2> QED
    BY <1>9, <1>10, <1>15, <2>1 DEF NextAttempt
<1>16. CASE \E c \in torn : TornRefetched(c)
  BY <1>1, <1>16, TornKeepsIInv
<1> QED
  BY <1>11, <1>12, <1>13, <1>14, <1>15, <1>16 DEF Check, CheckNext

(***************************************************************************)
(* Rendering.                                                              *)
(***************************************************************************)
LEMMA RenderedTransaction ==
  ASSUME IInv, LoadTransaction, shown' = [api |-> walletApi, key |-> stakeKey, tx |-> transaction]
  PROVE  /\ transaction' \in Transactions /\ renewed' \in BOOLEAN
         /\ shown' \in Renderings /\ shown'.tx = transaction
         /\ ShownIsCurrent'
<1>1. stakeKey \in Slots /\ stored[stakeKey] \in Transactions /\ transaction \in Transactions
  BY TypeParts DEF IInv
<1>2. shown' \in Renderings /\ shown'.tx = transaction
  BY TypeParts DEF IInv, Renderings
<1> QED
  BY <1>1, <1>2 DEF LoadTransaction, ShownIsCurrent

LEMMA TornDown ==
  ASSUME IInv, TearDown
  PROVE  /\ torn' \subseteq TornChecks /\ IsFiniteSet(torn') /\ Cardinality(torn') <= MaxTorn
         /\ \A c \in torn' : c.tx \in landed
         /\ shown.tx = None => torn' = torn
<1>1. IsFiniteSet(torn) /\ Cardinality(torn) \in Nat /\ MaxTorn \in Nat
  BY FS_CardinalityType, PendingAssumption DEF IInv, TornIsFinite
<1>2. torn \subseteq TornChecks /\ Cardinality(torn) <= MaxTorn
  BY TypeParts DEF IInv
<1>3. CASE check.at = "refetch"
  <2> DEFINE awaiting == [tx |-> shown.tx, key |-> check.key]
  <2>1. shown.tx \in Tx /\ shown.tx # None /\ check.key \in Slots /\ shown.tx \in landed
    BY <1>3, TypeParts DEF IInv, Renderings, Transactions, Checks, SuccessLanded
  <2>2. awaiting \notin torn /\ Cardinality(torn) < MaxTorn /\ torn' = torn \cup {awaiting}
    BY <1>3 DEF TearDown
  <2>3. awaiting \in TornChecks /\ awaiting.tx \in landed
    BY <2>1 DEF TornChecks
  <2> HIDE DEF awaiting
  <2>4. IsFiniteSet(torn') /\ Cardinality(torn') = Cardinality(torn) + 1
    BY <1>1, <2>2, FS_AddElement
  <2> QED
    BY <1>1, <1>2, <2>1, <2>2, <2>3, <2>4 DEF IInv, SuccessLanded
<1>4. CASE check.at # "refetch"
  BY <1>1, <1>2, <1>4 DEF TearDown, IInv, SuccessLanded
<1> QED
  BY <1>3, <1>4

LEMMA RenderKeepsIInv ==
  ASSUME IInv, Render
  PROVE  IInv'
<1>1. /\ RenderPending /\ rendered' = Current
      /\ IF ReconcileNeeded THEN StartReconcile ELSE UNCHANGED reconcile
      /\ UNCHANGED <<enabling, stakeKeys, listed, sessionRegisteredStakeKeys, saved, flow,
                     registers, sent, connects>>
  BY DEF Render
<1>2. /\ shown' = [api |-> walletApi, key |-> stakeKey, tx |-> transaction]
      /\ LoadTransaction /\ WatchTransaction /\ raced' = (raced \/ Mismatched)
      /\ UNCHANGED <<walletApi, stakeKey, stored, succeeded, failed, recorded, landed, late>>
  BY <1>1 DEF RenderPending
<1>3. /\ transaction' \in Transactions /\ renewed' \in BOOLEAN
      /\ shown' \in Renderings /\ shown'.tx = transaction /\ ShownIsCurrent'
  BY <1>2, RenderedTransaction
<1>4. raced' \in BOOLEAN
  BY <1>2, TypeParts DEF IInv, Mismatched
<1>5. /\ torn' \subseteq TornChecks /\ IsFiniteSet(torn') /\ Cardinality(torn') <= MaxTorn
      /\ \A c \in torn' : c.tx \in landed
      /\ shown.tx = None => torn' = torn
  <2>1. CASE TearDown
    BY <2>1, TornDown
  <2>2. CASE UNCHANGED torn
    BY <2>2, TypeParts DEF IInv, TornIsFinite, SuccessLanded
  <2> QED
    BY <1>2, <2>1, <2>2 DEF WatchTransaction
\* Without a new run of the effect, the transaction shown is the one it watches.
<1>6. \/ check' = NoCheck /\ transaction = None
      \/ /\ RecheckNeeded /\ transaction # None
         /\ check' = [at |-> "status", key |-> stakeKey, attempts |-> 0]
      \/ check' = check /\ transaction = shown.tx
  BY <1>2 DEF WatchTransaction, IInv, ShownIsCurrent, RecheckNeeded
<1>7. /\ check' \in Checks /\ AttemptsLeft'
      /\ check'.at # "off" => shown'.tx # None
      /\ check'.at \in {"refetch", "wait"} => shown'.tx \in landed
      /\ ~raced' /\ check'.at # "off" => stored[check'.key] \in {None, shown'.tx}
  <2>1. CASE check' = NoCheck
    BY <2>1, Blank DEF AttemptsLeft
  <2>2. CASE /\ RecheckNeeded /\ transaction # None
             /\ check' = [at |-> "status", key |-> stakeKey, attempts |-> 0]
    <3>1. stakeKey \in Slots /\ 0 \in 0..MaxAttempts
      BY TypeParts, PendingAssumption DEF IInv
    <3>2. ~raced' => stored[stakeKey] \in {None, transaction}
      BY <1>2, <2>2, TypeParts DEF IInv, Mismatched
    <3> QED
      BY <1>3, <2>2, <3>1, <3>2 DEF Checks, AttemptsLeft
  <2>3. CASE check' = check /\ transaction = shown.tx
    <3>1. ~raced' => ~raced
      BY <1>2, TypeParts DEF IInv
    <3> QED
      BY <1>3, <2>3, <3>1, TypeParts DEF IInv, AttemptsLeft, SuccessLanded, WatchesStored
  <2> QED
    BY <1>6, <2>1, <2>2, <2>3
<1>8. reconcile' \in Reconciles /\ DoubtIsKept'
  <2>1. sessionRegisteredStakeKeys \in Registrations
    BY TypeParts DEF IInv
  <2>2. CASE reconcile' = NoReconcile
    BY <2>2, Blank DEF DoubtIsKept
  <2>3. CASE /\ ~hasPendingTransaction
             /\ reconcile' = [asking |-> TRUE,
                              unconfirmed |-> UnconfirmedOf(sessionRegisteredStakeKeys)]
    <3> DEFINE u == UnconfirmedOf(sessionRegisteredStakeKeys)
    <3>1. u \in Registrations /\ \A k \in StakeKey : u[k] # None => u[k] \notin landed
      BY <2>1 DEF Registrations, UnconfirmedOf
    <3>2. reconcile'.unconfirmed = u /\ reconcile' \in Reconciles
      BY <2>3, <3>1 DEF Reconciles
    <3> HIDE DEF u
    <3>3. shown'.tx = None
      BY <1>3, <2>3 DEF hasPendingTransaction
    <3>4. succeeded' \subseteq landed
      BY <1>2 DEF IInv, SuccessLanded
    <3> QED
      BY <1>5, <3>1, <3>2, <3>3, <3>4 DEF DoubtIsKept
  <2>4. CASE UNCHANGED reconcile /\ ~ReconcileNeeded
    <3>1. reconcile.asking => shown.tx = None
      BY DEF IInv, DoubtIsKept
    <3>2. reconcile.asking => transaction = None
      BY <2>4, <3>1 DEF ReconcileNeeded, hasPendingTransaction
    <3> QED
      BY <1>2, <1>3, <1>5, <2>4, <3>1, <3>2, TypeParts DEF IInv, DoubtIsKept
  <2> QED
    BY <1>1, <2>2, <2>3, <2>4 DEF StartReconcile
<1>9. rendered' \in [listed : BOOLEAN, registered : Registrations]
  BY <1>1, TypeParts DEF IInv, Current
<1>10. TypeOK'
  BY <1>1, <1>2, <1>3, <1>4, <1>5, <1>7, <1>8, <1>9, TypeParts
     DEF IInv, TypeOK, PendingTypeOK, Transactions, Renderings, Checks, TornChecks, Reconciles
<1> QED
  BY <1>1, <1>2, <1>3, <1>5, <1>7, <1>8, <1>10, TypeParts
     DEF IInv, TornIsFinite, FlowsHaveTx, EnablingHasWallet, SuccessLanded, WatchesStored,
         NothingLost, Mismatched

(***************************************************************************)
(* The wallet, the page and the chain.                                     *)
(***************************************************************************)
\* A step that leaves the pending transaction and its check alone.
LEMMA PendingKept ==
  ASSUME IInv, TypeOK', FlowsHaveTx', EnablingHasWallet',
         UNCHANGED <<pending, stored, recorded, alerts, landed, reconcile>>
  PROVE  IInv'
BY DEF IInv, pending, alerts, TornIsFinite, AttemptsLeft, ShownIsCurrent, SuccessLanded,
       WatchesStored, DoubtIsKept, NothingLost

\* A step of enable(), of its callers or of the stake key panel.
LEMMA PageKept ==
  ASSUME IInv, UNCHANGED <<memory, outside>>,
         walletApi' \in Wallet \cup {None}, stakeKey' \in Slots,
         enabling' \in Enablings, EnablingHasWallet',
         stakeKeys' \subseteq StakeKey, listed' \in BOOLEAN,
         sessionRegisteredStakeKeys' \in Registrations,
         saved' \in [name : Wallet \cup {None}, key : Slots], connects' \in 0..MaxConnects
  PROVE  IInv'
<1>1. TypeOK'
  BY DEF IInv, TypeOK, PendingTypeOK, Enablings, memory, outside, pending, alerts, chain
<1>2. FlowsHaveTx'
  BY DEF IInv, memory, outside, chain, FlowsHaveTx
<1> QED
  BY <1>1, <1>2, PendingKept DEF memory, outside, chain

\* What a step of the page finds.
LEMMA PageParts ==
  ASSUME IInv
  PROVE  /\ walletApi \in Wallet \cup {None} /\ stakeKey \in Slots /\ enabling \in Enablings
         /\ EnablingHasWallet /\ stakeKeys \subseteq StakeKey /\ listed \in BOOLEAN
         /\ sessionRegisteredStakeKeys \in Registrations
         /\ saved \in [name : Wallet \cup {None}, key : Slots] /\ connects \in 0..MaxConnects
         /\ None \in Slots /\ StakeKey \subseteq Slots /\ MaxConnects \in Nat
BY TypeParts, WalletAssumption DEF IInv, Slots

LEMMA DisconnectKeepsIInv ==
  ASSUME IInv, Disconnect
  PROVE  IInv'
BY PageParts, PageKept, Blank DEF Disconnect, Forget, EnablingHasWallet

LEMMA EnableKeepsIInv ==
  ASSUME IInv, NEW w \in Wallet, Enable(w)
  PROVE  IInv'
<1>1. connects' \in 0..MaxConnects
  BY PageParts DEF Enable
<1>2. enabling' \in Enablings /\ EnablingHasWallet'
  BY DEF Enable, Enablings, EnablingHasWallet
<1> QED
  BY <1>1, <1>2, PageParts, PageKept DEF Enable

LEMMA AttachKeepsIInv ==
  ASSUME IInv, Attach
  PROVE  IInv'
<1>1. enabling.wallet \in Wallet
  BY DEF IInv, Attach, EnablingHasWallet
<1>2. enabling' \in Enablings /\ EnablingHasWallet'
  BY <1>1, PageParts DEF Attach, Enablings, EnablingHasWallet
<1> QED
  BY <1>1, <1>2, PageParts, PageKept DEF Attach

LEMMA ReadKeysKeepsIInv ==
  ASSUME IInv, ReadKeys
  PROVE  IInv'
<1>1. enabling.wallet \in Wallet /\ KeysOf[enabling.wallet] \subseteq StakeKey
  BY WalletAssumption DEF IInv, ReadKeys, EnablingHasWallet
<1>2. stakeKeys' \subseteq StakeKey /\ listed' \in BOOLEAN
  BY <1>1 DEF ReadKeys
<1>3. stakeKey' \in Slots /\ saved' \in [name : Wallet \cup {None}, key : Slots]
  BY <1>2, PageParts DEF ReadKeys
<1>4. enabling' \in Enablings /\ EnablingHasWallet'
  BY <1>1, PageParts DEF ReadKeys, Enablings, EnablingHasWallet
<1> QED
  BY <1>2, <1>3, <1>4, PageParts, PageKept, Blank DEF ReadKeys

LEMMA EnabledKeepsIInv ==
  ASSUME IInv, Enabled
  PROVE  IInv'
<1>1. enabling.wallet \in Wallet
  BY DEF IInv, Enabled, EnablingHasWallet
<1>2. saved' \in [name : Wallet \cup {None}, key : Slots]
  BY <1>1, PageParts DEF Enabled
<1>3. enabling' \in Enablings /\ EnablingHasWallet'
  BY Blank DEF Enabled, EnablingHasWallet
<1> QED
  BY <1>2, <1>3, PageParts, PageKept DEF Enabled

LEMMA EnableFailsKeepsIInv ==
  ASSUME IInv, EnableFails
  PROVE  IInv'
<1>1. enabling' \in Enablings /\ EnablingHasWallet'
  BY Blank DEF EnableFails, Enablings, EnablingHasWallet
<1> QED
  BY <1>1, PageParts, PageKept, Blank DEF EnableFails, Forget

LEMMA ChooseKeepsIInv ==
  ASSUME IInv, NEW k \in StakeKey, Choose(k)
  PROVE  IInv'
<1>1. saved' \in [name : Wallet \cup {None}, key : Slots]
  BY PageParts DEF Choose
<1> QED
  BY <1>1, PageParts, PageKept DEF Choose, EnablingHasWallet

\* A page that is loaded again checks nothing and awaits nothing.
LEMMA ReloadKeepsIInv ==
  ASSUME IInv, Reload
  PROVE  IInv'
<1>1. /\ walletApi' = None /\ stakeKey' = None /\ transaction' = None /\ renewed' = FALSE
      /\ shown' = NotShown /\ check' = NoCheck /\ torn' = {}
      /\ stakeKeys' = {} /\ listed' = FALSE /\ sessionRegisteredStakeKeys' = NoneRegistered
      /\ rendered' = [listed |-> FALSE, registered |-> NoneRegistered]
      /\ reconcile' = NoReconcile /\ flow' = [f \in Flows |-> NoFlow]
      /\ UNCHANGED <<stored, recorded, alerts, landed, late, registers, sent>>
  BY DEF Reload, ForgetPending, ForgetSession, outside, chain
<1>2. connects' \in 0..MaxConnects
  BY PageParts DEF Reload
<1>3. saved' \in [name : Wallet \cup {None}, key : Slots]
  BY PageParts, Blank DEF Reload
<1>4. enabling' \in Enablings /\ EnablingHasWallet'
  <2>1. saved.name \in Wallet \cup {None}
    BY PageParts
  <2> QED
    BY <2>1, Blank DEF Reload, Enablings, EnablingHasWallet
<1>5. IsFiniteSet(torn') /\ Cardinality(torn') <= MaxTorn
  BY <1>1, FS_EmptySet, PendingAssumption
<1>6. /\ rendered' \in [listed : BOOLEAN, registered : Registrations]
      /\ flow' \in [Flows -> Flowing]
  BY <1>1, Blank
<1>7. TypeOK'
  <2>1. None \in Transactions
    BY DEF Transactions
  <2> QED
    BY <1>1, <1>2, <1>3, <1>4, <1>5, <1>6, <2>1, Blank, PageParts
       DEF IInv, TypeOK, PendingTypeOK, alerts, Transactions, Renderings, Checks, TornChecks,
           Enablings, Reconciles, Flowing
<1>8. FlowsHaveTx'
  BY <1>1, Blank DEF FlowsHaveTx
<1> QED
  BY <1>1, <1>4, <1>5, <1>7, <1>8, Blank
     DEF IInv, alerts, TornIsFinite, AttemptsLeft, ShownIsCurrent, SuccessLanded, WatchesStored,
         DoubtIsKept, NothingLost

LEMMA ReconcileKeepsIInv ==
  ASSUME IInv, Reconcile
  PROVE  IInv'
<1>1. listed' \in BOOLEAN
  BY PageParts DEF Reconcile
<1>2. sessionRegisteredStakeKeys' \in Registrations
  BY PageParts DEF Reconcile, Without, Registrations
<1>3. /\ reconcile' = NoReconcile
      /\ UNCHANGED <<walletApi, stakeKey, pending, stored, recorded, alerts, enabling, stakeKeys,
                     rendered, saved, flow, chain, connects>>
  BY DEF Reconcile
<1>4. TypeOK'
  BY <1>1, <1>2, <1>3, Blank
     DEF IInv, TypeOK, PendingTypeOK, pending, alerts, chain, Reconciles
<1> QED
  BY <1>3, <1>4, Blank
     DEF IInv, pending, alerts, chain, TornIsFinite, FlowsHaveTx, EnablingHasWallet, AttemptsLeft,
         ShownIsCurrent, SuccessLanded, WatchesStored, DoubtIsKept, NothingLost

LEMMA BuildKeepsIInv ==
  ASSUME IInv, NEW f \in Flows, NEW tx \in Tx, Build(f, tx)
  PROVE  IInv'
<1> DEFINE registering == TypeOf[tx] \in Registering /\ ~isStakeKeyRegistered
           r == [at |-> "signing", key |-> shown.key, tx |-> tx,
                 registers |-> IF registering THEN shown.key ELSE None]
<1>1. r \in Flowing /\ r.at = "signing" /\ r.tx = tx
  BY TypeParts, PageParts DEF IInv, Flowing, Renderings, Transactions
<1>2. /\ flow' = [flow EXCEPT ![f] = r]
      /\ UNCHANGED <<walletApi, stakeKey, pending, session, outside, connects>>
  BY DEF Build
<1> HIDE DEF r
<1>3. flow' \in [Flows -> Flowing]
  BY <1>1, <1>2, TypeParts DEF IInv
<1>4. TypeOK'
  BY <1>2, <1>3
     DEF IInv, TypeOK, PendingTypeOK, pending, session, outside, alerts, chain, Flowing,
         Transactions
<1>5. FlowsHaveTx'
  BY <1>1, <1>2, TypeParts DEF IInv, outside, chain, FlowsHaveTx
<1>6. EnablingHasWallet'
  BY <1>2 DEF IInv, session, EnablingHasWallet
<1> QED
  BY <1>2, <1>4, <1>5, <1>6, PendingKept DEF session, outside, chain

LEMMA SubmitKeepsIInv ==
  ASSUME IInv, NEW f \in Flows, Submit(f)
  PROVE  IInv'
<1> DEFINE tx == flow[f].tx
<1>1. tx \in Tx /\ flow[f] \in Flowing /\ flow[f].registers \in Slots
  BY TypeParts DEF IInv, Submit, FlowsHaveTx, Flowing
<1>2. /\ flow' = [flow EXCEPT ![f].at = "sent", ![f].registers = None]
      /\ sent' = sent \cup {tx} /\ registers' = [registers EXCEPT ![tx] = flow[f].registers]
      /\ UNCHANGED <<walletApi, stakeKey, pending, session, stored, recorded, alerts, landed, late,
                     connects>>
  BY DEF Submit
<1>3. /\ flow' \in [Flows -> Flowing] /\ flow'[f].at = "sent" /\ flow'[f].tx = tx
      /\ \A g \in Flows \ {f} : flow'[g] = flow[g]
  BY <1>1, <1>2, TypeParts, PageParts DEF IInv, Flowing
<1>4. registers' \in [Tx -> Slots]
  BY <1>1, <1>2, TypeParts DEF IInv
<1>5. TypeOK'
  BY <1>1, <1>2, <1>3, <1>4, TypeParts
     DEF IInv, TypeOK, PendingTypeOK, pending, session, alerts, Flowing, Transactions
<1>6. FlowsHaveTx'
  BY <1>1, <1>2, <1>3 DEF IInv, FlowsHaveTx
<1>7. EnablingHasWallet'
  BY <1>2 DEF IInv, session, EnablingHasWallet
<1> QED
  BY <1>2, <1>5, <1>6, <1>7, PendingKept DEF session

LEMMA FlowFailsKeepsIInv ==
  ASSUME IInv, NEW f \in Flows, FlowFails(f)
  PROVE  IInv'
<1>1. /\ flow' = [flow EXCEPT ![f] = NoFlow]
      /\ UNCHANGED <<enabling, stakeKeys, listed, sessionRegisteredStakeKeys, rendered, reconcile,
                     pending, outside, connects>>
  BY DEF FlowFails
<1>2. /\ flow' \in [Flows -> Flowing] /\ flow'[f].at = "idle"
      /\ \A g \in Flows \ {f} : flow'[g] = flow[g]
  BY <1>1, Blank, TypeParts DEF IInv
<1>3. /\ walletApi' \in Wallet \cup {None} /\ stakeKey' \in Slots
      /\ saved' \in [name : Wallet \cup {None}, key : Slots]
  BY PageParts, Blank DEF FlowFails, Forget
<1>4. TypeOK'
  BY <1>1, <1>2, <1>3
     DEF IInv, TypeOK, PendingTypeOK, pending, outside, alerts, chain, Flowing, Transactions
<1>5. FlowsHaveTx'
  BY <1>1, <1>2 DEF IInv, outside, chain, FlowsHaveTx
<1>6. EnablingHasWallet'
  BY <1>1 DEF IInv, EnablingHasWallet
<1> QED
  BY <1>1, <1>4, <1>5, <1>6, PendingKept DEF outside, chain

\* A transaction recorded in time finds its key free, and nothing watches that key.
LEMMA RecordKeepsIInv ==
  ASSUME IInv, NEW f \in Flows, Record(f)
  PROVE  IInv'
<1> DEFINE tx == flow[f].tx
           key == flow[f].key
<1>1. tx \in Tx /\ tx \in sent /\ key \in Slots /\ tx # None
  BY TypeParts, PendingAssumption DEF IInv, Record, FlowsHaveTx, Flowing
<1>2. /\ transaction' = tx /\ renewed' = TRUE
      /\ stored' = [stored EXCEPT ![key] = tx] /\ recorded' = recorded \cup {tx}
      /\ raced' = \/ raced \/ key # stakeKey \/ transaction # None \/ stored[key] # None
                  \/ check.at # "off"
      /\ UNCHANGED <<shown, check, torn, succeeded, failed>>
  BY <1>1 DEF Record, UpdateTransaction, SetTransaction
<1>3. /\ sessionRegisteredStakeKeys' = [k \in StakeKey |->
           IF k = registers[tx] THEN tx ELSE sessionRegisteredStakeKeys[k]]
      /\ flow' = [flow EXCEPT ![f] = NoFlow]
      /\ UNCHANGED <<walletApi, stakeKey, enabling, stakeKeys, listed, rendered, reconcile, saved,
                     chain, connects>>
  BY DEF Record
<1> HIDE DEF tx, key
<1>4. /\ flow' \in [Flows -> Flowing] /\ flow'[f].at = "idle"
      /\ \A g \in Flows \ {f} : flow'[g] = flow[g]
  BY <1>3, Blank, TypeParts DEF IInv
<1>5. stored' \in [Slots -> Transactions] /\ stored'[key] = tx
  BY <1>1, <1>2, TypeParts DEF IInv, Transactions
<1>6. sessionRegisteredStakeKeys' \in Registrations
  BY <1>1, <1>3, PageParts DEF Registrations
<1>7. raced' \in BOOLEAN /\ (~raced' => ~raced /\ stored[key] = None /\ check.at = "off")
  BY <1>2, TypeParts DEF IInv
<1>8. TypeOK'
  BY <1>1, <1>2, <1>3, <1>4, <1>5, <1>6, <1>7, TypeParts
     DEF IInv, TypeOK, PendingTypeOK, chain, Flowing, Transactions
<1>9. FlowsHaveTx'
  BY <1>3, <1>4 DEF IInv, chain, FlowsHaveTx
<1>10. NothingLost'
  <2> SUFFICES ASSUME ~raced', NEW t \in recorded'
               PROVE  t \in succeeded \cup failed \/ \E k \in Slots : stored'[k] = t
    BY <1>2 DEF NothingLost
  <2>1. CASE t = tx
    BY <1>1, <1>5, <2>1
  <2>2. CASE t \in recorded
    <3>1. t \in succeeded \cup failed \/ \E k \in Slots : stored[k] = t
      BY <1>7, <2>2 DEF IInv, NothingLost
    <3>2. t # None
      BY <2>2, TypeParts, PendingAssumption DEF IInv
    <3>3. \A k \in Slots : stored[k] = t => stored'[k] = t
      BY <1>1, <1>2, <1>7, <3>2, TypeParts DEF IInv
    <3> QED
      BY <3>1, <3>3
  <2> QED
    BY <1>2, <2>1, <2>2
<1>11. WatchesStored'
  BY <1>2, <1>7 DEF WatchesStored
<1> QED
  BY <1>2, <1>3, <1>8, <1>9, <1>10, <1>11
     DEF IInv, chain, TornIsFinite, EnablingHasWallet, AttemptsLeft, ShownIsCurrent,
         SuccessLanded, DoubtIsKept

LEMMA LandKeepsIInv ==
  ASSUME IInv, NEW tx \in Tx, Land(tx)
  PROVE  IInv'
<1>1. /\ tx \in sent /\ landed' = landed \cup {tx}
      /\ UNCHANGED <<walletApi, stakeKey, pending, stored, recorded, alerts, session, flow,
                     late, registers, sent, connects>>
  BY DEF Land
<1>2. TypeOK'
  BY <1>1 DEF IInv, TypeOK, PendingTypeOK, pending, session, alerts
<1> QED
  BY <1>1, <1>2
     DEF IInv, pending, session, alerts, TornIsFinite, FlowsHaveTx, EnablingHasWallet, AttemptsLeft,
         ShownIsCurrent, SuccessLanded, WatchesStored, DoubtIsKept, NothingLost

LEMMA GrowKeepsIInv ==
  ASSUME IInv, NEW tx \in Tx, Grow(tx)
  PROVE  IInv'
<1>1. /\ tx \in recorded /\ late' = late \cup {tx}
      /\ UNCHANGED <<walletApi, stakeKey, pending, stored, alerts, recorded, landed, Elsewhere>>
  BY DEF Grow, Age, Elsewhere
<1>2. TypeOK'
  BY <1>1 DEF IInv, TypeOK, PendingTypeOK, pending, session, alerts, Elsewhere
<1> QED
  BY <1>1, <1>2
     DEF IInv, pending, session, alerts, Elsewhere, TornIsFinite, FlowsHaveTx, EnablingHasWallet,
         AttemptsLeft, ShownIsCurrent, SuccessLanded, WatchesStored, DoubtIsKept, NothingLost

LEMMA NextIInv == IInv /\ [Next]_vars => IInv'
<1> SUFFICES ASSUME IInv, [Next]_vars PROVE IInv'
  OBVIOUS
<1>1. CASE UNCHANGED vars
  <2>1. TypeOK'
    BY <1>1 DEF IInv, vars, pending, alerts, session, chain, TypeOK, PendingTypeOK
  <2>2. FlowsHaveTx' /\ EnablingHasWallet'
    BY <1>1 DEF IInv, vars, session, chain, FlowsHaveTx, EnablingHasWallet
  <2> QED
    BY <1>1, <2>1, <2>2, PendingKept DEF vars, session, chain
<1> QED
  BY <1>1, CheckKeepsIInv, RenderKeepsIInv, ReconcileKeepsIInv, EnableKeepsIInv, AttachKeepsIInv,
     ReadKeysKeepsIInv, EnabledKeepsIInv, EnableFailsKeepsIInv, DisconnectKeepsIInv,
     ReloadKeepsIInv, ChooseKeepsIInv, SubmitKeepsIInv, FlowFailsKeepsIInv, RecordKeepsIInv,
     BuildKeepsIInv, LandKeepsIInv, GrowKeepsIInv DEF Next

\* The invariant the theorems rest on: besides the types, a call has the
\* transaction it sent, an attempt of a refetch is left, what is shown is what
\* is watched, success is reported of what landed, and what is watched is what
\* its key stores.
THEOREM Inductive == Spec => []IInv
BY InitIInv, NextIInv, PTL DEF Spec

\* All variables of the wallet's page have their types.
THEOREM TypeCorrect == Spec => []TypeOK
<1>1. IInv => TypeOK
  BY DEF IInv
<1> QED
  BY <1>1, Inductive, PTL

\* A transaction the page was told about is reported or still stored, for any
\* number of wallets, keys, transactions and calls, unless a named race happened.
THEOREM NothingLostHolds == Spec => []NothingLost
<1>1. IInv => NothingLost
  BY DEF IInv
<1> QED
  BY <1>1, Inductive, PTL

\* The registration that a step forgets while a wallet stays connected is one
\* the effect found unconfirmed, and it was not reported as successful since.
LEMMA ForgetsUnconfirmed ==
  ASSUME IInv, [Next]_vars, NEW k \in StakeKey, sessionRegisteredStakeKeys[k] # None,
         sessionRegisteredStakeKeys'[k] = None
  PROVE  \/ enabling.at = "attached" \/ connects' # connects
         \/ sessionRegisteredStakeKeys[k] \notin succeeded
<1>1. CASE Reconcile
  <2>1. PICK told \in SUBSET StakeKey :
          sessionRegisteredStakeKeys' =
            Without(sessionRegisteredStakeKeys,
                    [j \in StakeKey |-> IF j \in told THEN reconcile.unconfirmed[j] ELSE None])
    BY <1>1 DEF Reconcile
  <2>2. sessionRegisteredStakeKeys[k] = reconcile.unconfirmed[k]
    BY <2>1 DEF Without
  <2> QED
    BY <1>1, <2>2 DEF Reconcile, IInv, DoubtIsKept
<1>2. CASE ReadKeys
  BY <1>2 DEF ReadKeys
<1>3. CASE Reload
  BY <1>3, PageParts DEF Reload
<1>4. ASSUME NEW f \in Flows, Record(f) PROVE FALSE
  <2>1. flow[f].tx # None
    BY <1>4, PendingAssumption DEF Record, IInv, FlowsHaveTx
  <2> QED
    BY <1>4, <2>1 DEF Record
<1>5. CASE UNCHANGED sessionRegisteredStakeKeys
  BY <1>5
<1>6. \/ Reconcile \/ ReadKeys \/ Reload \/ (\E f \in Flows : Record(f))
      \/ UNCHANGED sessionRegisteredStakeKeys
  BY DEF Next, vars, session, Check, Render, Enable, Attach, Enabled, EnableFails, Disconnect,
         Choose, Submit, FlowFails, Build, Land, Grow
<1> QED
  BY <1>1, <1>2, <1>3, <1>4, <1>5, <1>6

\* A registration that was reported as successful is not forgotten while the
\* wallet stays connected, so no second transaction registers its key again.
THEOREM RegistrationsKeptHolds == Spec => RegistrationsKept
<1>1. IInv /\ [Next]_vars =>
        [\A k \in StakeKey :
           LET tx == sessionRegisteredStakeKeys[k] IN
           tx # None /\ sessionRegisteredStakeKeys'[k] = None
           => enabling.at = "attached" \/ connects' # connects \/ tx \notin succeeded]_vars
  BY ForgetsUnconfirmed
<1> QED
  BY <1>1, Inductive, PTL DEF RegistrationsKept, Spec

(***************************************************************************)
(* What the page reports is true when it says so.                          *)
(***************************************************************************)
AlertsAreTrue == succeeded \subseteq landed /\ failed \subseteq late

\* An error alert ends a check whose transaction was sent three minutes ago.
LEMMA CheckReports ==
  ASSUME Check
  PROVE  failed' \subseteq failed \cup late /\ late' = late
<1>1. ASSUME Unresolved \/ Succeed \/ Silent
      PROVE  failed' \subseteq failed \cup late /\ late' = late
  BY <1>1 DEF Unresolved, Fail, Succeed, Silent, world, alerts
<1>2. CASE \E c \in torn : TornRefetched(c)
  BY <1>2 DEF TornRefetched, world, alerts
<1>3. CASE Poll \/ StatusFails \/ Status \/ Refetched \/ NextAttempt
  BY <1>1, <1>3 DEF Poll, StatusFails, Status, Refetched, NextAttempt
<1> QED
  BY <1>2, <1>3 DEF Check, CheckNext

LEMMA FailuresAreLate ==
  ASSUME failed \subseteq late, [Next]_vars
  PROVE  (failed \subseteq late)'
<1>1. CASE Check
  BY <1>1, CheckReports
<1>2. CASE \E tx \in Tx : Grow(tx)
  BY <1>2 DEF Grow, Age, alerts
<1>3. CASE Render
  BY <1>3 DEF Render, RenderPending
<1>4. CASE \E f \in Flows : Record(f)
  BY <1>4 DEF Record, UpdateTransaction, chain
<1>5. \/ Check \/ (\E tx \in Tx : Grow(tx)) \/ Render \/ (\E f \in Flows : Record(f))
      \/ UNCHANGED <<failed, late>>
  BY DEF Next, vars, alerts, chain, outside, Reconcile, Enable, Attach, ReadKeys, Enabled,
         EnableFails, Disconnect, Reload, Choose, Submit, FlowFails, Build, Land
<1> QED
  BY <1>1, <1>2, <1>3, <1>4, <1>5

\* checkTransaction(), through renderings, switched wallets and keys, reloads and
\* refetches that come back to an effect torn down: no success is reported of a
\* transaction that is not on chain, and no failure before its three minutes.
THEOREM AlertsAreTrueHolds == Spec => []AlertsAreTrue
<1>1. Init => failed \subseteq late
  BY DEF Init, PendingInit
<1>2. failed \subseteq late /\ [Next]_vars => (failed \subseteq late)'
  BY FailuresAreLate
<1>3. IInv => succeeded \subseteq landed
  BY DEF IInv, SuccessLanded
<1> QED
  BY <1>1, <1>2, <1>3, Inductive, PTL DEF Spec, AlertsAreTrue
=============================================================================
