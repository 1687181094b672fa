--------------------------- MODULE WalletSession ----------------------------
(***************************************************************************)
(* CardanoProvider of the frontend (context/wallet.tsx) over the hook of   *)
(* PendingTransaction: connecting a wallet step by step, disconnecting it, *)
(* choosing a stake key, building, signing and submitting transactions,    *)
(* and what the page remembers of the stake keys it registered.            *)
(***************************************************************************)
EXTENDS PendingTransaction

CONSTANTS KeysOf,     \* the stake keys of each wallet
          Flows,      \* calls of buildSignSubmitConwayCertTx at once (bound)
          MaxConnects \* how often a wallet is connected or the page loaded (bound)

ASSUME WalletAssumption ==
  /\ KeysOf \in [Wallet -> SUBSET StakeKey]
  /\ \A v, w \in Wallet : v # w => KeysOf[v] \cap KeysOf[w] = {}
  /\ MaxConnects \in Nat

VARIABLES enabling,   \* the call of enable() at work, or stuck
          stakeKeys,  \* the keys the wallet offered
          listed,     \* registeredStakeKeysListState is not empty
          sessionRegisteredStakeKeys,
          rendered,   \* what closures of the last rendering see of the last two
          reconcile,  \* the run of the reconcile effect
          saved,      \* local storage: WALLET_LS_KEY, a wallet and a stake key
          flow,       \* each call of buildSignSubmitConwayCertTx
          registers,  \* the stake key each transaction sent registers
          sent,       \* the transactions a wallet accepted
          connects    \* counts connections

session == <<enabling, stakeKeys, listed, sessionRegisteredStakeKeys, rendered, reconcile, saved>>
chain == <<landed, late, registers, sent>>
vars == <<walletApi, stakeKey, pending, stored, recorded, alerts, session, flow, chain, connects>>

NoneRegistered == [k \in StakeKey |-> None]
NoFlow == [at |-> "idle", key |-> None, tx |-> None, registers |-> None]
NoReconcile == [asking |-> FALSE, unconfirmed |-> NoneRegistered]
NotEnabling == [at |-> "idle", wallet |-> None]
NothingSaved == [name |-> None, key |-> None]

Registrations == [StakeKey -> Tx \cup {None}]

TypeOK ==
  /\ PendingTypeOK
  /\ enabling \in [at : {"idle", "asked", "attached", "keyed", "stuck"}, wallet : Wallet \cup {None}]
  /\ stakeKeys \subseteq StakeKey /\ listed \in BOOLEAN
  /\ sessionRegisteredStakeKeys \in Registrations
  /\ rendered \in [listed : BOOLEAN, registered : Registrations]
  /\ reconcile \in [asking : BOOLEAN, unconfirmed : Registrations]
  /\ saved \in [name : Wallet \cup {None}, key : Slots]
  /\ flow \in [Flows -> [at : {"idle", "signing", "sent"}, key : Slots,
                         tx : Tx \cup {None}, registers : Slots]]
  /\ registers \in [Tx -> Slots]
  /\ landed \cup recorded \subseteq sent /\ sent \subseteq Tx
  /\ connects \in 0..MaxConnects

ForgetSession ==
  /\ stakeKeys' = {} /\ listed' = FALSE /\ sessionRegisteredStakeKeys' = NoneRegistered
  /\ rendered' = [listed |-> FALSE, registered |-> NoneRegistered]
  /\ reconcile' = NoReconcile
  /\ flow' = [f \in Flows |-> NoFlow]

Init ==
  /\ PendingInit
  /\ stakeKeys = {} /\ listed = FALSE /\ sessionRegisteredStakeKeys = NoneRegistered
  /\ rendered = [listed |-> FALSE, registered |-> NoneRegistered]
  /\ reconcile = NoReconcile
  /\ flow = [f \in Flows |-> NoFlow]
  /\ enabling = NotEnabling /\ saved = NothingSaved
  /\ registers = [t \in Tx |-> None] /\ sent = {}
  /\ connects = 0

Current == [listed |-> listed, registered |-> sessionRegisteredStakeKeys]

\* People, blocks and the three minutes of Age are slower than a rendering: they
\* find a page that shows its state.  Answers and timers need not.
RenderNeeded ==
  ReloadNeeded \/ RecheckNeeded \/ walletApi # shown.api \/ rendered # Current

-----------------------------------------------------------------------------
\* enable(), and what App and WalletOption make of it.

memory == <<pending, rendered, reconcile, flow>>
outside == <<stored, recorded, alerts, chain>>

\* disconnectWallet()
Forget == walletApi' = None /\ stakeKey' = None /\ saved' = NothingSaved

Disconnect ==
  /\ ~RenderNeeded /\ <<walletApi, stakeKey, saved>> # <<None, None, NothingSaved>>
  /\ Forget
  /\ UNCHANGED <<enabling, stakeKeys, listed, sessionRegisteredStakeKeys, connects,
                 memory, outside>>

\* A click on a wallet.
Enable(w) ==
  /\ ~RenderNeeded /\ ~isEnabled /\ enabling.at = "idle" /\ connects < MaxConnects
  /\ connects' = connects + 1
  /\ enabling' = [at |-> "asked", wallet |-> w]
  /\ UNCHANGED <<walletApi, stakeKey, stakeKeys, listed, sessionRegisteredStakeKeys, saved,
                 memory, outside>>

\* The wallet answers; the page may have been disconnected since it was asked.
Attach ==
  /\ enabling.at = "asked"
  /\ walletApi' = enabling.wallet
  /\ enabling' = [enabling EXCEPT !.at = "attached"]
  /\ UNCHANGED <<stakeKey, stakeKeys, listed, sessionRegisteredStakeKeys, saved, connects,
                 memory, outside>>

\* getRegisteredPubStakeKeys(): a list that may lag the chain.
RegisteredOnChain == {registers[t] : t \in landed} \ {None}

\* The keys the wallet lists; the saved one is chosen when it is among them, or
\* the only one there is.
ReadKeys ==
  /\ enabling.at = "attached"
  /\ \E keys \in SUBSET (KeysOf[enabling.wallet] \cap RegisteredOnChain) :
       /\ listed' = (keys # {})
       /\ stakeKeys' = IF keys = {} THEN KeysOf[enabling.wallet] ELSE keys
  /\ sessionRegisteredStakeKeys' = NoneRegistered
  /\ \/ saved.key \in stakeKeys' /\ stakeKey' = saved.key /\ UNCHANGED saved
     \/ /\ saved.key \notin stakeKeys' /\ Cardinality(stakeKeys') = 1
        /\ stakeKey' \in stakeKeys' /\ saved' = [saved EXCEPT !.key = stakeKey']
     \/ /\ saved.key \notin stakeKeys' /\ Cardinality(stakeKeys') # 1
        /\ UNCHANGED <<stakeKey, saved>>
  /\ enabling' = [enabling EXCEPT !.at = "keyed"]
  /\ UNCHANGED <<walletApi, connects, memory, outside>>

\* Its DRep key arrives, too.
Enabled ==
  /\ enabling.at = "keyed"
  /\ saved' = [saved EXCEPT !.name = enabling.wallet]
  /\ enabling' = NotEnabling
  /\ UNCHANGED <<walletApi, stakeKey, stakeKeys, listed, sessionRegisteredStakeKeys, connects,
                 memory, outside>>

\* A step of enable() throws, and its caller disconnects.  When it is the
\* maintenance check, nothing clears isEnableLoading until the page is reloaded.
EnableFails ==
  /\ enabling.at \in {"asked", "attached", "keyed"}
  /\ Forget
  /\ \/ enabling' = NotEnabling
     \/ enabling.at = "asked" /\ enabling' = [at |-> "stuck", wallet |-> None]
  /\ UNCHANGED <<stakeKeys, listed, sessionRegisteredStakeKeys, connects, memory, outside>>

\* ChooseStakeKeyPanel
Choose(k) ==
  /\ ~RenderNeeded /\ k \in stakeKeys /\ k # stakeKey
  /\ stakeKey' = k /\ saved' = [saved EXCEPT !.key = k]
  /\ UNCHANGED <<walletApi, enabling, stakeKeys, listed, sessionRegisteredStakeKeys, connects,
                 memory, outside>>

\* The page is closed or reloaded: App connects the saved wallet again, or
\* forgets it when its extension is gone.
Reload ==
  /\ ~RenderNeeded /\ connects < MaxConnects /\ connects' = connects + 1
  /\ ForgetPending /\ ForgetSession
  /\ \/ /\ saved.name # None /\ UNCHANGED saved
        /\ enabling' = [at |-> "asked", wallet |-> saved.name]
     \/ /\ saved' = IF saved.name = None THEN saved ELSE NothingSaved
        /\ enabling' = NotEnabling
  /\ UNCHANGED outside

-----------------------------------------------------------------------------
\* Rendering, and the effect that reconciles the registrations.

hasPendingTransaction == transaction # None

ReconcileNeeded ==
  \/ hasPendingTransaction # (shown.tx # None)
  \/ walletApi # shown.api
  \/ sessionRegisteredStakeKeys # rendered.registered

\* Mutant: a status that cannot be read counts as unconfirmed.
DoubtfulOf(registrations) == registrations

\* The registrations whose status may be answered "not confirmed": one that
\* cannot be read counts as confirmed.
UnconfirmedOf(registrations) ==
  [k \in StakeKey |-> IF registrations[k] \in landed THEN None ELSE registrations[k]]

StartReconcile ==
  IF ~hasPendingTransaction /\ isEnabled /\ sessionRegisteredStakeKeys # NoneRegistered
  THEN reconcile' = [asking |-> TRUE, unconfirmed |-> UnconfirmedOf(sessionRegisteredStakeKeys)]
  ELSE reconcile' = NoReconcile

Render ==
  /\ RenderNeeded
  /\ RenderPending
  /\ rendered' = Current
  /\ IF ReconcileNeeded THEN StartReconcile ELSE UNCHANGED reconcile
  /\ UNCHANGED <<enabling, stakeKeys, listed, sessionRegisteredStakeKeys, saved, flow,
                 registers, sent, connects>>

\* The registrations left when some are reported unconfirmed: one is dropped
\* unless another was made meanwhile.
Without(registrations, unconfirmed) ==
  [k \in StakeKey |-> IF registrations[k] = unconfirmed[k] THEN None ELSE registrations[k]]

\* The wallet has listed its keys and the backend has told each status.
Reconcile ==
  /\ reconcile.asking
  /\ \E l \in BOOLEAN : /\ l => KeysOf[shown.api] \cap RegisteredOnChain # {}
                        /\ listed' = (listed \/ l)
  /\ \E told \in SUBSET StakeKey :
       sessionRegisteredStakeKeys' =
         Without(sessionRegisteredStakeKeys,
                 [k \in StakeKey |-> IF k \in told THEN reconcile.unconfirmed[k] ELSE None])
  /\ reconcile' = NoReconcile
  /\ UNCHANGED <<walletApi, stakeKey, pending, stored, recorded, alerts, enabling, stakeKeys,
                 rendered, saved, flow, chain, connects>>

-----------------------------------------------------------------------------
\* buildSignSubmitConwayCertTx(), with the closures of the last rendering.

Unused(tx) == tx \notin sent /\ \A f \in Flows : flow[f].tx # tx

\* The types that register the stake key along with what they are for.
Registering == {"delegate", "registerAsDrep", "registerAsDirectVoter", "vote", "createGovAction"}

isStakeKeyRegistered ==
  rendered.listed \/ (shown.key # None /\ rendered.registered[shown.key] # None)

Build(f, tx) ==
  LET registering == TypeOf[tx] \in Registering /\ ~isStakeKeyRegistered IN
  /\ ~RenderNeeded /\ flow[f] = NoFlow /\ Unused(tx)
  /\ shown.tx = None        \* isPendingTransaction()
  /\ shown.api # None
  /\ registering => shown.key # None
  /\ flow' = [flow EXCEPT ![f] = [at |-> "signing", key |-> shown.key, tx |-> tx,
                registers |-> IF registering THEN shown.key ELSE None]]
  /\ UNCHANGED <<walletApi, stakeKey, pending, session, outside, connects>>

\* signTx() and submitTx(): the ledger refuses to register a key twice.
Submit(f) ==
  LET tx == flow[f].tx IN
  /\ flow[f].at = "signing"
  /\ flow[f].registers \notin RegisteredOnChain
  /\ flow' = [flow EXCEPT ![f].at = "sent", ![f].registers = None]
  /\ sent' = sent \cup {tx} /\ registers' = [registers EXCEPT ![tx] = flow[f].registers]
  /\ UNCHANGED <<walletApi, stakeKey, pending, session, stored, recorded, alerts, landed, late,
                 connects>>

\* Anything throws; the wallet may say that it is no longer connected.
FlowFails(f) ==
  /\ flow[f].at = "signing"
  /\ flow' = [flow EXCEPT ![f] = NoFlow]
  /\ Forget \/ UNCHANGED <<walletApi, stakeKey, saved>>
  /\ UNCHANGED <<enabling, stakeKeys, listed, sessionRegisteredStakeKeys, rendered, reconcile,
                 pending, outside, connects>>

\* The wallet's answer to submitTx() reaches the page.
Record(f) ==
  LET tx == flow[f].tx IN
  /\ flow[f].at = "sent"
  /\ UpdateTransaction(flow[f].key, tx)
  /\ sessionRegisteredStakeKeys' = [k \in StakeKey |->
       IF k = registers[tx] THEN tx ELSE sessionRegisteredStakeKeys[k]]
  /\ flow' = [flow EXCEPT ![f] = NoFlow]
  /\ UNCHANGED <<walletApi, stakeKey, enabling, stakeKeys, listed, rendered, reconcile, saved,
                 chain, connects>>

\* A transaction gets on chain, however late.
Land(tx) ==
  /\ ~RenderNeeded /\ tx \in sent \ landed
  /\ registers[tx] \notin RegisteredOnChain
  /\ landed' = landed \cup {tx}
  /\ UNCHANGED <<walletApi, stakeKey, pending, stored, recorded, alerts, session, flow,
                 late, registers, sent, connects>>

-----------------------------------------------------------------------------
Check == CheckNext /\ UNCHANGED <<session, flow, registers, sent, connects>>
Grow(tx) ==
  ~RenderNeeded /\ Age(tx) /\ UNCHANGED <<session, flow, registers, sent, connects>>

Next ==
  \/ Check \/ Render \/ Reconcile
  \/ \E w \in Wallet : Enable(w)
  \/ Attach \/ ReadKeys \/ Enabled \/ EnableFails
  \/ Disconnect \/ Reload
  \/ \E k \in StakeKey : Choose(k)
  \/ \E f \in Flows : Submit(f) \/ FlowFails(f) \/ Record(f) \/ \E tx \in Tx : Build(f, tx)
  \/ \E tx \in Tx : Land(tx) \/ Grow(tx)

\* React renders, timers fire, time passes, and a backend asked again and again
\* answers at last.  Wallets, users and the chain owe nothing.
Fairness ==
  /\ WF_vars(Render)
  /\ WF_vars(Poll /\ Check)
  /\ SF_vars(Status /\ Check)
  /\ WF_vars(Refetched /\ Check)
  /\ WF_vars(NextAttempt /\ Check)
  /\ \A c \in [tx : Tx, key : Slots] : WF_vars(TornRefetched(c) /\ Check)
  /\ \A tx \in Tx : SF_vars(Grow(tx))

Spec == Init /\ [][Next]_vars /\ Fairness

\* A transaction the page was told about is reported or still stored, through
\* reloads, disconnections and switches of the stake key, unless one of three
\* races happened: it was recorded over another one, while the check of another
\* one is at work, or for a key the page no longer acts with (UpdateTransaction),
\* the effect ran under a key that changed in the same rendering (Mismatched), or
\* a refetch came back to an effect torn down (TornRefetched).
NothingLost ==
  ~raced => \A tx \in recorded :
    tx \in succeeded \cup failed \/ \E k \in Slots : stored[k] = tx

\* While a wallet stays connected, the page forgets a registration only when its
\* own transaction was not on chain when the effect asked, never one that it has
\* reported as successful: a second transaction would register the key again,
\* and the ledger reject it.
RegistrationsKept ==
  [][\A k \in StakeKey :
       LET tx == sessionRegisteredStakeKeys[k] IN
       tx # None /\ sessionRegisteredStakeKeys'[k] = None
       => enabling.at = "attached" \/ connects' # connects \/ tx \notin succeeded]_vars

\* "In progress" never stays up for good.
InProgressEnds == \A tx \in Tx : (transaction = tx) ~> (transaction # tx)
=============================================================================
