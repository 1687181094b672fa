------------------------- MODULE PendingTransaction -------------------------
(***************************************************************************)
(* usePendingTransaction of the frontend: the one transaction the page     *)
(* waits for, its copy in the local storage under the stake key that sent  *)
(* it, and the effect that asks the backend whether it landed until it can *)
(* report success or, three minutes after it was sent, failure.            *)
(*                                                                         *)
(* A handler sets React state; the page is rendered later, and only then   *)
(* do the effects whose dependencies changed run again.  Effects and       *)
(* handlers keep the values of their rendering however long they wait.     *)
(***************************************************************************)
EXTENDS Naturals, FiniteSets

CONSTANTS Wallet,      \* browser wallets
          StakeKey,    \* reward addresses
          Tx,          \* transactions this browser may submit
          TypeOf,      \* the TransactionType of each
          MaxAttempts, \* DB_SYNC_MAX_ATTEMPTS
          MaxTorn,     \* checks of effects torn down that are still at work (bound)
          None         \* null, undefined and the empty string

Types == {"delegate", "createGovAction", "registerAsDrep", "registerAsDirectVoter",
          "retireAsDrep", "retireAsDirectVoter", "updateMetaData", "vote"}
VoterTypes == {"registerAsDrep", "registerAsDirectVoter", "retireAsDrep", "retireAsDirectVoter"}

ASSUME PendingAssumption ==
  /\ TypeOf \in [Tx -> Types]
  /\ MaxAttempts \in Nat \ {0} /\ MaxTorn \in Nat
  /\ None \notin Wallet \cup StakeKey \cup Tx

VARIABLES walletApi,   \* of the wallet context: the connected wallet,
          stakeKey,    \*   and the key it acts with
          transaction, \* the hook's state
          renewed,     \* it holds another object than the one rendered last
          shown,       \* walletApi, stakeKey and transaction as rendered last
          check,       \* the status effect of that rendering, and its check
          torn,        \* checks of effects torn down that await a refetch
          stored,      \* local storage: the transaction under each stake key
          recorded,    \* the transactions updateTransaction() was called for
          landed,      \* the transactions on chain
          late,        \* those sent more than three minutes ago
          succeeded,   \* the transactions a success alert,
          failed,      \*   or an error alert was shown for
          raced        \* history: one of the races of NothingLost happened

pending == <<transaction, renewed, shown, check, torn>>
alerts == <<succeeded, failed, raced>>

Slots == StakeKey \cup {None}
NoCheck == [at |-> "off", key |-> None, attempts |-> 0]
NotShown == [api |-> None, key |-> None, tx |-> None]

isEnabled == walletApi # None

PendingTypeOK ==
  /\ walletApi \in Wallet \cup {None} /\ stakeKey \in Slots
  /\ transaction \in Tx \cup {None} /\ renewed \in BOOLEAN
  /\ shown \in [api : Wallet \cup {None}, key : Slots, tx : Tx \cup {None}]
  /\ check \in [at : {"off", "idle", "status", "refetch", "wait"}, key : Slots,
                attempts : 0..MaxAttempts]
  /\ check.at # "off" => shown.tx # None
  /\ torn \subseteq [tx : Tx, key : Slots] /\ Cardinality(torn) <= MaxTorn
  /\ stored \in [Slots -> Tx \cup {None}]
  /\ landed \subseteq Tx /\ late \subseteq recorded /\ recorded \subseteq Tx
  /\ succeeded \subseteq Tx /\ failed \subseteq Tx /\ raced \in BOOLEAN

PendingInit ==
  /\ walletApi = None /\ stakeKey = None
  /\ transaction = None /\ renewed = FALSE
  /\ shown = NotShown /\ check = NoCheck /\ torn = {}
  /\ stored = [k \in Slots |-> None]
  /\ recorded = {} /\ landed = {} /\ late = {}
  /\ succeeded = {} /\ failed = {} /\ raced = FALSE

\* The page is loaded again: its memory goes, the local storage stays.
ForgetPending ==
  /\ walletApi' = None /\ stakeKey' = None
  /\ transaction' = None /\ renewed' = FALSE
  /\ shown' = NotShown /\ check' = NoCheck /\ torn' = {}

\* setTransaction(): a new object, or null.
SetTransaction(tx) ==
  /\ transaction' = tx
  /\ renewed' = (tx # None \/ shown.tx # None)

\* updateTransaction() of a rendering with the given stake key.
UpdateTransaction(key, tx) ==
  /\ SetTransaction(tx)
  /\ stored' = [stored EXCEPT ![key] = tx]
  /\ recorded' = recorded \cup {tx}
  /\ raced' = \/ raced \/ key # stakeKey \/ transaction # None \/ stored[key] # None
              \/ check.at # "off"
  /\ UNCHANGED <<shown, check, torn, succeeded, failed>>

-----------------------------------------------------------------------------
\* Rendering: the effects whose dependencies changed are torn down and run.

ReloadNeeded == isEnabled # (shown.api # None) \/ stakeKey # shown.key
RecheckNeeded == isEnabled # (shown.api # None) \/ renewed

LoadTransaction ==
  IF ReloadNeeded /\ isEnabled
  THEN /\ transaction' = stored[stakeKey]
       /\ renewed' = (transaction # None \/ stored[stakeKey] # None)
  ELSE renewed' = FALSE /\ UNCHANGED transaction

\* The cleanup sets isSettled.  A check that waits for its status or for its
\* next attempt finds it set and returns; one that waits for a refetch does not
\* look at it again.
TearDown ==
  LET awaiting == [tx |-> shown.tx, key |-> check.key] IN
  IF check.at = "refetch"
  THEN /\ awaiting \notin torn /\ Cardinality(torn) < MaxTorn
       /\ torn' = torn \cup {awaiting}
  ELSE UNCHANGED torn

\* The effect runs: with a transaction, it starts the interval and a check.
WatchTransaction ==
  IF RecheckNeeded
  THEN /\ TearDown
       /\ check' = IF transaction = None THEN NoCheck
                   ELSE [at |-> "status", key |-> stakeKey, attempts |-> 0]
  ELSE UNCHANGED <<check, torn>>

\* The effect runs for a transaction under a key that stores another.
Mismatched == RecheckNeeded /\ transaction # None /\ stored[stakeKey] \notin {None, transaction}

RenderPending ==
  /\ shown' = [api |-> walletApi, key |-> stakeKey, tx |-> transaction]
  /\ LoadTransaction
  /\ WatchTransaction
  /\ raced' = (raced \/ Mismatched)
  /\ UNCHANGED <<walletApi, stakeKey, stored, succeeded, failed, recorded, landed, late>>

-----------------------------------------------------------------------------
\* checkTransaction().

world == <<walletApi, stakeKey, shown, recorded, landed, late>>
Silent == UNCHANGED <<world, transaction, renewed, torn, stored, alerts>>

At(place) == check.at = place
To(place) == check' = [check EXCEPT !.at = place]
Idle == check' = [check EXCEPT !.at = "idle", !.attempts = 0]

\* Mutant: it forgets what is stored under the key the page now acts with.
ResetCurrentKey(key) ==
  /\ stored' = [stored EXCEPT ![stakeKey] = None]
  /\ SetTransaction(None)

\* resetTransaction() of an effect run with the given key
Reset(key) ==
  /\ stored' = [stored EXCEPT ![key] = None]
  /\ SetTransaction(None)

Succeed ==
  /\ succeeded' = succeeded \cup {shown.tx}
  /\ Reset(check.key) /\ check' = NoCheck
  /\ UNCHANGED <<world, torn, failed, raced>>

\* VOTER_TRANSACTION_EXPIRED_KEY, which useGetVoterInfo reads, is left out.
Fail ==
  /\ failed' = failed \cup {shown.tx}
  /\ Reset(check.key) /\ check' = NoCheck
  /\ UNCHANGED <<world, torn, succeeded, raced>>

\* Mutant: only a transaction the backend knows can expire.
UnresolvedNeedsChain ==
  \/ shown.tx \in late \cap landed /\ Fail
  \/ shown.tx \notin late \cap landed /\ Idle /\ Silent

\* The end of a check: the transaction has expired, or the interval goes on.
Unresolved ==
  \/ shown.tx \in late /\ Fail
  \/ shown.tx \notin late /\ Idle /\ Silent

\* The interval fires; a check still at work makes it return.
Poll == At("idle") /\ To("status") /\ Silent

StatusFails == At("status") /\ Idle /\ Silent

\* getQueryKey(): what shows that the transaction took effect.  No query is
\* keyed with a vote, and the other types have none: being on chain is enough.
HasQuery(tx) == TypeOf[tx] \in VoterTypes \cup {"delegate"}

Confirmed == shown.tx \in landed /\ shown.api # None

Status ==
  /\ At("status")
  /\ \/ Confirmed /\ ~HasQuery(shown.tx) /\ Succeed
     \/ Confirmed /\ HasQuery(shown.tx) /\ To("refetch") /\ Silent
     \/ ~Confirmed /\ Unresolved

\* refetchData() comes back with the desired result, or with another one.
Refetched ==
  /\ At("refetch")
  /\ \/ Succeed
     \/ check' = [check EXCEPT !.at = "wait", !.attempts = @ + 1] /\ Silent

\* Mutant: the loop goes round once more.
NextAttemptOneMore ==
  /\ At("wait")
  /\ \/ check.attempts <= MaxAttempts /\ To("refetch") /\ Silent
     \/ check.attempts > MaxAttempts /\ Unresolved

\* wait(DB_SYNC_REFRESH_TIME) is over.
NextAttempt ==
  /\ At("wait")
  /\ \/ check.attempts < MaxAttempts /\ To("refetch") /\ Silent
     \/ check.attempts = MaxAttempts /\ Unresolved

\* refetchData() comes back to an effect torn down: with the desired result the
\* check reports all the same, and ends whatever transaction is pending now.
TornRefetched(c) ==
  /\ c \in torn /\ torn' = torn \ {c}
  /\ \/ /\ succeeded' = succeeded \cup {c.tx} /\ raced' = TRUE
        /\ Reset(c.key)
        /\ UNCHANGED <<world, check, failed>>
     \/ UNCHANGED <<world, transaction, renewed, check, stored, alerts>>

\* Three minutes pass, which tells only while the transaction is kept somewhere.
Age(tx) ==
  /\ tx \in recorded \ late
  /\ tx = transaction \/ \E k \in Slots : stored[k] = tx
  /\ late' = late \cup {tx}
  /\ UNCHANGED <<walletApi, stakeKey, pending, stored, alerts, recorded, landed>>

CheckNext ==
  \/ Poll \/ StatusFails \/ Status \/ Refetched \/ NextAttempt
  \/ \E c \in torn : TornRefetched(c)
=============================================================================
