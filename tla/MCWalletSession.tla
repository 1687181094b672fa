-------------------------- MODULE MCWalletSession ---------------------------
(* Instances of WalletSession for TLC. *)
EXTENDS WalletSession, TLC

CONSTANTS w1, w2, k1, k2, t1, t2

Types1 == [t \in Tx |-> IF t = t1 THEN "registerAsDirectVoter" ELSE "vote"]
Keys1 == [w \in Wallet |-> IF w = w1 THEN {k1} ELSE {k2}]
Keys2 == [w \in Wallet |-> StakeKey]

\* The two wallets change places along with their keys.
Swap == { (w1 :> w2) @@ (w2 :> w1) @@ (k1 :> k2) @@ (k2 :> k1) }
=============================================================================
