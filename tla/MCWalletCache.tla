--------------------------- MODULE MCWalletCache ---------------------------
(* Instances of WalletCache for TLC. *)
EXTENDS WalletCache, FiniteSets, TLC

CONSTANTS r1, r2, k1, k2, f1, f2, f3, a, b, c, d

Symmetry ==
  Permutations(Requests) \cup Permutations(Keys) \cup Permutations(Fetches)

\* The chain grows by one block, which is enough to clear the cache.
OneBlock == << [block |-> 1, slot |-> 1, hash |-> a],
               [block |-> 2, slot |-> 2, hash |-> b] >>

\* It switches to another block of the same height, then rolls back below it.
Forking == << [block |-> 2, slot |-> 1, hash |-> a],
              [block |-> 3, slot |-> 2, hash |-> b],
              [block |-> 3, slot |-> 3, hash |-> c],
              [block |-> 2, slot |-> 4, hash |-> d] >>

Everyone(routes) == {[r \in Requests |-> routes]}
Someone(routes) == {[r \in Requests |-> IF r = s THEN routes ELSE {}] : s \in Requests}
Workload(tips, asks) == {[chain |-> tips, routes |-> f] : f \in asks}

\* Two clients read through getOrSet across one new block; one does so while the
\* chain forks; one searches and lists across one new block.
Mixed == Workload(OneBlock, Everyone({"info"}))
           \cup Workload(Forking, Someone({"info"}))
           \cup Workload(OneBlock, Someone({"search", "list"}))
=============================================================================
