--------------------------- MODULE PublicRevisions --------------------------
(***************************************************************************)
(* What a reader of the proposal forum is promised: each open proposal     *)
(* shows one public revision at most, a new revision replaces the shown    *)
(* one in a single step and for good, only the shown revision can be       *)
(* marked submitted, once and with a transaction hash of its own, and      *)
(* closing a proposal takes all of it away.                                *)
(***************************************************************************)
CONSTANTS Proposals, Contents, TxHashes, None

VARIABLES open,       \* proposals that exist
          revisions,  \* the revisions each has published so far
          shown,      \* the one it shows
          stamp       \* the transaction hash of each submitted revision

vars == <<open, revisions, shown, stamp>>

Init ==
  /\ open = {}
  /\ revisions = [p \in Proposals |-> {}]
  /\ shown = [p \in Proposals |-> None]
  /\ stamp = [c \in Contents |-> None]

OpenDraft(p) ==
  /\ p \notin open
  /\ open' = open \cup {p}
  /\ UNCHANGED <<revisions, shown, stamp>>

\* A first or further revision goes public, of a new or an open proposal.
Publish(p, c) ==
  /\ \A q \in Proposals : c \notin revisions[q]
  /\ open' = open \cup {p}
  /\ revisions' = [revisions EXCEPT ![p] = @ \cup {c}]
  /\ shown' = [shown EXCEPT ![p] = c]
  /\ UNCHANGED stamp

Submit(p, h) ==
  /\ shown[p] # None
  /\ stamp[shown[p]] = None
  /\ \A c \in Contents : stamp[c] # h
  /\ stamp' = [stamp EXCEPT ![shown[p]] = h]
  /\ UNCHANGED <<open, revisions, shown>>

Close(p) ==
  /\ p \in open
  /\ open' = open \ {p}
  /\ revisions' = [revisions EXCEPT ![p] = {}]
  /\ shown' = [shown EXCEPT ![p] = None]
  /\ stamp' = [c \in Contents |-> IF c \in revisions[p] THEN None ELSE stamp[c]]

Next ==
  \E p \in Proposals :
    \/ OpenDraft(p) \/ Close(p)
    \/ \E c \in Contents : Publish(p, c)
    \/ \E h \in TxHashes : Submit(p, h)

Spec == Init /\ [][Next]_vars
=============================================================================
