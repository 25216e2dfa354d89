-------------------------- MODULE MCReconciliation --------------------------
(* Small instances of Reconciliation for TLC. *)
EXTENDS Reconciliation, TLC

CONSTANTS ann, bob, h1, h2

WalletOfTwo == (ann :> 2) @@ (bob :> 1)

HandlerSymmetry == Permutations(Handlers)

\* Explored are both users, one request at a time on hosts whose clocks agree, and one
\* user's small requests, two at a time on hosts whose clocks do not.
OneAtATime ==
    /\ now = 0
    /\ \A h \in Handlers : ahead[h] = 0
    /\ \E h \in Handlers : \A g \in Handlers \ {h} : pc[g] = "idle"

Small(x) == x.user = ann /\ x.amount = 1

OneUser ==
    /\ \A h \in Handlers : pc[h] # "idle" => Small(req[h])
    /\ \A i \in DOMAIN transactions : Small(transactions[i])

Focus == OneAtATime \/ OneUser
=============================================================================
