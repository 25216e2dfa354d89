-------------------------- MODULE MCMoneyMovement --------------------------
(* Small instances of MoneyMovement for TLC. *)
EXTENDS Reads, TLC

CONSTANTS ann, bob,  \* users
          h1, h2, h3 \* handlers

\* One caller; the other wallet's owner is idle.
WalletOfOne == (ann :> 2)

\* Wallet ids are in the order opposite to the users', so that ann's transfers
\* lock the recipient first.
WalletOfTwo == (ann :> 2) @@ (bob :> 1)

HandlerSymmetry == Permutations(Handlers)
=============================================================================
