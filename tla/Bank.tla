-------------------------------- MODULE Bank --------------------------------
(***************************************************************************)
(* What the wallet service promises about money, with no handlers, locks,  *)
(* statements or failures: a valid request moves money in one indivisible  *)
(* step, at most once per idempotency slot, never overdraws a wallet and   *)
(* never overflows one.  MoneyMovement is shown to implement this.         *)
(***************************************************************************)
EXTENDS Entities

VARIABLES
    balance,   \* balance[w] : the money in wallet w
    done       \* done[s] : the payload slot s was spent on, or None

vars == <<balance, done>>

Init ==
    /\ balance = [w \in Wallets |-> 0]
    /\ done = [s \in Slots |-> None]

\* A top-up credits the caller's wallet.
TopUp(r) ==
    /\ balance[WalletOf[r.user]] + r.amount <= MaxInt
    /\ balance' = [balance EXCEPT ![WalletOf[r.user]] = @ + r.amount]

\* A transfer takes from the caller's wallet what it gives to another one.
Transfer(r) ==
    LET from == WalletOf[r.user] IN
    /\ r.to \in Wallets \ {from}
    /\ r.amount <= balance[from]
    /\ balance[r.to] + r.amount <= MaxInt
    /\ balance' = [balance EXCEPT ![from] = @ - r.amount, ![r.to] = @ + r.amount]

Move(r) ==
    /\ r.key # EmptyKey
    /\ r.amount > 0
    /\ done[Slot(r)] = None
    /\ done' = [done EXCEPT ![Slot(r)] = HashPayload(r)]
    /\ IF r.op = "TOP_UP" THEN TopUp(r) ELSE Transfer(r)

Next == \E r \in Requests : Move(r)

Spec == Init /\ [][Next]_vars
=============================================================================
