------------------------------ MODULE Entities ------------------------------
(***************************************************************************)
(* The rows of the wallet database and the requests that change them:      *)
(* internal/entity/models.go, the request types of internal/usecase, and   *)
(* the constraints of migrations/.  Shared by every module about money.    *)
(*                                                                         *)
(* Identifiers are uuids in the code.  Wallet ids are integers here because *)
(* LockByIDs depends on their order; transaction ids are positions in the  *)
(* transactions table (fresh uuids, renamed in commit order).              *)
(***************************************************************************)
EXTENDS Integers, Sequences, FiniteSets

CONSTANTS
    Users,           \* registered users
    Wallets,         \* ids of the rows of the wallets table
    UnknownWallets,  \* well-formed wallet ids that are in no row
    WalletOf,        \* the wallet of each user (wallets.user_id is UNIQUE)
    Keys,            \* values of the Idempotency-Key header
    EmptyKey,        \* the missing header, c.Get() = ""
    Amounts,         \* values of the JSON field "amount"
    MaxInt,          \* largest int64; balances and amounts are int64
    None             \* SQL NULL, an absent row, a free lock

TopUpRequest ==
    [op : {"TOP_UP"}, user : Users, key : Keys, to : {None}, amount : Amounts]

TransferRequest ==
    [op : {"TRANSFER"}, user : Users, key : Keys,
     to : Wallets \cup UnknownWallets, amount : Amounts]

Requests == TopUpRequest \cup TransferRequest

\* The unique index (idempotency_key, user_id, endpoint).
Slots == {"TOP_UP", "TRANSFER"} \X Users \X Keys

Slot(r) == <<r.op, r.user, r.key>>

\* idempotency.HashPayload over the request body: two bodies have the same
\* hash iff they are the same body (SHA-256 is taken as injective).
HashPayload(r) == <<r.to, r.amount>>

Hashes == (Wallets \cup UnknownWallets \cup {None}) \X Amounts

\* The wallets a request credits and (for a transfer) debits.
Destination(r) == IF r.op = "TOP_UP" THEN WalletOf[r.user] ELSE r.to
Source(r)      == IF r.op = "TOP_UP" THEN None ELSE WalletOf[r.user]

Transaction ==
    [type : {"TOP_UP", "TRANSFER"}, user : Users, key : Keys,
     source : Wallets \cup {None}, destination : Wallets, amount : Amounts]

LedgerEntry ==
    [txn : Nat, type : {"CREDIT", "DEBIT"}, amount : Amounts,
     before : Int, after : Int]

AuditLog ==
    [action : {"WALLET_TOP_UP", "WALLET_TRANSFER"}, actor : Users, entity : Nat]

\* The response body of a successful call: the transaction and the balances
\* of the wallets it names, the credited one last.
Body == [txn : Nat, balances : Seq(Int)]

EmptyBody == [txn |-> 0, balances |-> <<>>]

IdempotencyRecord == [hash : Hashes, status : Nat, body : Body]

\* What an int64 holds of the integer x: two's complement, modulo 2 * (MaxInt + 1).
Int64(x) == ((x + MaxInt + 1) % (2 * (MaxInt + 1))) - (MaxInt + 1)

\* A table has finitely many rows.
ASSUME RowsAssumption == IsFiniteSet(Wallets)
ASSUME MaxIntAssumption == MaxInt \in Nat \ {0}
ASSUME WalletAssumption ==
    /\ Wallets \subseteq Nat
    /\ UnknownWallets \subseteq Nat
    /\ Wallets \cap UnknownWallets = {}
    /\ WalletOf \in [Users -> Wallets]
    /\ \A u, v \in Users : WalletOf[u] = WalletOf[v] => u = v
ASSUME AmountAssumption == Amounts \subseteq Int /\ \A a \in Amounts : a <= MaxInt
ASSUME NoneAssumption ==
    /\ None \notin Wallets \cup UnknownWallets
    /\ None \notin Requests
    /\ None \notin IdempotencyRecord
    /\ None \notin Hashes
=============================================================================
