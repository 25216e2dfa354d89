---------------------------- MODULE LedgerClock ----------------------------
(***************************************************************************)
(* Reconciliation judges a wallet's ledger in the order of created_at,     *)
(* which the API process takes from its own clock while it holds the       *)
(* wallet's lock.  MoneyMovement keeps a ledger in the order of the        *)
(* commits; this module adds the clocks, whose hosts may disagree, and     *)
(* asks when sorting by them gives the same ledger.                        *)
(***************************************************************************)
EXTENDS MoneyMovement, ReconcileState

CONSTANTS
    Skew,     \* how far the clock of a host may be ahead
    MaxTime   \* bound: time stops here

ASSUME ClockAssumption == Skew \in Nat /\ MaxTime \in Nat

VARIABLES
    now,      \* the time
    ahead,    \* ahead[h] : how far the clock of h's host is ahead of it
    stamp,    \* stamp[h] : the time h called time.Now() for its entries
    created   \* created[w] : when each entry of w was stamped, and its created_at

clocks == <<now, ahead, stamp, created>>
all == <<vars, clocks>>

CInit ==
    /\ Init
    /\ now = 0
    /\ ahead \in [Handlers -> 0 .. Skew]
    /\ stamp = [h \in Handlers |-> 0]
    /\ created = [w \in Wallets |-> <<>>]

\* Mutant: the time is taken when the request is reserved, before the wallets are
\* locked.
StampsEarly(h) == pc[h] = "reserve" /\ pc'[h] = "lookup"

\* CreatedAt: time.Now(), just before ledgers.CreateMany
Stamps(h) == pc[h] = "entries" /\ pc'[h] = "audit"

\* A step of MoneyMovement; the entries it commits bring their created_at.
Move ==
    /\ Next
    /\ stamp' = [h \in Handlers |-> CASE Stamps(h) -> now
                                      [] pc'[h] \notin InTx -> 0
                                      [] OTHER -> stamp[h]]
    /\ created' = [w \in Wallets |->
          IF ledger'[w] = ledger[w] THEN created[w]
          ELSE LET h == lock[w] IN
               Append(created[w], [time |-> stamp[h], at |-> stamp[h] + ahead[h]])]
    /\ UNCHANGED <<now, ahead>>

Tick ==
    /\ now < MaxTime
    /\ now' = now + 1
    /\ UNCHANGED <<vars, ahead, stamp, created>>

CNext == Move \/ Tick

-----------------------------------------------------------------------------
\* What sortLedgerEntries may make of the ledger of w: the entries in the order of
\* CreatedAt, and those of one instant in that of their ids, which are random.
SortLedgerEntries(w) ==
    LET D == DOMAIN ledger[w]
        InOrder(p) == \A j, k \in D : j < k => created[w][p[j]].at <= created[w][p[k]].at
    IN  {[k \in D |-> ledger[w][p[k]]] : p \in {q \in Bijection(D, D) : InOrder(q)}}

\* The ledgers that a run may judge.
Sortings ==
    LET sorted == [w \in Wallets |-> SortLedgerEntries(w)] IN
    {ls \in [Wallets -> UNION Range(sorted)] : \A w \in Wallets : ls[w] \in sorted[w]}

Distance(a, b) == IF a < b THEN b - a ELSE a - b

\* Any two movements of one wallet are stamped further apart than the clocks are.
Apart ==
    \A w \in Wallets : \A i, j \in DOMAIN created[w] :
        i # j => Distance(created[w][i].time, created[w][j].time) > Skew

\* A correct ledger is judged healthy in the order of created_at too, however the
\* requests interleave, as long as the movements of one wallet lie further apart than
\* the hosts' clocks: the time is taken between the lock and the commit, so its order is
\* the order of the balances (transaction.go:155, 336, 346; reconciliation.go:123-127).
SkewTolerated ==
    Apart => \A ls \in Sortings : Healthy(balance, transactions, ls)
=============================================================================
