--------------------------- MODULE Reconciliation ---------------------------
(***************************************************************************)
(* GET /admin/reconciliation while money moves: ReconciliationUsecase.Run  *)
(* reads the wallets, the transactions and the ledger in three statements  *)
(* of their own, outside any transaction, then judges what it read.        *)
(* Composed, through LedgerClock, with MoneyMovement, whose commits may    *)
(* fall between the reads.                                                 *)
(***************************************************************************)
EXTENDS LedgerClock

VARIABLES
    at,        \* the read Run makes next
    ws, ts,    \* what it has read
    report     \* healthy, unhealthy or none

run == <<at, ws, ts, report>>
everything == <<all, run>>

NothingRead == <<>>

RInit ==
    /\ CInit
    /\ at = "start"
    /\ ws = NothingRead
    /\ ts = NothingRead
    /\ report = "none"

ListWallets ==
    /\ at = "start"
    /\ ws' = balance
    /\ at' = "transactions"
    /\ report' = "none"
    /\ UNCHANGED <<all, ts>>

ListTransactions ==
    /\ at = "transactions"
    /\ ts' = transactions
    /\ at' = "entries"
    /\ UNCHANGED <<all, ws, report>>

\* The last read, the judgement and the answer.  The audit row of the run is in
\* a table of its own kind and is left out.
ListLedgerEntries ==
    /\ at = "entries"
    /\ \E ls \in Sortings :
          report' = IF Healthy(ws, ts, ls) THEN "healthy" ELSE "unhealthy"
    /\ at' = "start"
    /\ ws' = NothingRead
    /\ ts' = NothingRead
    /\ UNCHANGED all

\* A read or the audit insert fails: 500, no report.
RunFails ==
    /\ at # "start"
    /\ at' = "start"
    /\ ws' = NothingRead
    /\ ts' = NothingRead
    /\ report' = "none"
    /\ UNCHANGED all

RNext ==
    \/ CNext /\ UNCHANGED run
    \/ ListWallets
    \/ ListTransactions
    \/ ListLedgerEntries
    \/ RunFails

RSpec == RInit /\ [][RNext]_everything

-----------------------------------------------------------------------------
\* A report does not cry wolf: an unhealthy report means that the tables are not
\* healthy in some order that the run may sort them in.
ReportIsTrue ==
    report = "unhealthy" => \E ls \in Sortings : ~Healthy(balance, transactions, ls)

\* Before its last read, what a run has read would be judged healthy exactly when
\* it still is what the tables hold: a commit between the reads is always
\* reported, never mistaken for a consistent state (reconciliation.go:37-50).  (If
\* created_at is not in the order of the balances, the ledger is judged broken anyway.
\* If some entries are of one instant, it may be.)
VerdictIffSnapshot ==
    at = "entries" /\ ledger \in Sortings =>
        (Healthy(ws, ts, ledger) <=> ws = balance /\ ts = transactions)
=============================================================================
