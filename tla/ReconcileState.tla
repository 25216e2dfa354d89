--------------------------- MODULE ReconcileState ---------------------------
(***************************************************************************)
(* reconcileState of internal/usecase/reconciliation.go: the pure check    *)
(* of what was read from the wallets, transactions and ledger_entries      *)
(* tables.  A report is reduced to the rows it complains about; the        *)
(* wording and the number of complaints per row are left out.              *)
(*                                                                         *)
(*   ws : wallet id      -> balance                                        *)
(*   ts : transaction id -> row                                            *)
(*   ls : wallet id      -> its ledger entries, sorted by created_at;      *)
(*        the id may be that of no wallet                                  *)
(***************************************************************************)
EXTENDS Entities, Sums

Cells(ls) == UNION {{<<w, i>> : i \in DOMAIN ls[w]} : w \in DOMAIN ls}

EntryAt(ls, c) == ls[c[1]][c[2]]

\* ledgersByTransaction[id]
EntriesOf(ls, id) == {c \in Cells(ls) : EntryAt(ls, c).txn = id}

\* The differences are int64.
ValidateLedgerEntryMath(e) ==
    /\ e.amount > 0
    /\ \/ e.type = "CREDIT" /\ Int64(e.after - e.before) = e.amount
       \/ e.type = "DEBIT" /\ Int64(e.before - e.after) = e.amount

\* Entries that are orphaned, or whose arithmetic is wrong.
LedgerIssues(ws, ts, ls) ==
    {c \in Cells(ls) :
        \/ c[1] \notin DOMAIN ws
        \/ EntryAt(ls, c).txn \notin DOMAIN ts
        \/ ~ValidateLedgerEntryMath(EntryAt(ls, c))}

\* Entries that do not start where the wallet's previous entry ended.
ValidateWalletLedgerChain(ws, ls) ==
    {c \in Cells(ls) :
        /\ c[1] \in DOMAIN ws
        /\ EntryAt(ls, c).before #
             IF c[2] = 1 THEN 0 ELSE ls[c[1]][c[2] - 1].after}

\* What an entry adds to derivedBalance; an unknown type adds nothing.
Signed(e) == CASE e.type = "CREDIT" -> e.amount
               [] e.type = "DEBIT" -> -e.amount
               [] OTHER -> 0

\* Sums of int64 wrap at every step, which is to wrap once at the end.
DerivedBalance(log) == Int64(Total([i \in DOMAIN log |-> Signed(log[i])], DOMAIN log))

\* Mutant: empty wallets are skipped.
WalletIssuesNonEmpty(ws, ls) ==
    {w \in DOMAIN ws :
        /\ ws[w] > 0
        /\ ws[w] # IF w \in DOMAIN ls THEN DerivedBalance(ls[w]) ELSE 0}

WalletIssues(ws, ls) ==
    {w \in DOMAIN ws :
        ws[w] # IF w \in DOMAIN ls THEN DerivedBalance(ls[w]) ELSE 0}

ValidateTopUpTransaction(t, id, ls) ==
    LET cs == EntriesOf(ls, id) IN
    /\ t.source = None
    /\ t.destination # None
    /\ Cardinality(cs) = 1
    /\ \A c \in cs : /\ c[1] = t.destination
                     /\ EntryAt(ls, c).type = "CREDIT"
                     /\ EntryAt(ls, c).amount = t.amount

\* Mutant: the credit leg is not looked for.
ValidateTransferDebitOnly(t, id, ls) ==
    LET cs == EntriesOf(ls, id) IN
    /\ t.source # None
    /\ t.destination # None
    /\ t.source # t.destination
    /\ Cardinality(cs) = 2
    /\ \A c \in cs : EntryAt(ls, c).amount = t.amount
    /\ \E c \in cs : c[1] = t.source /\ EntryAt(ls, c).type = "DEBIT"

ValidateTransferTransaction(t, id, ls) ==
    LET cs == EntriesOf(ls, id) IN
    /\ t.source # None
    /\ t.destination # None
    /\ t.source # t.destination
    /\ Cardinality(cs) = 2
    /\ \A c \in cs : EntryAt(ls, c).amount = t.amount
    /\ \E c \in cs : c[1] = t.source /\ EntryAt(ls, c).type = "DEBIT"
    /\ \E c \in cs : c[1] = t.destination /\ EntryAt(ls, c).type = "CREDIT"

\* A type that is neither is an issue of its own.
TransactionIssues(ts, ls) ==
    {id \in DOMAIN ts :
        ~ \/ ts[id].type = "TOP_UP" /\ ValidateTopUpTransaction(ts[id], id, ls)
          \/ ts[id].type = "TRANSFER" /\ ValidateTransferTransaction(ts[id], id, ls)}

\* report.Healthy
Healthy(ws, ts, ls) ==
    /\ LedgerIssues(ws, ts, ls) = {}
    /\ ValidateWalletLedgerChain(ws, ls) = {}
    /\ WalletIssues(ws, ls) = {}
    /\ TransactionIssues(ts, ls) = {}
=============================================================================
