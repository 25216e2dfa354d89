-------------------------- MODULE MCTamperedTables --------------------------
(* A small instance of TamperedTables for TLC. *)
EXTENDS TamperedTables, TLC

CONSTANTS ann, bob

WalletOfTwo == (ann :> 2) @@ (bob :> 1)

Int64s == -MaxInt - 1 .. MaxInt

\* An entry as the handlers write them, or as int64 wraps it.
RegularEntry(w, i) ==
    LET e == entryRows[w][i] IN
    /\ w \in Wallets
    /\ e.type \in {"CREDIT", "DEBIT"}
    /\ e.amount = 1
    /\ e.before = IF i = 1 THEN 0 ELSE entryRows[w][i - 1].after
    /\ e.after = Int64(e.before + Signed(e))

RegularTransaction(t) ==
    /\ WellFormed(t)
    /\ t.amount = 1
    /\ {t.source, t.destination} \subseteq Wallets \cup {None}

Odd ==
    Cardinality({c \in Cells(entryRows) : ~RegularEntry(c[1], c[2])})
    + Cardinality({id \in DOMAIN transactionRows : ~RegularTransaction(transactionRows[id])})
    + Cardinality({w \in Wallets : walletRows[w] \notin {0, DerivedBalance(entryRows[w])}})

\* Explored are regular rows, in any combination, and whatever is one row from them;
\* where there are few rows, two.
Focus == Odd = 0 \/ (Odd = 1 /\ Cardinality(Cells(entryRows)) + Len(transactionRows) <= 1)
=============================================================================
