--------------------------- MODULE TamperedTables ---------------------------
(***************************************************************************)
(* reconcileState against arbitrary tables.  A repair by hand, a restored  *)
(* backup or an older version of the code may leave any rows behind; this  *)
(* module builds any tables row by row, whether or not the constraints of  *)
(* migrations/ would allow them: unknown types, entries of wallets and     *)
(* transactions that do not exist, any int64 for an amount or a balance.   *)
(***************************************************************************)
EXTENDS ReconcileState

CONSTANTS
    TransactionIds,  \* ids rows may use
    Values,          \* balances that rows may hold
    MaxEntries       \* bound: ledger entries in the database

\* Ids are positions in a table; balances and amounts are int64.
ASSUME TamperAssumption ==
    /\ TransactionIds \subseteq Nat
    /\ Values \subseteq -MaxInt - 1 .. MaxInt
    /\ Amounts \subseteq -MaxInt - 1 .. MaxInt
    /\ MaxEntries \in Nat
    /\ IsFiniteSet(UnknownWallets)

VARIABLES walletRows, transactionRows, entryRows

tampered == <<walletRows, transactionRows, entryRows>>

\* What the column wallet_id of an entry may hold.
WalletIds == Wallets \cup UnknownWallets

AnyEntry ==
    [txn : TransactionIds, type : {"CREDIT", "DEBIT", "OTHER"}, amount : Amounts,
     before : Values, after : Values]

AnyTransaction ==
    [type : {"TOP_UP", "TRANSFER", "OTHER"}, source : WalletIds \cup {None},
     destination : WalletIds \cup {None}, amount : Amounts]

TInit ==
    /\ walletRows = [w \in Wallets |-> 0]
    /\ transactionRows = <<>>
    /\ entryRows = [w \in WalletIds |-> <<>>]

EditBalance ==
    /\ \E w \in Wallets, v \in Values : walletRows' = [walletRows EXCEPT ![w] = v]
    /\ UNCHANGED <<transactionRows, entryRows>>

InsertTransaction ==
    /\ Len(transactionRows) + 1 \in TransactionIds
    /\ \E t \in AnyTransaction : transactionRows' = Append(transactionRows, t)
    /\ UNCHANGED <<walletRows, entryRows>>

InsertEntry ==
    /\ Cardinality(Cells(entryRows)) < MaxEntries
    /\ \E w \in WalletIds, e \in AnyEntry :
         entryRows' = [entryRows EXCEPT ![w] = Append(@, e)]
    /\ UNCHANGED <<walletRows, transactionRows>>

TNext == EditBalance \/ InsertTransaction \/ InsertEntry

TSpec == TInit /\ [][TNext]_tampered

-----------------------------------------------------------------------------
\* What the report is meant to establish, said without its loops: following a
\* wallet's entries from zero, each starting where the one before ended and
\* moving by its positive amount, one arrives at the balance ...
Explained(w) ==
    LET log == entryRows[w]
        end == [i \in 0 .. Len(log) |-> IF i = 0 THEN 0 ELSE log[i].after]
        sign(e) == IF e.type = "CREDIT" THEN 1 ELSE -1
    IN  /\ walletRows[w] = end[Len(log)]
        /\ \A i \in DOMAIN log :
             /\ log[i].type \in {"CREDIT", "DEBIT"}
             /\ log[i].amount > 0
             /\ log[i].before = end[i - 1]
             /\ log[i].after = end[i - 1] + sign(log[i]) * log[i].amount

\* ... and the entries are, one for one, the legs of the transactions.
Legs(t) ==
    {<<t.destination, "CREDIT", t.amount>>} \cup
    (IF t.type = "TOP_UP" THEN {} ELSE {<<t.source, "DEBIT", t.amount>>})

WellFormed(t) ==
    /\ t.type \in {"TOP_UP", "TRANSFER"}
    /\ t.destination # None
    /\ IF t.type = "TOP_UP" THEN t.source = None
                            ELSE t.source \notin {None, t.destination}

Booked(id) ==
    LET cs == EntriesOf(entryRows, id) IN
    /\ WellFormed(transactionRows[id])
    /\ {<<c[1], EntryAt(entryRows, c).type, EntryAt(entryRows, c).amount>> : c \in cs}
         = Legs(transactionRows[id])
    /\ Cardinality(cs) = Cardinality(Legs(transactionRows[id]))

\* All in exact arithmetic, and every entry is one of a wallet and of a transaction.
Consistent ==
    /\ \A w \in Wallets : Explained(w)
    /\ \A id \in DOMAIN transactionRows : Booked(id)
    /\ \A c \in Cells(entryRows) :
         c[1] \in Wallets /\ EntryAt(entryRows, c).txn \in DOMAIN transactionRows

\* No entry records a negative balance.
NoneNegative ==
    \A c \in Cells(entryRows) :
        EntryAt(entryRows, c).before >= 0 /\ EntryAt(entryRows, c).after >= 0

\* The report raises no false alarm on any tables, and it misses no corruption of tables
\* whose entries record no negative balance (reconciliation.go:73-289).  What it can miss
\* is an entry that takes a balance over the end of int64, for its differences and sums
\* wrap as the balance did; the balance is then negative on one side of the entry.
ReportDecides ==
    LET healthy == Healthy(walletRows, transactionRows, entryRows) IN
    /\ Consistent => healthy
    /\ healthy /\ NoneNegative => Consistent
=============================================================================
