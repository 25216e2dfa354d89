----------------------- MODULE Reconciliation_proofs -----------------------
(***************************************************************************)
(* Proofs about reconciliation, for any number of rows, handlers and       *)
(* hosts: the report raises no false alarm, whatever is in the tables, and *)
(* misses nothing but what wraps over the end of int64; a run that money   *)
(* moves through is judged healthy exactly when it read what the tables    *)
(* hold; and clocks that disagree by less than the movements of a wallet   *)
(* lie apart do no harm.                                                   *)
(***************************************************************************)
EXTENDS Reconciliation, TamperedTables, MoneyMovement_proofs, SequenceTheorems

-----------------------------------------------------------------------------
(* What the checks of a report come to.                                    *)

\* A cell is an entry's place.
LEMMA CellFacts ==
    ASSUME NEW ls, NEW w \in DOMAIN ls, NEW i \in DOMAIN ls[w]
    PROVE  <<w, i>> \in Cells(ls) /\ EntryAt(ls, <<w, i>>) = ls[w][i]
  BY DEF Cells, EntryAt

\* Every cell is an entry's place.
LEMMA CellIs ==
    ASSUME NEW ls, NEW c \in Cells(ls)
    PROVE  \E w \in DOMAIN ls : \E i \in DOMAIN ls[w] :
             c = <<w, i>> /\ c[1] = w /\ c[2] = i /\ EntryAt(ls, c) = ls[w][i]
  BY DEF Cells, EntryAt

\* An entry is in a chain: it starts where the one before ended.
Linked(log, i) == log[i].before = IF i = 1 THEN 0 ELSE log[i - 1].after

\* An entry of a wallet and of a transaction, whose arithmetic is right.
Sound(wallets, rows, ls, w, i) ==
    /\ w \in DOMAIN wallets
    /\ ls[w][i].txn \in DOMAIN rows
    /\ ValidateLedgerEntryMath(ls[w][i])

\* The complaints about entries and wallets, wallet by wallet.
LEMMA EntriesJudged ==
    ASSUME NEW wallets, NEW rows, NEW ls, DOMAIN wallets \subseteq DOMAIN ls
    PROVE  /\ LedgerIssues(wallets, rows, ls) = {} <=>
                \A w \in DOMAIN ls : \A i \in DOMAIN ls[w] : Sound(wallets, rows, ls, w, i)
           /\ ValidateWalletLedgerChain(wallets, ls) = {} <=>
                \A w \in DOMAIN wallets : \A i \in DOMAIN ls[w] : Linked(ls[w], i)
           /\ WalletIssues(wallets, ls) = {} <=>
                \A w \in DOMAIN wallets : wallets[w] = DerivedBalance(ls[w])
<1>1. ASSUME NEW w \in DOMAIN ls, NEW i \in DOMAIN ls[w]
      PROVE  /\ <<w, i>> \in LedgerIssues(wallets, rows, ls) <=> ~Sound(wallets, rows, ls, w, i)
             /\ <<w, i>> \in ValidateWalletLedgerChain(wallets, ls) <=>
                  w \in DOMAIN wallets /\ ~Linked(ls[w], i)
  <2>1. /\ <<w, i>> \in Cells(ls) /\ EntryAt(ls, <<w, i>>) = ls[w][i]
        /\ <<w, i>>[1] = w /\ <<w, i>>[2] = i
    BY CellFacts
  <2> QED
    BY <2>1 DEF LedgerIssues, ValidateWalletLedgerChain, Linked, Sound
<1>2. ASSUME NEW c, c \in LedgerIssues(wallets, rows, ls) \cup ValidateWalletLedgerChain(wallets, ls)
      PROVE  \E w \in DOMAIN ls : \E i \in DOMAIN ls[w] : c = <<w, i>>
  <2>1. c \in Cells(ls)
    BY <1>2 DEF LedgerIssues, ValidateWalletLedgerChain
  <2> QED
    BY <2>1, CellIs
<1>3. LedgerIssues(wallets, rows, ls) = {} <=>
        \A w \in DOMAIN ls : \A i \in DOMAIN ls[w] : Sound(wallets, rows, ls, w, i)
  <2>1. ASSUME NEW c \in LedgerIssues(wallets, rows, ls)
        PROVE  \E w \in DOMAIN ls : \E i \in DOMAIN ls[w] : ~Sound(wallets, rows, ls, w, i)
    <3>1. PICK w \in DOMAIN ls : \E i \in DOMAIN ls[w] : c = <<w, i>>
      BY <1>2, <2>1
    <3>2. PICK i \in DOMAIN ls[w] : c = <<w, i>>
      BY <3>1
    <3> QED
      BY <1>1, <2>1, <3>2
  <2>2. ASSUME NEW w \in DOMAIN ls, NEW i \in DOMAIN ls[w], ~Sound(wallets, rows, ls, w, i)
        PROVE  LedgerIssues(wallets, rows, ls) # {}
    BY <1>1, <2>2
  <2> QED
    BY <2>1, <2>2
<1>4. ValidateWalletLedgerChain(wallets, ls) = {} <=>
        \A w \in DOMAIN wallets : \A i \in DOMAIN ls[w] : Linked(ls[w], i)
  <2>1. ASSUME NEW c \in ValidateWalletLedgerChain(wallets, ls)
        PROVE  \E w \in DOMAIN wallets : \E i \in DOMAIN ls[w] : ~Linked(ls[w], i)
    <3>1. PICK w \in DOMAIN ls : \E i \in DOMAIN ls[w] : c = <<w, i>>
      BY <1>2, <2>1
    <3>2. PICK i \in DOMAIN ls[w] : c = <<w, i>>
      BY <3>1
    <3> QED
      BY <1>1, <2>1, <3>2
  <2>2. ASSUME NEW w \in DOMAIN wallets, NEW i \in DOMAIN ls[w], ~Linked(ls[w], i)
        PROVE  ValidateWalletLedgerChain(wallets, ls) # {}
    BY <1>1, <2>2
  <2> QED
    BY <2>1, <2>2
<1>5. WalletIssues(wallets, ls) = {} <=>
        \A w \in DOMAIN wallets : wallets[w] = DerivedBalance(ls[w])
  BY DEF WalletIssues
<1> QED
  BY <1>3, <1>4, <1>5

\* A chain of entries that move by their amounts, in exact arithmetic.
Exact(log) ==
    \A i \in DOMAIN log : Linked(log, i) /\ log[i].after = log[i].before + Signed(log[i])

\* A chain of entries adds up to where it ends, if an int64 can hold that.
LEMMA DerivedIsEnd ==
    ASSUME NEW E, \A e \in E : e.amount \in Int /\ e.before \in Int /\ e.after \in Int,
           NEW log \in Seq(E), Exact(log),
           log # <<>> => log[Len(log)].after \in -MaxInt - 1 .. MaxInt
    PROVE  DerivedBalance(log) = IF log = <<>> THEN 0 ELSE log[Len(log)].after
<1> DEFINE n == Len(log)
           end == [i \in 0 .. n |-> IF i = 0 THEN 0 ELSE log[i].after]
           f == [i \in DOMAIN log |-> Signed(log[i])]
<1>1. n \in Nat /\ DOMAIN log = 1 .. n /\ (log = <<>> <=> n = 0)
  OBVIOUS
<1>2. \A i \in 1 .. n : /\ log[i].amount \in Int /\ Signed(log[i]) \in Int
                        /\ log[i].before \in Int /\ log[i].after \in Int
  BY <1>1 DEF Signed
<1> HIDE DEF n
<1>3. (\A i \in 0 .. n : end[i] \in Int) /\ end[0] = 0
  BY <1>1, <1>2
<1>4. ASSUME NEW i \in 1 .. n PROVE f[i] = end[i] - end[i - 1]
  <2>1. end[i] = log[i].after
    BY <1>1
  <2>2. end[i - 1] = IF i = 1 THEN 0 ELSE log[i - 1].after
    BY <1>1
  <2>3. end[i - 1] = log[i].before
    BY <1>1, <2>2 DEF Exact, Linked
  <2>4. f[i] = Signed(log[i])
    BY <1>1
  <2>5. /\ log[i].after = log[i].before + Signed(log[i])
        /\ log[i].before \in Int /\ Signed(log[i]) \in Int
    BY <1>1, <1>2 DEF Exact
  <2>6. log[i].after - log[i].before = Signed(log[i])
    BY <2>5
  <2> HIDE DEF f, end
  <2> QED
    BY <2>1, <2>3, <2>4, <2>6
<1>5. Total(f, 1 .. n) = end[n]
  <2> HIDE DEF f, end
  <2>1. \A i \in 1 .. n : f[i] = end[i] - end[i - 1]
    BY <1>4
  <2>2. n \in Nat
    BY <1>1
  <2>3. \A i \in 0 .. n : end[i] \in Int
    BY <1>3
  <2>4. end[0] = 0
    BY <1>3
  <2> QED
    BY <2>1, <2>2, <2>3, <2>4, TotalChain
<1>6. DerivedBalance(log) = Int64(Total(f, 1 .. n))
  BY <1>1 DEF DerivedBalance
<1>7. end[n] = IF n = 0 THEN 0 ELSE log[n].after
  BY <1>1
<1>8. end[n] \in -MaxInt - 1 .. MaxInt
  BY <1>1, <1>7, MaxIntAssumption DEF n
<1>9. Int64(end[n]) = end[n]
  <2> HIDE DEF end
  <2> QED
    BY <1>8, Int64Range
<1> QED
  BY <1>1, <1>5, <1>6, <1>7, <1>9 DEF n

\* Two members.
LEMMA PairCardinality ==
    ASSUME NEW a, NEW b, a # b
    PROVE  IsFiniteSet({a, b}) /\ Cardinality({a, b}) = 2
<1>1. IsFiniteSet({a}) /\ Cardinality({a}) = 1 /\ b \notin {a} /\ {a} \cup {b} = {a, b}
  BY FS_Singleton
<1>2. IsFiniteSet({a} \cup {b}) /\ Cardinality({a} \cup {b}) = 1 + 1
  BY <1>1, FS_AddElement
<1> QED
  BY <1>1, <1>2

-----------------------------------------------------------------------------
(* The tables that MoneyMovement writes are healthy.                       *)

\* A transaction moves a positive amount to a wallet from none or from another.
RowInv ==
    \A i \in DOMAIN transactions :
        /\ transactions[i].amount > 0
        /\ transactions[i].source # transactions[i].destination
        /\ transactions[i].source = None <=> transactions[i].type = "TOP_UP"

\* A step keeps it: a commit appends what the checks have passed.
LEMMA RowStep ==
    ASSUME IsolationInv, RowInv, [Next]_vars
    PROVE  RowInv'
<1>1. CASE UNCHANGED tables
  BY <1>1 DEF tables, RowInv
<1>2. ASSUME NEW h \in Handlers, pc[h] = "commit", Publish(h)
      PROVE  RowInv'
  <2> DEFINE t == TransactionRow(req[h])
  <2>1. /\ transactions \in Seq(Transaction) /\ transactions' \in Seq(Transaction)
        /\ transactions' = Append(transactions, t)
    BY <1>2, PublishEffect, PublishTypes DEF IsolationInv, TypeOK
  <2>2. /\ t.amount > 0 /\ t.source # t.destination
        /\ t.source = None <=> t.type = "TOP_UP"
    BY <1>2, CommitFacts DEF TransactionRow
  <2> HIDE DEF t
  <2>3. \A i \in DOMAIN transactions' :
          \/ i \in DOMAIN transactions /\ transactions'[i] = transactions[i]
          \/ transactions'[i] = t
    BY <2>1
  <2> QED
    BY <2>2, <2>3 DEF RowInv
<1> QED
  BY <1>1, <1>2, TableStep

\* The entries of a transaction are those of its sides.
LEMMA EntriesOfSides ==
    ASSUME IsolationInv, JournalComplete, NEW id \in DOMAIN transactions,
           NEW c \in EntriesOf(ledger, id)
    PROVE  LET t == transactions[id] IN
           /\ c[1] \in Wallets
           /\ EntryAt(ledger, c).amount = t.amount
           /\ EntryAt(ledger, c).type \in {"CREDIT", "DEBIT"}
           /\ EntryAt(ledger, c).type = "CREDIT" => c[1] = t.destination
           /\ EntryAt(ledger, c).type = "DEBIT" => c[1] = t.source
<1>1. ledger \in [Wallets -> Seq(LedgerEntry)]
  BY DEF IsolationInv, TypeOK
<1>2. c \in Cells(ledger) /\ EntryAt(ledger, c).txn = id
  BY DEF EntriesOf
<1>3. PICK w \in Wallets : \E i \in DOMAIN ledger[w] :
        c = <<w, i>> /\ c[1] = w /\ c[2] = i /\ EntryAt(ledger, c) = ledger[w][i]
  BY <1>1, <1>2, CellIs
<1>4. PICK i \in DOMAIN ledger[w] : c[1] = w /\ EntryAt(ledger, c) = ledger[w][i]
  BY <1>3
<1>5. ledger[w][i] \in LedgerEntry
  BY <1>1
<1>6. EntryBelongs(w, ledger[w][i]) /\ ledger[w][i].txn = id
  BY <1>2, <1>4 DEF JournalComplete
<1>7. ledger[w][i].type \in {"CREDIT", "DEBIT"}
  BY <1>5 DEF LedgerEntry
<1> QED
  BY <1>4, <1>6, <1>7 DEF EntryBelongs

\* Entries of one transaction in one wallet are one entry.
LEMMA EntriesOfOneWallet ==
    ASSUME IsolationInv, JournalComplete, NEW id,
           NEW c \in EntriesOf(ledger, id), NEW d \in EntriesOf(ledger, id), c[1] = d[1]
    PROVE  c = d
<1>1. ledger \in [Wallets -> Seq(LedgerEntry)]
  BY DEF IsolationInv, TypeOK
<1>2. /\ c \in Cells(ledger) /\ EntryAt(ledger, c).txn = id
      /\ d \in Cells(ledger) /\ EntryAt(ledger, d).txn = id
  BY DEF EntriesOf
<1>a. PICK w \in Wallets : \E i \in DOMAIN ledger[w] :
        c = <<w, i>> /\ c[1] = w /\ EntryAt(ledger, c) = ledger[w][i]
  BY <1>1, <1>2, CellIs
<1>3. PICK i \in DOMAIN ledger[w] :
        c = <<w, i>> /\ c[1] = w /\ EntryAt(ledger, c) = ledger[w][i]
  BY <1>a
<1>b. PICK v \in Wallets : \E j \in DOMAIN ledger[v] :
        d = <<v, j>> /\ d[1] = v /\ EntryAt(ledger, d) = ledger[v][j]
  BY <1>1, <1>2, CellIs
<1>4. PICK j \in DOMAIN ledger[v] :
        d = <<v, j>> /\ d[1] = v /\ EntryAt(ledger, d) = ledger[v][j]
  BY <1>b
<1>5. v = w /\ ledger[w][i].txn = ledger[w][j].txn /\ j \in DOMAIN ledger[w]
  BY <1>2, <1>3, <1>4
<1>6. i = j
  BY <1>5, OneEntryEach
<1> QED
  BY <1>3, <1>4, <1>5, <1>6

\* The credit and, if it has a source, the debit of a transaction are there.
LEMMA EntryOfSide ==
    ASSUME IsolationInv, NEW w \in Wallets, NEW id, NEW type, HasEntry(w, id, type)
    PROVE  \E c \in EntriesOf(ledger, id) : c[1] = w /\ EntryAt(ledger, c).type = type
<1>1. ledger \in [Wallets -> Seq(LedgerEntry)]
  BY DEF IsolationInv, TypeOK
<1>2. PICK j \in DOMAIN ledger[w] : ledger[w][j].txn = id /\ ledger[w][j].type = type
  BY DEF HasEntry
<1>3. <<w, j>> \in Cells(ledger) /\ EntryAt(ledger, <<w, j>>) = ledger[w][j]
  BY <1>1, CellFacts
<1>4. <<w, j>> \in EntriesOf(ledger, id)
  BY <1>2, <1>3 DEF EntriesOf
<1>5. <<w, j>>[1] = w
  OBVIOUS
<1> QED
  BY <1>2, <1>3, <1>4, <1>5

\* The report finds no fault with a transaction.
LEMMA TransactionHealthy ==
    ASSUME IsolationInv, JournalComplete, RowInv, NEW id \in DOMAIN transactions
    PROVE  \/ /\ transactions[id].type = "TOP_UP"
              /\ ValidateTopUpTransaction(transactions[id], id, ledger)
           \/ /\ transactions[id].type = "TRANSFER"
              /\ ValidateTransferTransaction(transactions[id], id, ledger)
<1> DEFINE t == transactions[id]
           cs == EntriesOf(ledger, id)
<1>1. t \in Transaction
  BY DEF IsolationInv, TypeOK
<1>2. /\ t.destination \in Wallets /\ t.destination # None
      /\ t.source # t.destination
      /\ t.source = None <=> t.type = "TOP_UP"
      /\ t.source # None => t.source \in Wallets
  BY <1>1, NoneAssumption DEF Transaction, RowInv
<1>3. /\ HasEntry(t.destination, id, "CREDIT")
      /\ t.source # None => HasEntry(t.source, id, "DEBIT")
  BY DEF JournalComplete
<1>4. PICK c \in cs : c[1] = t.destination /\ EntryAt(ledger, c).type = "CREDIT"
  <2> HIDE DEF t
  <2> QED
    BY <1>2, <1>3, EntryOfSide
<1>5. ASSUME NEW d \in cs
      PROVE  /\ EntryAt(ledger, d).amount = t.amount
             /\ d[1] \in {t.source, t.destination}
             /\ d[1] \in Wallets
             /\ d[1] = t.destination => d = c
  <2>1. /\ EntryAt(ledger, d).amount = t.amount
        /\ d[1] \in {t.source, t.destination} /\ d[1] \in Wallets
    BY <1>5, EntriesOfSides
  <2>2. d[1] = t.destination => d = c
    BY <1>4, <1>5, EntriesOfOneWallet
  <2> QED
    BY <2>1, <2>2
<1> HIDE DEF t, cs
<1>6. CASE t.type = "TOP_UP"
  <2>1. t.source = None
    BY <1>2, <1>6
  <2>2. cs = {c}
    BY <1>4, <1>5, <2>1, NoneAssumption
  <2>3. Cardinality(cs) = 1
    BY <2>2, FS_Singleton
  <2> QED
    BY <1>2, <1>4, <1>5, <1>6, <2>1, <2>2, <2>3 DEF ValidateTopUpTransaction, t, cs
<1>7. CASE t.type = "TRANSFER"
  <2>1. t.source # None /\ t.source \in Wallets
    BY <1>2, <1>7
  <2>2. PICK e \in cs : e[1] = t.source /\ EntryAt(ledger, e).type = "DEBIT"
    BY <1>3, <2>1, EntryOfSide DEF cs
  <2>3. ASSUME NEW d \in cs PROVE d \in {c, e}
    <3>1. d[1] = t.source => d = e
      BY <2>2, <2>3, EntriesOfOneWallet DEF cs
    <3> QED
      BY <1>5, <2>3, <3>1
  <2>4. c # e /\ cs = {c, e}
    BY <1>2, <1>4, <2>2, <2>3
  <2>5. Cardinality(cs) = 2
    BY <2>4, PairCardinality
  <2>6. \A d \in cs : EntryAt(ledger, d).amount = t.amount
    BY <1>5
  <2> QED
    BY <1>2, <1>4, <1>7, <2>1, <2>2, <2>5, <2>6 DEF ValidateTransferTransaction, t, cs
<1>8. t.type \in {"TOP_UP", "TRANSFER"}
  BY <1>1 DEF Transaction
<1> QED
  BY <1>6, <1>7, <1>8 DEF t

\* What the tables of MoneyMovement have in them of a wallet.
LEMMA WalletHealthy ==
    ASSUME IsolationInv, JournalComplete, RowInv, LedgerExplainsBalance, NEW w \in Wallets
    PROVE  /\ balance[w] = DerivedBalance(ledger[w])
           /\ \A i \in DOMAIN ledger[w] :
                /\ ledger[w][i].txn \in DOMAIN transactions
                /\ ValidateLedgerEntryMath(ledger[w][i])
                /\ Linked(ledger[w], i)
<1> DEFINE log == ledger[w]
<1>1. log \in Seq(LedgerEntry)
  BY DEF IsolationInv, TypeOK
<1>2. Chain(log, balance[w])
  BY DEF LedgerExplainsBalance
<1>3. \A e \in LedgerEntry : e.amount \in Int /\ e.before \in Int /\ e.after \in Int
  BY AmountAssumption DEF LedgerEntry
<1>4. ASSUME NEW i \in DOMAIN log
      PROVE  /\ log[i].txn \in DOMAIN transactions
             /\ log[i].amount > 0
    BY <1>4 DEF JournalComplete, EntryBelongs, RowInv
<1> HIDE DEF log
<1>5. ASSUME NEW i \in DOMAIN log
      PROVE  /\ log[i].amount \in Int /\ log[i].amount <= MaxInt
             /\ log[i].before \in Int /\ log[i].after \in Int
             /\ log[i].type \in {"CREDIT", "DEBIT"}
  <2>1. log[i] \in LedgerEntry
    BY <1>1
  <2> QED
    BY <2>1, AmountAssumption DEF LedgerEntry
<1>6. ASSUME NEW i \in DOMAIN log
      PROVE  Linked(log, i) /\ log[i].after = log[i].before + Signed(log[i])
  <2>1. /\ Linked(log, i)
        /\ log[i].after = IF log[i].type = "CREDIT" THEN log[i].before + log[i].amount
                          ELSE log[i].before - log[i].amount
    BY <1>2 DEF Chain, Linked
  <2> QED
    BY <1>5, <2>1 DEF Signed
<1>7. balance[w] = (IF log = <<>> THEN 0 ELSE log[Len(log)].after)
      /\ balance[w] \in 0 .. MaxInt
  BY <1>2 DEF Chain, IsolationInv, TypeOK
<1>8. DerivedBalance(log) = balance[w]
  <2>1. log # <<>> => log[Len(log)].after \in -MaxInt - 1 .. MaxInt
    BY <1>7, MaxIntAssumption
  <2> QED
    BY <1>1, <1>3, <1>6, <1>7, <2>1, DerivedIsEnd DEF Exact
<1>9. ASSUME NEW i \in DOMAIN log PROVE ValidateLedgerEntryMath(log[i])
  <2>1. Int64(log[i].amount) = log[i].amount
    BY <1>4, <1>5, Int64Range, MaxIntAssumption
  <2>2. /\ log[i].type = "CREDIT" => log[i].after - log[i].before = log[i].amount
        /\ log[i].type = "DEBIT" => log[i].before - log[i].after = log[i].amount
    BY <1>5, <1>6 DEF Signed
  <2> QED
    BY <1>4, <1>5, <2>1, <2>2 DEF ValidateLedgerEntryMath
<1> QED
  BY <1>4, <1>6, <1>8, <1>9 DEF log

\* The report of the tables as they are, read at once and in the order of the
\* commits, is healthy.
LEMMA BooksHealthy ==
    ASSUME IsolationInv, JournalComplete, RowInv, LedgerExplainsBalance
    PROVE  Healthy(balance, transactions, ledger)
<1>1. DOMAIN ledger = Wallets /\ DOMAIN balance = Wallets
  BY DEF IsolationInv, TypeOK
<1>2. TransactionIssues(transactions, ledger) = {}
  BY TransactionHealthy DEF TransactionIssues
<1>3. /\ LedgerIssues(balance, transactions, ledger) = {}
      /\ ValidateWalletLedgerChain(balance, ledger) = {}
      /\ WalletIssues(balance, ledger) = {}
  <2>1. \A w \in Wallets : \A i \in DOMAIN ledger[w] :
          Sound(balance, transactions, ledger, w, i)
    BY <1>1, WalletHealthy DEF Sound
  <2> QED
    BY <1>1, <2>1, WalletHealthy, EntriesJudged
<1> QED
  BY <1>2, <1>3 DEF Healthy

-----------------------------------------------------------------------------
(* A run among the movements.                                              *)

\* Reconciliation changes nothing of MoneyMovement.
LEMMA RunStep ==
    ASSUME [RNext]_everything
    PROVE  [Next]_vars
  BY DEF RNext, CNext, Move, Tick, ListWallets, ListTransactions, ListLedgerEntries,
         RunFails, everything, all, vars

\* So all that is proved of MoneyMovement holds of it here.
LEMMA RunsOnMoney == RSpec => Spec
<1>1. RInit => Init
  BY DEF RInit, CInit
<1> QED
  BY <1>1, RunStep, PTL DEF RSpec, Spec

\* What a run has read: balances, and the transactions there were then.
ReadInv ==
    /\ at \in {"transactions", "entries"} => ws \in [Wallets -> Int]
    /\ at = "entries" =>
         /\ ts \in Seq(Transaction)
         /\ \A i \in DOMAIN ts : i \in DOMAIN transactions /\ ts[i] = transactions[i]

\* A step keeps what was read a part of what is there.
LEMMA ReadStep ==
    ASSUME IsolationInv, IsolationInv', ReadInv, [RNext]_everything
    PROVE  ReadInv'
<1>0. HistoryStep
  BY RunStep, HistoryIsStep
<1>1. balance \in [Wallets -> Int] /\ transactions \in Seq(Transaction)
  <2>1. balance \in [Wallets -> 0 .. MaxInt] /\ transactions \in Seq(Transaction)
    BY DEF IsolationInv, TypeOK
  <2> QED
    BY <2>1, MaxIntAssumption
<1>2. CASE ListWallets
  BY <1>1, <1>2 DEF ListWallets, ReadInv
<1>3. CASE ListTransactions
  BY <1>1, <1>3 DEF ListTransactions, ReadInv, all, vars, tables
<1>4. CASE ListLedgerEntries \/ RunFails
  BY <1>4 DEF ListLedgerEntries, RunFails, ReadInv
<1>5. CASE UNCHANGED run
  BY <1>0, <1>5 DEF run, ReadInv, HistoryStep
<1> QED
  BY <1>2, <1>3, <1>4, <1>5 DEF RNext, everything

\* What a run has read, judged with the ledger of the moment, is healthy exactly when
\* it is what the tables hold.
LEMMA Verdict ==
    ASSUME IsolationInv, JournalComplete, RowInv, LedgerExplainsBalance, ReadInv,
           at = "entries"
    PROVE  Healthy(ws, ts, ledger) <=> ws = balance /\ ts = transactions
<1>1. /\ DOMAIN ledger = Wallets /\ balance \in [Wallets -> 0 .. MaxInt]
      /\ transactions \in Seq(Transaction)
  BY DEF IsolationInv, TypeOK
<1>2. /\ ws \in [Wallets -> Int] /\ ts \in Seq(Transaction)
      /\ \A i \in DOMAIN ts : i \in DOMAIN transactions /\ ts[i] = transactions[i]
  BY DEF ReadInv
<1>3. ASSUME Healthy(ws, ts, ledger) PROVE ws = balance /\ ts = transactions
  <2>1. /\ \A w \in Wallets : ws[w] = DerivedBalance(ledger[w])
        /\ \A w \in Wallets : \A i \in DOMAIN ledger[w] : ledger[w][i].txn \in DOMAIN ts
    <3>1. LedgerIssues(ws, ts, ledger) = {} /\ WalletIssues(ws, ledger) = {}
      BY <1>3 DEF Healthy
    <3>2. DOMAIN ledger = DOMAIN ws
      BY <1>1, <1>2
    <3> QED
      BY <1>1, <3>1, <3>2, EntriesJudged DEF Sound
  <2>2. \A w \in Wallets : ws[w] = balance[w]
    BY <2>1, WalletHealthy
  <2>3. ws = balance
    BY <1>1, <1>2, <2>2
  <2>4. ASSUME NEW id \in DOMAIN transactions PROVE id \in DOMAIN ts
    <3>1. HasEntry(transactions[id].destination, id, "CREDIT")
      BY DEF JournalComplete
    <3>2. transactions[id].destination \in Wallets
      <4>1. transactions[id] \in Transaction
        BY <1>1
      <4> QED
        BY <4>1 DEF Transaction
    <3> QED
      BY <2>1, <3>1, <3>2 DEF HasEntry
  <2>5. DOMAIN ts = DOMAIN transactions
    BY <1>2, <2>4
  <2>6. Len(ts) = Len(transactions)
    BY <1>1, <1>2, <2>5
  <2>7. \A i \in 1 .. Len(ts) : ts[i] = transactions[i]
    BY <1>1, <1>2
  <2>8. ts = transactions
    BY <1>1, <1>2, <2>6, <2>7, SeqEqual
  <2> QED
    BY <2>3, <2>8
<1>4. ASSUME ws = balance, ts = transactions PROVE Healthy(ws, ts, ledger)
  BY <1>4, BooksHealthy
<1> QED
  BY <1>3, <1>4

\* The rows of the transactions table are what the checks let through, always.
LEMMA Rows == Spec => []RowInv
<1>1. Init => RowInv
  BY DEF Init, RowInv
<1> QED
  BY <1>1, Isolation, RowStep, PTL DEF Spec

\* A commit between the reads of a run is always reported, never mistaken for a
\* consistent state, and a run that nothing comes between is healthy.
THEOREM VerdictCorrect == RSpec => []VerdictIffSnapshot
<1>1. RInit => ReadInv
  BY DEF RInit, ReadInv
<1>2. ASSUME IsolationInv, JournalComplete, RowInv, LedgerExplainsBalance, ReadInv
      PROVE  VerdictIffSnapshot
  BY <1>2, Verdict DEF VerdictIffSnapshot
<1>3. RSpec => [](IsolationInv /\ JournalComplete /\ RowInv /\ LedgerExplainsBalance)
  BY RunsOnMoney, Isolation, Journal, Rows, LedgerCorrect, PTL
<1> QED
  BY <1>1, <1>2, <1>3, ReadStep, PTL DEF RSpec

-----------------------------------------------------------------------------
(* The order of created_at.                                                *)

\* Where a handler is that has stamped its entries.
Stamped == {"audit", "delivery", "complete", "commit"}

\* A time, and the created_at a host makes of it.
Moment == [time : Nat, at : Nat]

\* Both are numbers.
LEMMA MomentFacts == \A m \in Moment : m.time \in Nat /\ m.at \in Nat
  BY DEF Moment

\* Every entry has its time and its created_at, which is ahead by no more than the skew.
CreatedInv ==
    /\ now \in Nat /\ ahead \in [Handlers -> 0 .. Skew]
    /\ stamp \in [Handlers -> Nat] /\ \A h \in Handlers : stamp[h] <= now
    /\ created \in [Wallets -> Seq(Moment)]
    /\ \A w \in Wallets :
         /\ Len(created[w]) = Len(ledger[w])
         /\ \A i \in DOMAIN created[w] :
              /\ created[w][i].time <= now
              /\ created[w][i].at - created[w][i].time \in 0 .. Skew

\* Times rise along a ledger, and who holds the wallet's lock took his time last.
OrderInv ==
    \A w \in Wallets :
        /\ \A i, j \in DOMAIN created[w] : i < j => created[w][i].time <= created[w][j].time
        /\ \A h \in Handlers : lock[w] = h /\ pc[h] \in Stamped =>
             \A i \in DOMAIN created[w] : created[w][i].time <= stamp[h]

\* Short of its commit a handler leaves the ledger alone, and comes past the stamp with
\* the locks it has.
LEMMA ToStamped ==
    ASSUME IsolationInv, NEW h \in Handlers, Action(h)
    PROVE  \/ Commit(h) \/ CommitUnacknowledged(h)
           \/ /\ UNCHANGED ledger
              /\ pc'[h] \in Stamped =>
                   /\ lock' = lock
                   /\ pc[h] \in Stamped \/ (pc[h] = "entries" /\ pc'[h] = "audit")
<1> DEFINE Keeps == /\ UNCHANGED ledger
                    /\ pc'[h] \in Stamped =>
                         /\ lock' = lock
                         /\ pc[h] \in Stamped \/ (pc[h] = "entries" /\ pc'[h] = "audit")
<1> USE DEF Goto, tables, sessions, Stamped
<1>0. pc \in [Handlers -> Places]
  BY DEF IsolationInv, TypeOK
<1>1. ASSUME NEW status, Rollback(h, status) PROVE Keeps
  BY <1>0, <1>1 DEF Rollback
<1>2. ASSUME NEW place, NEW statement, NEW next, Execute(h, place, statement, next),
             \/ next \notin Stamped
             \/ place \in Stamped
             \/ place = "entries" /\ next = "audit"
      PROVE  Keeps
  BY <1>0, <1>2 DEF Execute
<1>3. CASE ReceiveTopUp(h) \/ ReceiveTransfer(h)
  BY <1>0, <1>3 DEF ReceiveTopUp, ReceiveTransfer, Receive
<1>4. CASE Reserve(h) \/ LockWallet(h) \/ TopUpLookup(h) \/ TopUpCheck(h)
  BY <1>0, <1>4 DEF Reserve, LockWallet, TopUpLookup, TopUpCheck
<1>5. CASE Existing(h) \/ Return(h) \/ Enqueue(h)
  BY <1>0, <1>5 DEF Existing, Return, Enqueue
<1>6. CASE CreateTransaction(h) \/ CreateEntries(h) \/ CreateAudit(h) \/ MarkCompleted(h)
           \/ UpdateSource(h)
  BY <1>2, <1>6 DEF CreateTransaction, CreateEntries, CreateAudit, MarkCompleted,
                    UpdateSource
<1>7. CASE UpdateDestination(h)
  BY <1>1, <1>2, <1>7 DEF UpdateDestination
<1>8. CASE CreateDelivery(h)
  <2>1. CASE WebhookEnabled
    BY <1>2, <1>8, <2>1 DEF CreateDelivery
  <2>2. CASE ~WebhookEnabled
    BY <1>0, <1>8, <2>2 DEF CreateDelivery
  <2> QED
    BY <2>1, <2>2
<1>9. CASE TransferLookup(h)
  BY <1>0, <1>1, <1>9 DEF TransferLookup
<1>10. CASE TransferCheck(h)
  BY <1>0, <1>1, <1>10 DEF TransferCheck
<1>11. CASE Fail(h)
  BY <1>1, <1>11 DEF Fail
<1>12. CASE pc[h] # "idle" /\ Steps(h)
  BY <1>4, <1>5, <1>6, <1>7, <1>8, <1>12 DEF Steps
<1> QED
  BY <1>3, <1>4, <1>5, <1>6, <1>9, <1>10, <1>11, <1>12 DEF Action

\* What a step of MoneyMovement may do to one wallet, as far as the clock goes: an entry
\* comes from the commit of the lock's holder, who lets go of it.
WalletStep(w) ==
    /\ ledger'[w] # ledger[w] =>
         /\ lock[w] \in Handlers /\ pc[lock[w]] = "commit"
         /\ Len(ledger'[w]) = Len(ledger[w]) + 1
         /\ \A g \in Handlers : lock'[w] # g
    /\ \A g \in Handlers : lock'[w] = g /\ pc'[g] \in Stamped =>
         /\ lock[w] = g
         /\ pc[g] \in Stamped \/ Stamps(g)

\* A commit is a WalletStep: what it publishes goes to the two wallets of the request,
\* whose locks its handler holds until then.
LEMMA CommitOfWallet ==
    ASSUME IsolationInv, NEW h \in Handlers, Commit(h) \/ CommitUnacknowledged(h),
           NEW w \in Wallets
    PROVE  WalletStep(w)
<1>1. pc[h] = "commit" /\ Publish(h) /\ EndTransaction(h)
  BY DEF Commit, CommitUnacknowledged
<1>2. pc \in [Handlers -> Places] /\ ledger \in [Wallets -> Seq(LedgerEntry)] /\ TypeOK
  BY DEF IsolationInv, TypeOK
<1>3. pc'[h] \notin Stamped
  BY <1>2 DEF Commit, CommitUnacknowledged, Goto, Stamped
<1>4. lock'[w] = IF lock[w] = h THEN None ELSE lock[w]
  BY <1>1 DEF EndTransaction
<1>5. /\ w \notin {Destination(req[h]), Source(req[h])} => ledger'[w] = ledger[w]
      /\ w \in {Destination(req[h]), Source(req[h])} =>
           \E e : ledger'[w] = Append(ledger[w], e)
  <2>1. ledger' = [v \in Wallets |->
          IF v = Destination(req[h]) THEN Append(ledger[v], CreditEntry(h, NextId))
          ELSE IF v = Source(req[h]) THEN Append(ledger[v], DebitEntry(h, NextId))
          ELSE ledger[v]]
    BY <1>1, PublishEffect
  <2>2. ledger'[w] =
          IF w = Destination(req[h]) THEN Append(ledger[w], CreditEntry(h, NextId))
          ELSE IF w = Source(req[h]) THEN Append(ledger[w], DebitEntry(h, NextId))
          ELSE ledger[w]
    BY <2>1
  <2> QED
    BY <2>2, Zenon
<1>6. w \in {Destination(req[h]), Source(req[h])} => lock[w] = h
  BY <1>1, CommitFacts, NoneAssumption
<1>7. ASSUME NEW g \in Handlers, g # h PROVE Untouched(g)
  <2>1. Action(h)
    BY <1>1 DEF Action, Steps
  <2> QED
    BY <1>2, <1>7, <2>1, OthersUntouched
<1>8. ASSUME ledger'[w] # ledger[w]
      PROVE  /\ lock[w] \in Handlers /\ pc[lock[w]] = "commit"
             /\ Len(ledger'[w]) = Len(ledger[w]) + 1
             /\ \A g \in Handlers : lock'[w] # g
  BY <1>1, <1>2, <1>4, <1>5, <1>6, <1>8, HandlerAssumption
<1>9. ASSUME NEW g \in Handlers, lock'[w] = g, pc'[g] \in Stamped
      PROVE  lock[w] = g /\ pc[g] \in Stamped
  BY <1>3, <1>7, <1>9 DEF Untouched
<1> QED
  BY <1>8, <1>9 DEF WalletStep

\* Every step of MoneyMovement is a WalletStep, a crash and a failure included.
LEMMA EveryWalletStep ==
    ASSUME IsolationInv, [Next]_vars, NEW w \in Wallets
    PROVE  WalletStep(w)
<1>1. ASSUME NEW h \in Handlers, Action(h) PROVE WalletStep(w)
  <2>1. CASE Commit(h) \/ CommitUnacknowledged(h)
    BY <2>1, CommitOfWallet
  <2>2. ASSUME UNCHANGED ledger,
               pc'[h] \in Stamped =>
                   /\ lock' = lock
                   /\ pc[h] \in Stamped \/ (pc[h] = "entries" /\ pc'[h] = "audit")
        PROVE  WalletStep(w)
    <3>1. ASSUME NEW g \in Handlers, g # h PROVE Untouched(g)
      BY <1>1, <3>1, OthersUntouched DEF IsolationInv
    <3>2. ASSUME NEW g \in Handlers, lock'[w] = g, pc'[g] \in Stamped
          PROVE  lock[w] = g /\ (pc[g] \in Stamped \/ Stamps(g))
      BY <2>2, <3>1, <3>2 DEF Untouched, Stamps
    <3> QED
      BY <2>2, <3>2 DEF WalletStep
  <2> QED
    BY <1>1, <2>1, <2>2, ToStamped
<1>2. CASE Dequeue \/ UNCHANGED vars
  <2>1. ledger' = ledger /\ lock' = lock /\ pc' = pc
    BY <1>2 DEF Dequeue, vars, tables, sessions, process
  <2> QED
    BY <2>1 DEF WalletStep
<1>3. CASE Crash
  BY <1>3 DEF Crash, tables, WalletStep, Stamped
<1> QED
  BY <1>1, <1>2, <1>3, StepKinds

\* A step of the clocks: an entry brings the time and the clock of the lock's holder.
LEMMA MoveClock ==
    ASSUME IsolationInv, CreatedInv, Move, NEW w \in Wallets
    PROVE  \/ created'[w] = created[w] /\ ledger'[w] = ledger[w]
           \/ \E g \in Handlers :
                /\ lock[w] = g /\ pc[g] \in Stamped
                /\ created'[w] = Append(created[w],
                                        [time |-> stamp[g], at |-> stamp[g] + ahead[g]])
                /\ Len(ledger'[w]) = Len(ledger[w]) + 1
                /\ \A f \in Handlers : lock'[w] # f
<1>1. WalletStep(w)
  BY EveryWalletStep DEF Move
<1>2. created'[w] = IF ledger'[w] = ledger[w] THEN created[w]
                    ELSE Append(created[w], [time |-> stamp[lock[w]],
                                             at |-> stamp[lock[w]] + ahead[lock[w]]])
  BY DEF Move
<1>3. CASE ledger'[w] = ledger[w]
  BY <1>2, <1>3
<1>4. CASE ledger'[w] # ledger[w]
  <2>1. /\ lock[w] \in Handlers /\ pc[lock[w]] = "commit"
        /\ Len(ledger'[w]) = Len(ledger[w]) + 1
        /\ \A f \in Handlers : lock'[w] # f
    BY <1>1, <1>4 DEF WalletStep
  <2> QED
    BY <1>2, <1>4, <2>1 DEF Stamped
<1> QED
  BY <1>3, <1>4

\* The stamps after a step.
LEMMA MoveStamps ==
    ASSUME CreatedInv, Move, NEW h \in Handlers
    PROVE  /\ stamp' \in [Handlers -> Nat] /\ stamp'[h] <= now
           /\ Stamps(h) => stamp'[h] = now
           /\ ~Stamps(h) /\ pc'[h] \in Stamped => stamp'[h] = stamp[h]
<1>1. stamp' = [g \in Handlers |-> CASE Stamps(g) -> now
                                     [] pc'[g] \notin InTx -> 0
                                     [] OTHER -> stamp[g]]
  BY DEF Move
<1>2. ASSUME NEW g \in Handlers
      PROVE  stamp'[g] = IF Stamps(g) THEN now
                         ELSE IF pc'[g] \notin InTx THEN 0 ELSE stamp[g]
  <2>1. stamp'[g] = CASE Stamps(g) -> now
                      [] pc'[g] \notin InTx -> 0
                      [] OTHER -> stamp[g]
    BY <1>1
  <2>2. Stamps(g) => pc'[g] \in InTx
    BY DEF Stamps, InTx, Reserved, Locked, Prepared
  <2> QED
    BY <2>1, <2>2
<1>3. /\ now \in Nat /\ stamp \in [Handlers -> Nat] /\ \A g \in Handlers : stamp[g] <= now
      /\ DOMAIN stamp' = Handlers /\ stamp' = [g \in Handlers |-> stamp'[g]]
  BY <1>1 DEF CreatedInv
<1>4. pc'[h] \in Stamped => pc'[h] \in InTx
  BY DEF Stamped, InTx, Reserved, Locked, Prepared
<1>5. \A g \in Handlers : stamp'[g] \in Nat /\ stamp'[g] <= now
  BY <1>2, <1>3
<1>6. stamp' \in [Handlers -> Nat]
  BY <1>3, <1>5
<1> QED
  BY <1>2, <1>4, <1>5, <1>6

\* A step of MoneyMovement keeps the times of the entries.
LEMMA MoveCreated ==
    ASSUME IsolationInv, IsolationInv', CreatedInv, Move
    PROVE  CreatedInv'
<1>0. /\ now \in Nat /\ ahead \in [Handlers -> 0 .. Skew] /\ stamp \in [Handlers -> Nat]
      /\ \A h \in Handlers : stamp[h] <= now
      /\ created \in [Wallets -> Seq(Moment)]
      /\ now' = now /\ ahead' = ahead
      /\ DOMAIN created' = Wallets /\ created' = [w \in Wallets |-> created'[w]]
  BY DEF CreatedInv, Move
<1>1. stamp' \in [Handlers -> Nat] /\ \A h \in Handlers : stamp'[h] <= now
  <2>1. CASE Handlers = {}
    <3>1. stamp' \in [Handlers -> Nat]
      BY <2>1 DEF Move
    <3> QED
      BY <2>1, <3>1
  <2>2. CASE Handlers # {}
    BY <2>2, MoveStamps
  <2> QED
    BY <2>1, <2>2
<1>2. ASSUME NEW w \in Wallets
      PROVE  /\ created'[w] \in Seq(Moment)
             /\ Len(created'[w]) = Len(ledger'[w])
             /\ \A i \in DOMAIN created'[w] :
                  /\ created'[w][i].time <= now
                  /\ created'[w][i].at - created'[w][i].time \in 0 .. Skew
  <2>0. /\ created[w] \in Seq(Moment) /\ Len(created[w]) = Len(ledger[w])
        /\ \A i \in DOMAIN created[w] :
             /\ created[w][i].time <= now
             /\ created[w][i].at - created[w][i].time \in 0 .. Skew
    BY <1>0 DEF CreatedInv
  <2>1. CASE created'[w] = created[w] /\ ledger'[w] = ledger[w]
    BY <2>0, <2>1
  <2>2. ASSUME NEW g \in Handlers,
               created'[w] = Append(created[w],
                                    [time |-> stamp[g], at |-> stamp[g] + ahead[g]]),
               Len(ledger'[w]) = Len(ledger[w]) + 1
        PROVE  /\ created'[w] \in Seq(Moment)
               /\ Len(created'[w]) = Len(ledger'[w])
               /\ \A i \in DOMAIN created'[w] :
                    /\ created'[w][i].time <= now
                    /\ created'[w][i].at - created'[w][i].time \in 0 .. Skew
    <3> DEFINE e == [time |-> stamp[g], at |-> stamp[g] + ahead[g]]
    <3>1. stamp[g] \in Nat /\ stamp[g] <= now /\ ahead[g] \in 0 .. Skew /\ ahead[g] \in Nat
      BY <1>0, ClockAssumption
    <3>2. /\ e \in Moment /\ e.time <= now
          /\ e.at - e.time \in 0 .. Skew
      BY <3>1 DEF Moment
    <3>3. created'[w] = Append(created[w], e)
      BY <2>2
    <3> HIDE DEF e
    <3>4. /\ created'[w] \in Seq(Moment)
          /\ Len(created'[w]) = Len(created[w]) + 1
      BY <2>0, <3>2, <3>3
    <3>5. \A i \in DOMAIN created'[w] :
            (i \in DOMAIN created[w] /\ created'[w][i] = created[w][i]) \/ created'[w][i] = e
      BY <2>0, <3>3
    <3> QED
      BY <2>0, <2>2, <3>2, <3>4, <3>5
  <2> QED
    BY <2>1, <2>2, MoveClock
<1>3. created' \in [Wallets -> Seq(Moment)]
  BY <1>0, <1>2
<1> QED
  BY <1>0, <1>1, <1>2, <1>3 DEF CreatedInv

\* A step of MoneyMovement keeps the order of the times.
LEMMA MoveOrder ==
    ASSUME IsolationInv, CreatedInv, OrderInv, Move
    PROVE  OrderInv'
<1> SUFFICES ASSUME NEW w \in Wallets
             PROVE  /\ \A i, j \in DOMAIN created'[w] :
                         i < j => created'[w][i].time <= created'[w][j].time
                    /\ \A h \in Handlers : lock'[w] = h /\ pc'[h] \in Stamped =>
                         \A i \in DOMAIN created'[w] : created'[w][i].time <= stamp'[h]
  BY DEF OrderInv
<1>0. /\ created[w] \in Seq(Moment)
      /\ \A i \in DOMAIN created[w] : created[w][i].time <= now
      /\ \A i, j \in DOMAIN created[w] : i < j => created[w][i].time <= created[w][j].time
      /\ \A h \in Handlers : lock[w] = h /\ pc[h] \in Stamped =>
           \A i \in DOMAIN created[w] : created[w][i].time <= stamp[h]
  BY DEF CreatedInv, OrderInv
<1>1. WalletStep(w)
  BY EveryWalletStep DEF Move
<1>2. CASE created'[w] = created[w] /\ ledger'[w] = ledger[w]
  <2>1. ASSUME NEW h \in Handlers, lock'[w] = h, pc'[h] \in Stamped,
               NEW i \in DOMAIN created[w]
        PROVE  created[w][i].time <= stamp'[h]
    <3>1. lock[w] = h /\ (pc[h] \in Stamped \/ Stamps(h))
      BY <1>1, <2>1 DEF WalletStep
    <3>2. CASE Stamps(h)
      BY <1>0, <3>2, MoveStamps
    <3>3. CASE ~Stamps(h)
      <4>1. stamp'[h] = stamp[h]
        BY <2>1, <3>3, MoveStamps
      <4> QED
        BY <1>0, <3>1, <3>3, <4>1
    <3> QED
      BY <3>2, <3>3
  <2> QED
    BY <1>0, <1>2, <2>1
<1>3. ASSUME NEW g \in Handlers, lock[w] = g, pc[g] \in Stamped,
             created'[w] = Append(created[w],
                                  [time |-> stamp[g], at |-> stamp[g] + ahead[g]]),
             \A f \in Handlers : lock'[w] # f
      PROVE  \A i, j \in DOMAIN created'[w] :
                 i < j => created'[w][i].time <= created'[w][j].time
  <2> DEFINE e == [time |-> stamp[g], at |-> stamp[g] + ahead[g]]
             n == Len(created[w])
  <2>1. /\ created'[w] = Append(created[w], e) /\ e.time = stamp[g] /\ stamp[g] \in Nat
        /\ e \in Moment
    BY <1>3, ClockAssumption DEF CreatedInv, Moment
  <2>2. \A i \in DOMAIN created[w] : created[w][i].time <= e.time
    BY <1>0, <1>3, <2>1
  <2> HIDE DEF e
  <2>3. /\ n \in Nat /\ DOMAIN created[w] = 1 .. n /\ DOMAIN created'[w] = 1 .. n + 1
        /\ \A i \in 1 .. n : created'[w][i] = created[w][i]
        /\ created'[w][n + 1] = e
    BY <1>0, <2>1
  <2> HIDE DEF n
  <2> QED
    BY <1>0, <2>2, <2>3
<1> QED
  BY <1>2, <1>3, MoveClock

\* Any step keeps the times and their order.
LEMMA ClockStep ==
    ASSUME IsolationInv, IsolationInv', CreatedInv, OrderInv, [RNext]_everything
    PROVE  CreatedInv' /\ OrderInv'
<1>1. CASE Move
  BY <1>1, MoveCreated, MoveOrder
<1>2. CASE Tick
  <2>1. /\ now \in Nat /\ now' = now + 1 /\ UNCHANGED <<ledger, lock, pc, ahead, stamp, created>>
    BY <1>2 DEF Tick, vars, tables, sessions, process, CreatedInv
  <2>2. /\ ahead \in [Handlers -> 0 .. Skew] /\ stamp \in [Handlers -> Nat]
        /\ \A h \in Handlers : stamp[h] <= now
        /\ created \in [Wallets -> Seq(Moment)]
        /\ \A w \in Wallets :
             /\ Len(created[w]) = Len(ledger[w])
             /\ \A i \in DOMAIN created[w] :
                  /\ created[w][i].time <= now
                  /\ created[w][i].at - created[w][i].time \in 0 .. Skew
    BY DEF CreatedInv
  <2>3. /\ \A h \in Handlers : stamp[h] <= now + 1
        /\ \A w \in Wallets : \A i \in DOMAIN created[w] : created[w][i].time <= now + 1
    <3>1. ASSUME NEW w \in Wallets, NEW i \in DOMAIN created[w]
          PROVE  created[w][i].time \in Nat
      <4>1. created[w] \in Seq(Moment)
        BY <2>2
      <4> QED
        BY <4>1, MomentFacts
    <3> QED
      BY <2>1, <2>2, <3>1
  <2> QED
    BY <2>1, <2>2, <2>3 DEF CreatedInv, OrderInv
<1>3. CASE UNCHANGED all
  BY <1>3 DEF all, clocks, vars, tables, sessions, process, CreatedInv, OrderInv
<1> QED
  BY <1>1, <1>2, <1>3 DEF RNext, CNext, ListWallets, ListTransactions, ListLedgerEntries,
                          RunFails, everything

\* A rearrangement of 1 .. n that never goes down is the identity.
LEMMA OrderIsIdentity ==
    ASSUME NEW n \in Nat, NEW p \in Bijection(1 .. n, 1 .. n),
           \A j, k \in 1 .. n : j < k => p[j] <= p[k]
    PROVE  \A k \in 1 .. n : p[k] = k
<1> SUFFICES ASSUME NEW k0 \in 1 .. n, p[k0] # k0 PROVE FALSE
  OBVIOUS
<1>0. /\ p \in [1 .. n -> 1 .. n]
      /\ \A j, k \in 1 .. n : p[j] = p[k] => j = k
      /\ \A k \in 1 .. n : \E j \in 1 .. n : p[j] = k
  BY DEF Bijection, Injection, Surjection, IsInjective
<1> DEFINE S == {k \in 1 .. n : p[k] # k}
<1>1. S \in SUBSET Nat /\ S # {}
  OBVIOUS
<1>2. PICK m \in S : \A k \in S : m <= k
  <2> HIDE DEF S
  <2> QED
    BY <1>1, LeastNatural
<1>3. m \in 1 .. n /\ p[m] # m /\ p[m] \in 1 .. n
  BY <1>0, <1>2
<1>4. \A k \in 1 .. n : k < m => p[k] = k
  BY <1>2, <1>3
<1>5. p[m] > m
  <2>1. ~(p[m] < m)
    <3>1. p[m] < m => p[p[m]] = p[m]
      BY <1>3, <1>4
    <3>2. p[p[m]] = p[m] => p[m] = m
      BY <1>0, <1>3
    <3> QED
      BY <1>3, <3>1, <3>2
  <2> QED
    BY <1>3, <2>1
<1>6. PICK j \in 1 .. n : p[j] = m
  BY <1>0, <1>3
<1>7. j > m
  BY <1>3, <1>4, <1>5, <1>6
<1>8. p[m] <= p[j]
  BY <1>3, <1>7
<1> QED
  BY <1>3, <1>5, <1>6, <1>8

\* Stamps further apart than the clocks are put the entries in the order of the commits.
LEMMA SortedIsLedger ==
    ASSUME IsolationInv, CreatedInv, OrderInv, Apart
    PROVE  \A ls \in Sortings : ls = ledger
<1>1. ASSUME NEW w \in Wallets, NEW log \in SortLedgerEntries(w) PROVE log = ledger[w]
  <2> DEFINE D == DOMAIN ledger[w]
             n == Len(ledger[w])
  <2>1. /\ ledger[w] \in Seq(LedgerEntry) /\ created[w] \in Seq(Moment)
        /\ Len(created[w]) = n
    BY DEF IsolationInv, TypeOK, CreatedInv
  <2>2. n \in Nat /\ D = 1 .. n /\ DOMAIN created[w] = 1 .. n
    BY <2>1
  <2>3. ASSUME NEW i \in 1 .. n
        PROVE  /\ created[w][i].time \in Nat /\ created[w][i].at \in Nat
               /\ created[w][i].at - created[w][i].time \in 0 .. Skew
    <3>1. created[w][i] \in Moment
      BY <2>1, <2>2
    <3> QED
      BY <2>2, <3>1, MomentFacts DEF CreatedInv
  <2> HIDE DEF n
  <2>4. ASSUME NEW i \in 1 .. n, NEW j \in 1 .. n, i < j
        PROVE  created[w][i].at < created[w][j].at
    <3>1. Distance(created[w][i].time, created[w][j].time) > Skew
      BY <2>2, <2>4 DEF Apart
    <3>2. created[w][i].time <= created[w][j].time
      BY <2>2, <2>4 DEF OrderInv
    <3>3. created[w][j].time - created[w][i].time > Skew
      BY <2>3, <3>1, <3>2, ClockAssumption DEF Distance
    <3> QED
      BY <2>3, <3>3, ClockAssumption
  <2>5. PICK p \in Bijection(D, D) :
          /\ \A j, k \in D : j < k => created[w][p[j]].at <= created[w][p[k]].at
          /\ log = [k \in D |-> ledger[w][p[k]]]
    BY <1>1 DEF SortLedgerEntries
  <2>6. p \in Bijection(1 .. n, 1 .. n) /\ p \in [1 .. n -> 1 .. n]
    BY <2>2, <2>5 DEF Bijection, Injection
  <2>7. ASSUME NEW j \in 1 .. n, NEW k \in 1 .. n, j < k
        PROVE  p[j] <= p[k]
    <3>1. created[w][p[j]].at <= created[w][p[k]].at
      BY <2>2, <2>5, <2>7
    <3>2. p[j] \in 1 .. n /\ p[k] \in 1 .. n
      BY <2>6
    <3>3. p[k] < p[j] => created[w][p[k]].at < created[w][p[j]].at
      BY <2>4, <3>2
    <3> QED
      BY <2>2, <2>3, <3>1, <3>2, <3>3
  <2>8. \A k \in 1 .. n : p[k] = k
    BY <2>2, <2>6, <2>7, OrderIsIdentity
  <2>9. log = [k \in D |-> ledger[w][k]]
    BY <2>2, <2>5, <2>8
  <2> QED
    BY <2>1, <2>9
<1>2. ASSUME NEW ls \in Sortings PROVE ls = ledger
  <2>1. DOMAIN ledger = Wallets /\ ledger = [w \in Wallets |-> ledger[w]]
    BY DEF IsolationInv, TypeOK
  <2>2. ls = [w \in Wallets |-> ls[w]] /\ \A w \in Wallets : ls[w] \in SortLedgerEntries(w)
    BY DEF Sortings
  <2> QED
    BY <1>1, <2>1, <2>2
<1> QED
  BY <1>2

\* Clocks that differ by less than the movements of a wallet lie apart do no harm: the
\* ledger in the order of created_at is judged healthy.
THEOREM SkewHarmless == RSpec => []SkewTolerated
<1>1. RInit => CreatedInv /\ OrderInv
  <2> SUFFICES ASSUME RInit PROVE CreatedInv /\ OrderInv
    OBVIOUS
  <2>1. /\ now = 0 /\ ahead \in [Handlers -> 0 .. Skew] /\ stamp = [h \in Handlers |-> 0]
        /\ created = [w \in Wallets |-> <<>>] /\ ledger = [w \in Wallets |-> <<>>]
    BY DEF RInit, CInit, Init
  <2> QED
    BY <2>1 DEF CreatedInv, OrderInv
<1>2. ASSUME IsolationInv, JournalComplete, RowInv, LedgerExplainsBalance,
             CreatedInv, OrderInv
      PROVE  SkewTolerated
  BY <1>2, SortedIsLedger, BooksHealthy DEF SkewTolerated
<1>3. RSpec => [](IsolationInv /\ JournalComplete /\ RowInv /\ LedgerExplainsBalance)
  BY RunsOnMoney, Isolation, Journal, Rows, LedgerCorrect, PTL
<1> QED
  BY <1>1, <1>2, <1>3, ClockStep, PTL DEF RSpec

-----------------------------------------------------------------------------
(* The report decides, whatever the tables hold.                           *)

\* Any rows, of the types of their columns.
TamperInv ==
    /\ walletRows \in [Wallets -> -MaxInt - 1 .. MaxInt]
    /\ transactionRows \in Seq(AnyTransaction)
    /\ entryRows \in [WalletIds -> Seq(AnyEntry)]

\* Editing keeps the types.
LEMMA TamperStep ==
    ASSUME TamperInv, [TNext]_tampered
    PROVE  TamperInv'
<1> USE DEF TamperInv
<1>1. CASE EditBalance
  BY <1>1, TamperAssumption DEF EditBalance
<1>2. CASE InsertTransaction
  BY <1>2 DEF InsertTransaction
<1>3. CASE InsertEntry
  <2>1. PICK w \in WalletIds, e \in AnyEntry :
          entryRows' = [entryRows EXCEPT ![w] = Append(@, e)]
    BY <1>3 DEF InsertEntry
  <2>2. Append(entryRows[w], e) \in Seq(AnyEntry)
    OBVIOUS
  <2> QED
    BY <1>3, <2>1, <2>2 DEF InsertEntry
<1>4. CASE UNCHANGED tampered
  BY <1>4 DEF tampered
<1> QED
  BY <1>1, <1>2, <1>3, <1>4 DEF TNext

\* There are finitely many entries.
LEMMA CellsFinite ==
    ASSUME TamperInv, NEW id
    PROVE  IsFiniteSet(EntriesOf(entryRows, id))
<1> DEFINE places == [w \in WalletIds |-> {<<w, i>> : i \in DOMAIN entryRows[w]}]
           S == {places[w] : w \in WalletIds}
<1>1. DOMAIN entryRows = WalletIds
  BY DEF TamperInv
<1>2. IsFiniteSet(S)
  <2> DEFINE f == places
  <2>1. f \in Surjection(WalletIds, S)
    BY DEF Surjection
  <2>2. IsFiniteSet(WalletIds)
    BY RowsAssumption, TamperAssumption, FS_Union DEF WalletIds
  <2> HIDE DEF f, S
  <2> QED
    BY <2>1, <2>2, FS_Surjection
<1>3. ASSUME NEW w \in WalletIds PROVE IsFiniteSet(places[w])
  <2> DEFINE n == Len(entryRows[w])
             g == [i \in 1 .. n |-> <<w, i>>]
             T == {g[i] : i \in 1 .. n}
  <2>1. n \in Nat /\ DOMAIN entryRows[w] = 1 .. n
    BY DEF TamperInv
  <2> HIDE DEF n
  <2>2. IsFiniteSet(1 .. n)
    BY <2>1, FS_Interval
  <2>3. g \in Surjection(1 .. n, T)
    BY DEF Surjection
  <2>4. places[w] = T
    BY <2>1
  <2>5. IsFiniteSet(T)
    <3> HIDE DEF g, T
    <3> QED
      BY <2>2, <2>3, FS_Surjection
  <2> QED
    BY <2>4, <2>5
<1>4. IsFiniteSet(UNION S)
  BY <1>2, <1>3, FS_UNION
<1>5. EntriesOf(entryRows, id) \subseteq UNION S
  BY <1>1 DEF EntriesOf, Cells
<1> QED
  BY <1>4, <1>5, FS_Subset

\* An entry of a known type that moves a balance by its positive amount.
Regular(e) ==
    /\ e.type \in {"CREDIT", "DEBIT"}
    /\ e.amount > 0
    /\ e.after = e.before + Signed(e)

\* The check of an entry passes every such entry, and no other that stays clear of
\* negative balances: only over the end of int64 do its differences wrap.
LEMMA EntryDecided ==
    ASSUME NEW e \in AnyEntry
    PROVE  /\ Regular(e) => ValidateLedgerEntryMath(e)
           /\ ValidateLedgerEntryMath(e) /\ e.before >= 0 /\ e.after >= 0 => Regular(e)
<1> DEFINE R == -MaxInt - 1 .. MaxInt
<1>1. e.amount \in R /\ e.before \in R /\ e.after \in R
  BY TamperAssumption DEF AnyEntry
<1>2. MaxInt \in Nat
  BY MaxIntAssumption
<1>3. /\ e.type = "CREDIT" => Signed(e) = e.amount
      /\ e.type = "DEBIT" => Signed(e) = -e.amount
  BY DEF Signed
<1>4. ASSUME Regular(e) PROVE ValidateLedgerEntryMath(e)
  <2>1. Int64(e.amount) = e.amount
    BY <1>1, Int64Range
  <2>2. /\ e.type = "CREDIT" => e.after - e.before = e.amount
        /\ e.type = "DEBIT" => e.before - e.after = e.amount
    BY <1>1, <1>2, <1>3, <1>4 DEF Regular
  <2> QED
    BY <1>4, <2>1, <2>2 DEF Regular, ValidateLedgerEntryMath
<1>5. ASSUME ValidateLedgerEntryMath(e), e.before >= 0, e.after >= 0 PROVE Regular(e)
  <2>1. e.after - e.before \in R /\ e.before - e.after \in R
    BY <1>1, <1>2, <1>5
  <2>2. Int64(e.after - e.before) = e.after - e.before
    BY <2>1, Int64Range
  <2>3. Int64(e.before - e.after) = e.before - e.after
    BY <2>1, Int64Range
  <2>4. /\ e.amount > 0 /\ e.type \in {"CREDIT", "DEBIT"}
        /\ e.type = "CREDIT" => e.after - e.before = e.amount
        /\ e.type = "DEBIT" => e.before - e.after = e.amount
    BY <1>5, <2>2, <2>3 DEF ValidateLedgerEntryMath
  <2> QED
    BY <1>1, <1>2, <1>3, <2>4 DEF Regular
<1> QED
  BY <1>4, <1>5

\* The entries of a wallet explain its balance exactly when they are a chain of such
\* entries that ends there.
LEMMA ExplainedIs ==
    ASSUME TamperInv, NEW w \in Wallets
    PROVE  LET log == entryRows[w] IN
           /\ Explained(w) <=>
                /\ walletRows[w] = DerivedBalance(log)
                /\ \A i \in DOMAIN log : Regular(log[i]) /\ Linked(log, i)
<1> DEFINE log == entryRows[w]
           n == Len(log)
           end == [i \in 0 .. n |-> IF i = 0 THEN 0 ELSE log[i].after]
           sign(i) == IF log[i].type = "CREDIT" THEN 1 ELSE -1
<1>1. log \in Seq(AnyEntry) /\ walletRows[w] \in Int
  BY MaxIntAssumption DEF TamperInv, WalletIds
<1>2. \A e \in AnyEntry :
        /\ e.amount \in Int /\ e.before \in Int /\ e.after \in Int
        /\ e.after \in -MaxInt - 1 .. MaxInt
  <2> TAKE e \in AnyEntry
  <2>1. e.amount \in Amounts /\ e.before \in Values /\ e.after \in Values
    BY DEF AnyEntry
  <2>2. e.amount \in Int /\ e.before \in -MaxInt - 1 .. MaxInt /\ e.after \in -MaxInt - 1 .. MaxInt
    BY <2>1, TamperAssumption, AmountAssumption
  <2> QED
    BY <2>2
<1>3. n \in Nat /\ DOMAIN log = 1 .. n /\ (log = <<>> <=> n = 0)
  BY <1>1
<1>4. \A i \in 1 .. n : /\ log[i].amount \in Int
                        /\ log[i].before \in Int /\ log[i].after \in Int
                        /\ log[i].after \in -MaxInt - 1 .. MaxInt
  BY <1>1, <1>2, <1>3
<1>5. Explained(w) <=>
        /\ walletRows[w] = end[n]
        /\ \A i \in DOMAIN log :
             /\ log[i].type \in {"CREDIT", "DEBIT"}
             /\ log[i].amount > 0
             /\ log[i].before = end[i - 1]
             /\ log[i].after = end[i - 1] + sign(i) * log[i].amount
  BY DEF Explained
<1> HIDE DEF log, n
<1>6. end[n] = (IF n = 0 THEN 0 ELSE log[n].after)
  BY <1>3
<1>7. ASSUME NEW i \in 1 .. n
      PROVE  end[i - 1] \in Int /\ (log[i].before = end[i - 1] <=> Linked(log, i))
  <2>1. end[i - 1] = IF i = 1 THEN 0 ELSE log[i - 1].after
    BY <1>3
  <2>2. i = 1 \/ i - 1 \in 1 .. n
    BY <1>3
  <2> HIDE DEF end
  <2> QED
    BY <1>4, <2>1, <2>2 DEF Linked
<1> HIDE DEF end
<1>8. ASSUME NEW i \in 1 .. n
      PROVE  (/\ log[i].type \in {"CREDIT", "DEBIT"}
              /\ log[i].amount > 0
              /\ log[i].before = end[i - 1]
              /\ log[i].after = end[i - 1] + sign(i) * log[i].amount)
             <=> Regular(log[i]) /\ Linked(log, i)
  <2>1. log[i].amount \in Int /\ log[i].before \in Int /\ log[i].after \in Int
    BY <1>4
  <2>2. /\ log[i].type = "CREDIT" => Signed(log[i]) = sign(i) * log[i].amount
        /\ log[i].type = "DEBIT" => Signed(log[i]) = sign(i) * log[i].amount
    BY <2>1 DEF Signed
  <2>3. log[i].before = end[i - 1] <=> Linked(log, i)
    BY <1>7
  <2> HIDE DEF sign
  <2> QED
    BY <2>2, <2>3 DEF Regular
<1> HIDE DEF sign
<1>9. ASSUME \A i \in DOMAIN log : Regular(log[i]) /\ Linked(log, i)
      PROVE  DerivedBalance(log) = end[n]
  <2>1. Exact(log)
    BY <1>9 DEF Exact, Regular
  <2>2. log # <<>> => log[Len(log)].after \in -MaxInt - 1 .. MaxInt
    BY <1>3, <1>4 DEF n
  <2>3. DerivedBalance(log) = IF log = <<>> THEN 0 ELSE log[Len(log)].after
    BY <1>1, <1>2, <2>1, <2>2, DerivedIsEnd
  <2> QED
    BY <1>3, <1>6, <2>3 DEF n
<1>10. Explained(w) <=>
         /\ walletRows[w] = end[n]
         /\ \A i \in DOMAIN log : Regular(log[i]) /\ Linked(log, i)
  BY <1>3, <1>5, <1>8
<1> QED
  BY <1>9, <1>10 DEF log

\* A wallet that is explained passes its checks, and one that passes them and has no
\* entry with a negative balance is explained.
LEMMA WalletDecided ==
    ASSUME TamperInv, NEW w \in Wallets
    PROVE  LET log == entryRows[w]
               passes == /\ \A i \in DOMAIN log :
                              ValidateLedgerEntryMath(log[i]) /\ Linked(log, i)
                         /\ walletRows[w] = DerivedBalance(log)
           IN  /\ Explained(w) => passes
               /\ passes /\ (\A i \in DOMAIN log : log[i].before >= 0 /\ log[i].after >= 0)
                    => Explained(w)
<1> DEFINE log == entryRows[w]
<1>1. log \in Seq(AnyEntry)
  BY DEF TamperInv, WalletIds
<1>2. Explained(w) <=>
        /\ walletRows[w] = DerivedBalance(log)
        /\ \A i \in DOMAIN log : Regular(log[i]) /\ Linked(log, i)
  BY ExplainedIs
<1> HIDE DEF log
<1>3. \A i \in DOMAIN log :
        /\ Regular(log[i]) => ValidateLedgerEntryMath(log[i])
        /\ ValidateLedgerEntryMath(log[i]) /\ log[i].before >= 0 /\ log[i].after >= 0
             => Regular(log[i])
  BY <1>1, EntryDecided
<1> QED
  BY <1>2, <1>3 DEF log

\* A transaction passes its check exactly when its entries are its legs.
LEMMA TransactionDecided ==
    ASSUME TamperInv, NEW id \in DOMAIN transactionRows
    PROVE  Booked(id) <=>
             \/ /\ transactionRows[id].type = "TOP_UP"
                /\ ValidateTopUpTransaction(transactionRows[id], id, entryRows)
             \/ /\ transactionRows[id].type = "TRANSFER"
                /\ ValidateTransferTransaction(transactionRows[id], id, entryRows)
<1> DEFINE t == transactionRows[id]
           cs == EntriesOf(entryRows, id)
           type(c) == EntryAt(entryRows, c).type
           amount(c) == EntryAt(entryRows, c).amount
           credit == <<t.destination, "CREDIT", t.amount>>
           debit == <<t.source, "DEBIT", t.amount>>
           legs == {<<c[1], type(c), amount(c)>> : c \in cs}
<1>1. IsFiniteSet(cs)
  BY CellsFinite
<1>2. ASSUME NEW c
      PROVE  /\ <<c[1], type(c), amount(c)>> = credit <=>
                  c[1] = t.destination /\ type(c) = "CREDIT" /\ amount(c) = t.amount
             /\ <<c[1], type(c), amount(c)>> = debit <=>
                  c[1] = t.source /\ type(c) = "DEBIT" /\ amount(c) = t.amount
  OBVIOUS
<1>3. Booked(id) <=> WellFormed(t) /\ legs = Legs(t) /\ Cardinality(cs) = Cardinality(Legs(t))
  BY DEF Booked
<1>4. CASE t.type = "TOP_UP"
  <2>1. Legs(t) = {credit} /\ Cardinality({credit}) = 1
    BY <1>4, FS_Singleton DEF Legs
  <2>2. WellFormed(t) <=> t.destination # None /\ t.source = None
    BY <1>4 DEF WellFormed
  <2>3. Cardinality(cs) = 1 => cs # {}
    BY FS_EmptySet
  <2>4. ValidateTopUpTransaction(t, id, entryRows) <=>
          /\ t.source = None /\ t.destination # None /\ Cardinality(cs) = 1
          /\ \A c \in cs : c[1] = t.destination /\ type(c) = "CREDIT" /\ amount(c) = t.amount
    BY DEF ValidateTopUpTransaction
  <2> HIDE DEF t, cs, type, amount, credit, debit
  <2>5. cs # {} => (legs = {credit} <=>
          \A c \in cs : c[1] = t.destination /\ type(c) = "CREDIT" /\ amount(c) = t.amount)
    <3>1. ASSUME legs = {credit}, NEW c \in cs
          PROVE  <<c[1], type(c), amount(c)>> = credit
      BY <3>1
    <3>2. ASSUME cs # {}, \A c \in cs : <<c[1], type(c), amount(c)>> = credit
          PROVE  legs = {credit}
      BY <3>2
    <3> HIDE DEF legs
    <3> QED
      BY <1>2, <3>1, <3>2
  <2> HIDE DEF legs
  <2>6. Booked(id) <=> ValidateTopUpTransaction(t, id, entryRows)
    BY <1>3, <2>1, <2>2, <2>3, <2>4, <2>5
  <2> QED
    BY <1>4, <2>6 DEF t
<1>5. CASE t.type = "TRANSFER"
  <2>1. Legs(t) = {credit, debit} /\ Cardinality({credit, debit}) = 2
    <3>1. Legs(t) = {credit, debit}
      BY <1>5 DEF Legs
    <3>2. credit # debit
      OBVIOUS
    <3> QED
      BY <3>1, <3>2, PairCardinality
  <2>2. WellFormed(t) <=> t.destination # None /\ t.source # None /\ t.source # t.destination
    BY <1>5 DEF WellFormed
  <2>3. ValidateTransferTransaction(t, id, entryRows) <=>
          /\ t.source # None /\ t.destination # None /\ t.source # t.destination
          /\ Cardinality(cs) = 2
          /\ \A c \in cs : amount(c) = t.amount
          /\ \E c \in cs : c[1] = t.source /\ type(c) = "DEBIT"
          /\ \E c \in cs : c[1] = t.destination /\ type(c) = "CREDIT"
    BY DEF ValidateTransferTransaction
  <2> HIDE DEF t, cs, type, amount, credit, debit
  <2>4. ASSUME legs = {credit, debit}
        PROVE  /\ \A c \in cs : amount(c) = t.amount
               /\ \E c \in cs : c[1] = t.source /\ type(c) = "DEBIT"
               /\ \E c \in cs : c[1] = t.destination /\ type(c) = "CREDIT"
    BY <1>2, <2>4
  <2>5. ASSUME Cardinality(cs) = 2,
               \A c \in cs : amount(c) = t.amount,
               NEW c \in cs, c[1] = t.source /\ type(c) = "DEBIT",
               NEW d \in cs, d[1] = t.destination /\ type(d) = "CREDIT"
        PROVE  legs = {credit, debit}
    <3>1. c # d
      BY <2>5
    <3>2. Cardinality({c, d}) = 2
      BY <3>1, PairCardinality
    <3>3. cs = {c, d}
      BY <1>1, <2>5, <3>2, FS_Subset
    <3> QED
      BY <1>2, <2>5, <3>3
  <2> HIDE DEF legs
  <2>6. Booked(id) <=> ValidateTransferTransaction(t, id, entryRows)
    BY <1>3, <2>1, <2>2, <2>3, <2>4, <2>5
  <2> QED
    BY <1>5, <2>6 DEF t
<1>6. CASE t.type \notin {"TOP_UP", "TRANSFER"}
  BY <1>3, <1>6 DEF WellFormed
<1> QED
  BY <1>4, <1>5, <1>6

\* Whatever rows the tables hold, of whatever types, wallets and transactions: a report of
\* consistent tables is healthy, and tables whose report is healthy and whose entries
\* record no negative balance are consistent.
THEOREM ReportCorrect == TSpec => []ReportDecides
<1>1. TInit => TamperInv
  BY MaxIntAssumption DEF TInit, TamperInv
<1>2. ASSUME TamperInv PROVE ReportDecides
  <2>1. /\ DOMAIN entryRows = WalletIds /\ DOMAIN walletRows = Wallets
        /\ Wallets \subseteq WalletIds
    BY <1>2 DEF TamperInv, WalletIds
  <2>2. TransactionIssues(transactionRows, entryRows) = {} <=>
          \A id \in DOMAIN transactionRows : Booked(id)
    BY <1>2, TransactionDecided DEF TransactionIssues
  <2> DEFINE Placed(w, i) == w \in Wallets /\ entryRows[w][i].txn \in DOMAIN transactionRows
  <2>3. (\A c \in Cells(entryRows) :
           c[1] \in Wallets /\ EntryAt(entryRows, c).txn \in DOMAIN transactionRows) <=>
          \A w \in WalletIds : \A i \in DOMAIN entryRows[w] : Placed(w, i)
    <3>1. ASSUME NEW c \in Cells(entryRows)
          PROVE  \E w \in WalletIds : \E i \in DOMAIN entryRows[w] :
                     c[1] = w /\ EntryAt(entryRows, c) = entryRows[w][i]
      BY <2>1, CellIs
    <3>2. ASSUME NEW w \in WalletIds, NEW i \in DOMAIN entryRows[w]
          PROVE  \E c \in Cells(entryRows) :
                     c[1] = w /\ EntryAt(entryRows, c) = entryRows[w][i]
      <4>1. <<w, i>>[1] = w
        OBVIOUS
      <4> QED
        BY <2>1, <4>1, CellFacts
    <3> QED
      BY <3>1, <3>2
  <2>4. /\ LedgerIssues(walletRows, transactionRows, entryRows) = {} <=>
             \A w \in WalletIds : \A i \in DOMAIN entryRows[w] :
                 Placed(w, i) /\ ValidateLedgerEntryMath(entryRows[w][i])
        /\ ValidateWalletLedgerChain(walletRows, entryRows) = {} <=>
             \A w \in Wallets : \A i \in DOMAIN entryRows[w] : Linked(entryRows[w], i)
        /\ WalletIssues(walletRows, entryRows) = {} <=>
             \A w \in Wallets : walletRows[w] = DerivedBalance(entryRows[w])
    <3>1. DOMAIN walletRows \subseteq DOMAIN entryRows
      BY <2>1
    <3>2. /\ LedgerIssues(walletRows, transactionRows, entryRows) = {} <=>
               \A w \in DOMAIN entryRows : \A i \in DOMAIN entryRows[w] :
                   Sound(walletRows, transactionRows, entryRows, w, i)
          /\ ValidateWalletLedgerChain(walletRows, entryRows) = {} <=>
               \A w \in DOMAIN walletRows : \A i \in DOMAIN entryRows[w] :
                   Linked(entryRows[w], i)
          /\ WalletIssues(walletRows, entryRows) = {} <=>
               \A w \in DOMAIN walletRows : walletRows[w] = DerivedBalance(entryRows[w])
      BY <3>1, EntriesJudged, Zenon
    <3>3. \A w, i : Sound(walletRows, transactionRows, entryRows, w, i) <=>
                      Placed(w, i) /\ ValidateLedgerEntryMath(entryRows[w][i])
      BY <2>1 DEF Sound
    <3> HIDE DEF Placed
    <3> QED
      BY <2>1, <3>2, <3>3, Zenon
  <2>5. ASSUME NEW w \in Wallets
        PROVE  /\ Explained(w) =>
                    /\ \A i \in DOMAIN entryRows[w] :
                         ValidateLedgerEntryMath(entryRows[w][i]) /\ Linked(entryRows[w], i)
                    /\ walletRows[w] = DerivedBalance(entryRows[w])
               /\ /\ \A i \in DOMAIN entryRows[w] :
                       /\ ValidateLedgerEntryMath(entryRows[w][i]) /\ Linked(entryRows[w], i)
                       /\ entryRows[w][i].before >= 0 /\ entryRows[w][i].after >= 0
                  /\ walletRows[w] = DerivedBalance(entryRows[w])
                  => Explained(w)
    BY <1>2, WalletDecided
  <2>6. NoneNegative => \A w \in WalletIds : \A i \in DOMAIN entryRows[w] :
                          entryRows[w][i].before >= 0 /\ entryRows[w][i].after >= 0
    <3>1. ASSUME NoneNegative, NEW w \in WalletIds, NEW i \in DOMAIN entryRows[w]
          PROVE  entryRows[w][i].before >= 0 /\ entryRows[w][i].after >= 0
      <4>1. <<w, i>> \in Cells(entryRows) /\ EntryAt(entryRows, <<w, i>>) = entryRows[w][i]
        BY <2>1, CellFacts
      <4>2. /\ EntryAt(entryRows, <<w, i>>).before >= 0
            /\ EntryAt(entryRows, <<w, i>>).after >= 0
        BY <3>1, <4>1 DEF NoneNegative
      <4> QED
        BY <4>1, <4>2
    <3> QED
      BY <3>1
  <2> HIDE DEF Placed
  <2>7. ASSUME Consistent PROVE Healthy(walletRows, transactionRows, entryRows)
    <3>1. /\ \A w \in WalletIds : \A i \in DOMAIN entryRows[w] : Placed(w, i) /\ w \in Wallets
          /\ \A w \in Wallets : Explained(w)
      BY <2>3, <2>7 DEF Consistent, Placed
    <3>2. \A w \in WalletIds : \A i \in DOMAIN entryRows[w] :
            Placed(w, i) /\ ValidateLedgerEntryMath(entryRows[w][i])
      BY <2>5, <3>1
    <3>3. \A w \in Wallets : /\ \A i \in DOMAIN entryRows[w] : Linked(entryRows[w], i)
                             /\ walletRows[w] = DerivedBalance(entryRows[w])
      BY <2>5, <3>1
    <3> QED
      BY <2>2, <2>4, <2>7, <3>2, <3>3 DEF Healthy, Consistent
  <2>8. ASSUME Healthy(walletRows, transactionRows, entryRows), NoneNegative
        PROVE  Consistent
    <3>1. /\ \A w \in WalletIds : \A i \in DOMAIN entryRows[w] :
               Placed(w, i) /\ ValidateLedgerEntryMath(entryRows[w][i])
          /\ \A w \in Wallets : \A i \in DOMAIN entryRows[w] : Linked(entryRows[w], i)
          /\ \A w \in Wallets : walletRows[w] = DerivedBalance(entryRows[w])
          /\ \A id \in DOMAIN transactionRows : Booked(id)
      BY <2>2, <2>4, <2>8 DEF Healthy
    <3>2. \A w \in Wallets : \A i \in DOMAIN entryRows[w] :
            /\ ValidateLedgerEntryMath(entryRows[w][i]) /\ Linked(entryRows[w], i)
            /\ entryRows[w][i].before >= 0 /\ entryRows[w][i].after >= 0
      BY <2>1, <2>6, <2>8, <3>1
    <3>3. \A w \in Wallets : Explained(w)
      BY <2>5, <3>1, <3>2
    <3> QED
      BY <2>3, <3>1, <3>3 DEF Consistent
  <2> QED
    BY <2>7, <2>8 DEF ReportDecides
<1> QED
  BY <1>1, <1>2, TamperStep, PTL DEF TSpec

=============================================================================
