------------------------------- MODULE Reads -------------------------------
(***************************************************************************)
(* What users read while money moves: GET /wallets/me and its balance,     *)
(* GET /transactions/:id and GET /ledgers/transactions/:transactionId      *)
(* (WalletUsecase, TransactionUsecase.GetMyTransaction and                 *)
(* .ListTransactionLedgers).  Each is one SELECT of what is committed,     *)
(* outside any transaction, so each is a function of the tables; a client  *)
(* puts several of them together, and with the answers to its own          *)
(* movements.                                                              *)
(***************************************************************************)
EXTENDS MoneyMovement, FiniteSets

\* GetMyWallet, GetMyBalance: WHERE user_id = ?.  Every user has a wallet.
GetMyBalance(u) == balance[WalletOf[u]]

\* Mutant: only the initiator is looked at.
ForUserInitiator(u, t) == t.user = u

\* GetByIDForUser: initiated_by_user_id = ? OR sw.user_id = ? OR dw.user_id = ?
ForUser(u, t) == t.user = u \/ WalletOf[u] \in {t.source, t.destination}

\* No row is a 404.
GetMyTransaction(u, id) ==
    {t \in {transactions[i] : i \in {id} \cap DOMAIN transactions} : ForUser(u, t)}

\* ListByTransactionForUser: JOIN wallets ... WHERE wallets.user_id = ?
EntriesForUser(u) == {ledger[WalletOf[u]][j] : j \in DOMAIN ledger[WalletOf[u]]}

\* WHERE transaction_id = ?; no row is an empty list.
ListTransactionLedgers(u, id) == {e \in EntriesForUser(u) : e.txn = id}

-----------------------------------------------------------------------------
\* What a user reads fits together at any moment, although the queries go by different
\* columns (gorm.go:88, 161, 230-232).  Who is shown a transaction is shown exactly one
\* entry of it, on his side of it, and who is not is shown none; his balance is what the
\* entries of all the transactions he is shown add up to; and a movement that he is being
\* told of is among them.
ReadsAgree ==
    \A u \in Users :
        LET ids == 1 .. Len(transactions)
            shown == {id \in ids : GetMyTransaction(u, id) # {}}
            moved == [id \in ids |->
                IF id \notin shown THEN 0
                ELSE LET e == CHOOSE e \in ListTransactionLedgers(u, id) : TRUE
                     IN  IF e.type = "CREDIT" THEN e.amount ELSE -e.amount]
        IN
        /\ \A id \in ids :
             LET found == GetMyTransaction(u, id)
                 es == ListTransactionLedgers(u, id)
             IN  /\ Cardinality(found) = Cardinality(es)
                 /\ \A t \in found, e \in es :
                      /\ e.amount = t.amount
                      /\ e.type = IF t.destination = WalletOf[u] THEN "CREDIT" ELSE "DEBIT"
        /\ GetMyBalance(u) = Total(moved, ids)
        /\ \A h \in Handlers :
             pc[h] = "answered" /\ reply[h].status = 200 /\ req[h].user = u =>
                reply[h].body.txn \in shown
=============================================================================
