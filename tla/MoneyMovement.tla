--------------------------- MODULE MoneyMovement ---------------------------
(***************************************************************************)
(* POST /wallets/me/top-up and POST /transfers: TransactionUsecase.TopUp   *)
(* and .Transfer of internal/usecase/transaction.go over the GORM          *)
(* repositories and PostgreSQL at READ COMMITTED.                          *)
(*                                                                         *)
(* A handler is the goroutine of one HTTP request.  Each SQL statement of  *)
(* its transaction is a step; the rows a transaction has written are kept  *)
(* in staged[h] until Commit makes all of them visible at once, or a       *)
(* rollback forgets them.  What PostgreSQL adds is modelled from how the   *)
(* code uses it: row locks, the wait on an uncommitted unique key, the     *)
(* CHECK (balance >= 0), and failures of any statement or of the commit.   *)
(*                                                                         *)
(* Wallet status is left out: chk_wallets_status admits only ACTIVE, so    *)
(* the "wallet is not active" branches cannot be taken.                    *)
(***************************************************************************)
EXTENDS Entities, Sums

CONSTANTS
    Handlers,        \* request goroutines that may run at once
    WebhookEnabled,  \* cfg.Enabled and a target URL
    QueueSize        \* capacity of the webhook worker's channel

ASSUME HandlerAssumption ==
    /\ None \notin Handlers
    /\ WebhookEnabled \in BOOLEAN
    /\ QueueSize \in Nat

VARIABLES
    \* The tables, as committed.
    balance,       \* wallets.balance
    ledger,        \* ledger[w] : ledger_entries of wallet w, oldest first
    transactions,
    audits,
    deliveries,    \* webhook_deliveries : the transaction each one reports
    idem,          \* idempotency_records : a record or None, per slot
    \* The database's sessions.
    lock,          \* lock[w] : the handler holding wallet w FOR UPDATE
    owner,         \* owner[s] : the handler whose open transaction inserted s
    staged,        \* staged[h] : statements whose rows await Commit
    \* The process.
    pc, req,
    row,           \* row[h][w] : balance in the handler's copy of wallet w
    before,        \* before[h][w] : the copy of it kept for the ledger
    reply,         \* reply[h] : what the call returns
    queue          \* the webhook worker's channel

tables   == <<balance, ledger, transactions, audits, deliveries, idem>>
sessions == <<lock, owner, staged>>
process  == <<pc, req, row, before, reply, queue>>
vars     == <<tables, sessions, process>>

-----------------------------------------------------------------------------
Statements ==
    {"transaction", "source", "destination", "entries", "audit", "delivery",
     "completed"}

\* Where a handler can be; the name is the call it makes next.
Prepared == {"create", "source", "destination", "entries", "audit",
             "delivery", "complete", "commit"}
Locked   == {"check"} \cup Prepared
Reserved == {"lookup", "lock"} \cup Locked
InTx     == {"reserve", "existing"} \cup Reserved
Places   == {"idle", "enqueue", "answered"} \cup InTx

NoRows   == [w \in Wallets |-> 0]
NoAnswer == [status |-> 0, body |-> EmptyBody]

Init ==
    /\ balance = NoRows
    /\ ledger = [w \in Wallets |-> <<>>]
    /\ transactions = <<>>
    /\ audits = <<>>
    /\ deliveries = <<>>
    /\ idem = [s \in Slots |-> None]
    /\ lock = [w \in Wallets |-> None]
    /\ owner = [s \in Slots |-> None]
    /\ staged = [h \in Handlers |-> {}]
    /\ pc = [h \in Handlers |-> "idle"]
    /\ req = [h \in Handlers |-> None]
    /\ row = [h \in Handlers |-> NoRows]
    /\ before = [h \in Handlers |-> NoRows]
    /\ reply = [h \in Handlers |-> NoAnswer]
    /\ queue = <<>>

-----------------------------------------------------------------------------
(* The end of a transaction.                                               *)

\* PostgreSQL gives up the session's row locks and uncommitted keys, and the
\* closure's variables go out of scope.
EndTransaction(h) ==
    /\ lock' = [w \in Wallets |-> IF lock[w] = h THEN None ELSE lock[w]]
    /\ owner' = [s \in Slots |-> IF owner[s] = h THEN None ELSE owner[s]]
    /\ staged' = [staged EXCEPT ![h] = {}]
    /\ row' = [row EXCEPT ![h] = NoRows]
    /\ before' = [before EXCEPT ![h] = NoRows]

Answer(h, status, body) ==
    reply' = [reply EXCEPT ![h] = [status |-> status, body |-> body]]

Goto(h, place) == pc' = [pc EXCEPT ![h] = place]

\* Mutant: the key was reserved outside the transaction, and stays reserved.
RollbackKeepsKey(h, status) ==
    /\ lock' = [w \in Wallets |-> IF lock[w] = h THEN None ELSE lock[w]]
    /\ staged' = [staged EXCEPT ![h] = {}]
    /\ row' = [row EXCEPT ![h] = NoRows]
    /\ before' = [before EXCEPT ![h] = NoRows]
    /\ Answer(h, status, EmptyBody)
    /\ Goto(h, "answered")
    /\ UNCHANGED <<tables, owner, req, queue>>

\* The closure returns an error: gorm rolls back and the caller gets
\* apperror.As(err).
Rollback(h, status) ==
    /\ EndTransaction(h)
    /\ Answer(h, status, EmptyBody)
    /\ Goto(h, "answered")
    /\ UNCHANGED <<tables, req, queue>>

\* A statement with no condition of its own: its rows are staged.
Execute(h, place, statement, next) ==
    /\ pc[h] = place
    /\ staged' = [staged EXCEPT ![h] = @ \cup {statement}]
    /\ Goto(h, next)
    /\ UNCHANGED <<tables, lock, owner, req, row, before, reply, queue>>

-----------------------------------------------------------------------------
(* The call arrives.                                                       *)

Valid(r) == r.key # EmptyKey /\ r.amount > 0

Receive(h, r) ==
    /\ pc[h] = "idle"
    /\ req' = [req EXCEPT ![h] = r]
    /\ IF Valid(r)
       THEN Goto(h, "reserve") /\ UNCHANGED reply
       ELSE Goto(h, "answered") /\ Answer(h, 400, EmptyBody)
    /\ UNCHANGED <<tables, sessions, row, before, queue>>

ReceiveTopUp(h)    == \E r \in TopUpRequest : Receive(h, r)
ReceiveTransfer(h) == \E r \in TransferRequest : Receive(h, r)

-----------------------------------------------------------------------------
(* Idempotency.                                                            *)

\* Mutant: the key is looked up first and inserted later, so that an open
\* transaction on it goes unseen.
ReserveNoWait(h) ==
    LET s == Slot(req[h]) IN
    /\ pc[h] = "reserve"
    /\ IF idem[s] = None
       THEN owner' = [owner EXCEPT ![s] = h] /\ Goto(h, "lookup")
       ELSE Goto(h, "existing") /\ UNCHANGED owner
    /\ UNCHANGED <<tables, lock, staged, req, row, before, reply, queue>>

\* Mutant: an upsert takes a key that is already spent.
ReserveAgain(h) ==
    LET s == Slot(req[h]) IN
    /\ pc[h] = "reserve"
    /\ owner[s] = None
    /\ owner' = [owner EXCEPT ![s] = h]
    /\ Goto(h, "lookup")
    /\ UNCHANGED <<tables, lock, staged, req, row, before, reply, queue>>

\* INSERT ... ON CONFLICT DO NOTHING.  PostgreSQL makes it wait while another
\* open transaction has inserted the same key.
Reserve(h) ==
    LET s == Slot(req[h]) IN
    /\ pc[h] = "reserve"
    /\ owner[s] = None
    /\ IF idem[s] = None
       THEN owner' = [owner EXCEPT ![s] = h] /\ Goto(h, "lookup")
       ELSE Goto(h, "existing") /\ UNCHANGED owner
    /\ UNCHANGED <<tables, lock, staged, req, row, before, reply, queue>>

\* Mutant: the request hash is not compared.
ReplayAnyPayload(record, r) ==
    IF record.status = 0
    THEN [status |-> 409, body |-> EmptyBody]
    ELSE [status |-> record.status, body |-> record.body]

\* The answer given from the record that was there.
Replay(record, r) ==
    IF record.hash # HashPayload(r) \/ record.status = 0
    THEN [status |-> 409, body |-> EmptyBody]
    ELSE [status |-> record.status, body |-> record.body]

\* !inserted : answer from the record, and end the transaction.
Existing(h) ==
    /\ pc[h] = "existing"
    /\ reply' = [reply EXCEPT ![h] = Replay(idem[Slot(req[h])], req[h])]
    /\ Goto(h, "answered")
    /\ EndTransaction(h)
    /\ UNCHANGED <<tables, req, queue>>

-----------------------------------------------------------------------------
(* The wallets.                                                            *)

\* The rows LockByIDs is asked for that exist.
Needed(r) == {WalletOf[r.user], Destination(r)} \cap Wallets

TopUpLookup(h) ==
    /\ pc[h] = "lookup"
    /\ Goto(h, "lock")
    /\ UNCHANGED <<tables, sessions, req, row, before, reply, queue>>

\* Mutant: a transfer to the caller's own wallet is let through.
TransferLookupSelf(h) ==
    /\ pc[h] = "lookup"
    /\ Goto(h, "lock")
    /\ UNCHANGED <<tables, sessions, req, row, before, reply, queue>>

TransferLookup(h) ==
    /\ pc[h] = "lookup"
    /\ IF req[h].to = WalletOf[req[h].user]
       THEN Rollback(h, 400)
       ELSE /\ Goto(h, "lock")
            /\ UNCHANGED <<tables, sessions, req, row, before, reply, queue>>

\* The wallets h still has to lock, and the one LockByIDs takes next: ids are
\* sorted.
ToLock(h)   == {w \in Needed(req[h]) : lock[w] # h}

\* Mutant: the sender's wallet is locked first, then the recipient's.
NextLockSenderFirst(h) ==
    LET own == WalletOf[req[h].user] IN
    IF own \in ToLock(h) THEN {own} ELSE ToLock(h)

NextLock(h) == {w \in ToLock(h) : \A v \in ToLock(h) : w <= v}

\* Mutant: SELECT without FOR UPDATE.
LockWalletNoWait(h) ==
    /\ pc[h] = "lock"
    /\ \E w \in NextLock(h) :
         /\ lock' = [lock EXCEPT ![w] = h]
         /\ row' = [row EXCEPT ![h][w] = balance[w]]
         /\ Goto(h, IF ToLock(h) = {w} THEN "check" ELSE "lock")
    /\ UNCHANGED <<tables, owner, staged, req, before, reply, queue>>

\* SELECT ... ORDER BY id ASC FOR UPDATE locks one row after the other and,
\* having waited for a row, reads its latest committed version.
LockWallet(h) ==
    /\ pc[h] = "lock"
    /\ \E w \in NextLock(h) :
         /\ lock[w] = None
         /\ lock' = [lock EXCEPT ![w] = h]
         /\ row' = [row EXCEPT ![h][w] = balance[w]]
         /\ Goto(h, IF ToLock(h) = {w} THEN "check" ELSE "lock")
    /\ UNCHANGED <<tables, owner, staged, req, before, reply, queue>>

\* beforeBalance := targetWallet.Balance; targetWallet.Balance += req.Amount
TopUpCheck(h) ==
    LET w == WalletOf[req[h].user] IN
    /\ pc[h] = "check"
    /\ before' = [before EXCEPT ![h] = row[h]]
    /\ row' = [row EXCEPT ![h][w] = Int64(@ + req[h].amount)]
    /\ Goto(h, "create")
    /\ UNCHANGED <<tables, sessions, req, reply, queue>>

\* A missing row is a 404, a short balance a 409; else both copies change.
TransferCheck(h) ==
    LET from == WalletOf[req[h].user]
        to   == req[h].to
        a    == req[h].amount
    IN
    /\ pc[h] = "check"
    /\ IF to \notin Wallets THEN Rollback(h, 404)
       ELSE IF row[h][from] < a THEN Rollback(h, 409)
       ELSE /\ before' = [before EXCEPT ![h] = row[h]]
            /\ row' = [row EXCEPT ![h][from] = @ - a, ![h][to] = Int64(@ + a)]
            /\ Goto(h, "create")
            /\ UNCHANGED <<tables, sessions, req, reply, queue>>

-----------------------------------------------------------------------------
(* The writes.                                                             *)

CreateTransaction(h) ==
    Execute(h, "create", "transaction",
            IF req[h].op = "TOP_UP" THEN "destination" ELSE "source")

\* Mutant: the sender's row is never saved.
UpdateSourceSkipped(h) ==
    /\ pc[h] = "source"
    /\ Goto(h, "destination")
    /\ UNCHANGED <<tables, sessions, req, row, before, reply, queue>>

\* wallets.Update(lockedSender): TransferCheck left at least 0, so the CHECK of
\* UpdateDestination cannot fire here.
UpdateSource(h) == Execute(h, "source", "source", "destination")

\* Mutant: the wallets table has no CHECK (balance >= 0).
UpdateDestinationUnchecked(h) ==
    Execute(h, "destination", "destination", "entries")

\* wallets.Update of the credited wallet: a balance that overflowed is
\* negative and fails CHECK (balance >= 0).
UpdateDestination(h) ==
    /\ pc[h] = "destination"
    /\ IF row[h][Destination(req[h])] < 0
       THEN Rollback(h, 500)
       ELSE Execute(h, "destination", "destination", "entries")

CreateEntries(h) == Execute(h, "entries", "entries", "audit")

CreateAudit(h) == Execute(h, "audit", "audit", "delivery")

\* Mutant: the id is handed to the worker from inside the transaction.
CreateDeliveryEnqueued(h) ==
    /\ pc[h] = "delivery"
    /\ staged' = [staged EXCEPT ![h] = @ \cup {"delivery"}]
    /\ queue' = IF Len(queue) < QueueSize
                THEN Append(queue, Len(transactions) + 1) ELSE queue
    /\ Goto(h, "complete")
    /\ UNCHANGED <<tables, lock, owner, req, row, before, reply>>

\* createDelivery inserts nothing when webhooks are off.
CreateDelivery(h) ==
    IF WebhookEnabled
    THEN Execute(h, "delivery", "delivery", "complete")
    ELSE /\ pc[h] = "delivery"
         /\ Goto(h, "complete")
         /\ UNCHANGED <<tables, sessions, req, row, before, reply, queue>>

MarkCompleted(h) == Execute(h, "complete", "completed", "commit")

-----------------------------------------------------------------------------
(* Commit: the rows of the executed statements become visible together.    *)

TransactionRow(r) ==
    [type |-> r.op, user |-> r.user, key |-> r.key, source |-> Source(r),
     destination |-> Destination(r), amount |-> r.amount]

CreditEntry(h, id) ==
    LET w == Destination(req[h]) IN
    [txn |-> id, type |-> "CREDIT", amount |-> req[h].amount,
     before |-> before[h][w], after |-> row[h][w]]

DebitEntry(h, id) ==
    LET w == Source(req[h]) IN
    [txn |-> id, type |-> "DEBIT", amount |-> req[h].amount,
     before |-> before[h][w], after |-> row[h][w]]

AuditRow(r, id) ==
    [action |-> IF r.op = "TOP_UP" THEN "WALLET_TOP_UP" ELSE "WALLET_TRANSFER",
     actor |-> r.user, entity |-> id]

ResponseBody(h, id) ==
    [txn |-> id,
     balances |-> IF req[h].op = "TOP_UP"
                  THEN <<row[h][Destination(req[h])]>>
                  ELSE <<row[h][Source(req[h])], row[h][Destination(req[h])]>>]

NextId == Len(transactions) + 1

\* wallets : the rows UPDATEd get the handler's copies.
PublishBalances(h) ==
    balance' = [w \in Wallets |->
        IF \/ "source" \in staged[h] /\ w = Source(req[h])
           \/ "destination" \in staged[h] /\ w = Destination(req[h])
        THEN row[h][w] ELSE balance[w]]

\* Mutant: only the credit leg is booked.
PublishEntriesCreditOnly(h) ==
    ledger' = [w \in Wallets |->
        IF "entries" \in staged[h] /\ w = Destination(req[h])
        THEN Append(ledger[w], CreditEntry(h, NextId)) ELSE ledger[w]]

\* ledger_entries : one row per wallet of the request.
PublishEntries(h) ==
    ledger' = [w \in Wallets |->
        CASE "entries" \in staged[h] /\ w = Destination(req[h])
               -> Append(ledger[w], CreditEntry(h, NextId))
          [] "entries" \in staged[h] /\ w = Source(req[h])
               -> Append(ledger[w], DebitEntry(h, NextId))
          [] OTHER -> ledger[w]]

\* transactions, audit_logs and webhook_deliveries.
PublishRecords(h) ==
    /\ transactions' = IF "transaction" \in staged[h]
                       THEN Append(transactions, TransactionRow(req[h]))
                       ELSE transactions
    /\ audits' = IF "audit" \in staged[h]
                 THEN Append(audits, AuditRow(req[h], NextId)) ELSE audits
    /\ deliveries' = IF "delivery" \in staged[h]
                     THEN Append(deliveries, NextId) ELSE deliveries

\* idempotency_records : the reservation, completed or not.
PublishReservation(h) ==
    idem' = [idem EXCEPT ![Slot(req[h])] =
        [hash   |-> HashPayload(req[h]),
         status |-> IF "completed" \in staged[h] THEN 200 ELSE 0,
         body   |-> IF "completed" \in staged[h]
                    THEN ResponseBody(h, NextId) ELSE EmptyBody]]

Publish(h) ==
    /\ PublishBalances(h)
    /\ PublishEntries(h)
    /\ PublishRecords(h)
    /\ PublishReservation(h)

\* COMMIT succeeds and the handler learns it.
Commit(h) ==
    /\ pc[h] = "commit"
    /\ Publish(h)
    /\ EndTransaction(h)
    /\ Answer(h, 200, ResponseBody(h, NextId))
    /\ Goto(h, IF "delivery" \in staged[h] THEN "enqueue" ELSE "answered")
    /\ UNCHANGED <<req, queue>>

\* COMMIT succeeds in the database but its acknowledgement is lost: the
\* driver reports an error, the caller gets a 500 and nothing is enqueued.
CommitUnacknowledged(h) ==
    /\ pc[h] = "commit"
    /\ Publish(h)
    /\ EndTransaction(h)
    /\ Answer(h, 500, EmptyBody)
    /\ Goto(h, "answered")
    /\ UNCHANGED <<req, queue>>

\* webhooks.Enqueue after the commit: a full channel drops the id.
Enqueue(h) ==
    /\ pc[h] = "enqueue"
    /\ queue' = IF Len(queue) < QueueSize
                THEN Append(queue, reply[h].body.txn) ELSE queue
    /\ Goto(h, "answered")
    /\ UNCHANGED <<tables, sessions, req, row, before, reply>>

-----------------------------------------------------------------------------
(* The environment.                                                        *)

\* The response leaves; whether the client receives it makes no difference
\* here, it may send the same request again in either case.
Return(h) ==
    /\ pc[h] = "answered"
    /\ Goto(h, "idle")
    /\ req' = [req EXCEPT ![h] = None]
    /\ reply' = [reply EXCEPT ![h] = NoAnswer]
    /\ UNCHANGED <<tables, sessions, row, before, queue>>

\* Any statement, BEGIN or COMMIT fails: connection lost, context cancelled,
\* lock wait interrupted.
Fail(h) == pc[h] \in InTx /\ Rollback(h, 500)

\* The worker goroutine takes an id from the channel.
Dequeue ==
    /\ queue # <<>>
    /\ queue' = Tail(queue)
    /\ UNCHANGED <<tables, sessions, pc, req, row, before, reply>>

\* The process dies and restarts: its goroutines and its channel are gone, and
\* the database ends its sessions.
Crash ==
    /\ lock' = [w \in Wallets |-> None]
    /\ owner' = [s \in Slots |-> None]
    /\ staged' = [h \in Handlers |-> {}]
    /\ pc' = [h \in Handlers |-> "idle"]
    /\ req' = [h \in Handlers |-> None]
    /\ row' = [h \in Handlers |-> NoRows]
    /\ before' = [h \in Handlers |-> NoRows]
    /\ reply' = [h \in Handlers |-> NoAnswer]
    /\ queue' = <<>>
    /\ UNCHANGED tables

-----------------------------------------------------------------------------
\* The steps of the two closures that are the same statement for statement.
Steps(h) ==
    \/ Reserve(h)
    \/ Existing(h)
    \/ LockWallet(h)
    \/ CreateTransaction(h)
    \/ UpdateDestination(h)
    \/ CreateEntries(h)
    \/ CreateAudit(h)
    \/ CreateDelivery(h)
    \/ MarkCompleted(h)
    \/ Commit(h)
    \/ Enqueue(h)

TopUp(h) ==
    /\ pc[h] # "idle"
    /\ req[h].op = "TOP_UP"
    /\ Steps(h) \/ TopUpLookup(h) \/ TopUpCheck(h)

Transfer(h) ==
    /\ pc[h] # "idle"
    /\ req[h].op = "TRANSFER"
    /\ Steps(h) \/ TransferLookup(h) \/ TransferCheck(h) \/ UpdateSource(h)

Next ==
    \/ \E h \in Handlers :
         \/ ReceiveTopUp(h)
         \/ ReceiveTransfer(h)
         \/ TopUp(h)
         \/ Transfer(h)
         \/ CommitUnacknowledged(h)
         \/ Fail(h)
         \/ Return(h)
    \/ Dequeue
    \/ Crash

Spec == Init /\ [][Next]_vars

\* A goroutine whose next call can proceed is scheduled; PostgreSQL hands a
\* lock or a key to its waiters in turn, so a waiter is not overtaken for ever.
Fairness ==
    \A h \in Handlers :
        /\ WF_vars(TopUp(h))
        /\ WF_vars(Transfer(h))
        /\ SF_vars(Reserve(h))
        /\ SF_vars(LockWallet(h))

FairSpec == Spec /\ Fairness

-----------------------------------------------------------------------------
(* Properties.                                                             *)

TypeOK ==
    /\ balance \in [Wallets -> 0 .. MaxInt]
    /\ ledger \in [Wallets -> Seq(LedgerEntry)]
    /\ transactions \in Seq(Transaction)
    /\ audits \in Seq(AuditLog)
    /\ deliveries \in Seq(Nat)
    /\ idem \in [Slots -> IdempotencyRecord \cup {None}]
    /\ lock \in [Wallets -> Handlers \cup {None}]
    /\ owner \in [Slots -> Handlers \cup {None}]
    /\ staged \in [Handlers -> SUBSET Statements]
    /\ pc \in [Handlers -> Places]
    /\ req \in [Handlers -> Requests \cup {None}]
    /\ row \in [Handlers -> [Wallets -> Int]]
    /\ before \in [Handlers -> [Wallets -> Int]]
    /\ reply \in [Handlers -> [status : Nat, body : Body]]
    /\ queue \in Seq(Nat)

\* The request of a running call, and what the checks made so far say of it.
RequestInv ==
    \A h \in Handlers :
        /\ pc[h] # "idle" => req[h] \in Requests
        /\ pc[h] \in InTx => Valid(req[h])
        /\ pc[h] \in {"lock"} \cup Locked => Destination(req[h]) # Source(req[h])
        /\ pc[h] \in Prepared => Destination(req[h]) \in Wallets

\* A slot belongs to the one handler past Reserve, and is unspent till then.
ReservationInv ==
    \A h \in Handlers :
        /\ \A s \in Slots :
             owner[s] = h <=> pc[h] \in Reserved /\ s = Slot(req[h])
        /\ pc[h] \in Reserved => idem[Slot(req[h])] = None
        /\ pc[h] = "existing" => idem[Slot(req[h])] # None

\* A handler past LockByIDs holds exactly the wallets it asked for.
LockInv ==
    \A h \in Handlers : \A w \in Wallets :
        /\ lock[w] = h => pc[h] \in {"lock"} \cup Locked /\ w \in Needed(req[h])
        /\ pc[h] \in Locked /\ w \in Needed(req[h]) => lock[w] = h

\* While a wallet is locked nobody else changes it: the balance a handler read
\* is still the committed one, and its copy differs by the amount moved.
CopyInv ==
    \A h \in Handlers : \A w \in Wallets : lock[w] = h =>
        /\ pc[h] \in {"lock", "check"} => row[h][w] = balance[w]
        /\ pc[h] \in Prepared =>
             /\ before[h][w] = balance[w]
             /\ w = Destination(req[h]) =>
                  row[h][w] = Int64(balance[w] + req[h].amount)
             /\ w = Source(req[h]) =>
                  /\ req[h].amount <= balance[w]
                  /\ row[h][w] = balance[w] - req[h].amount

\* The statements executed are those before the handler's place, and the
\* credited balance passed CHECK (balance >= 0).
Executed(h, statement, places) == statement \in staged[h] <=> pc[h] \in places

WriteInv ==
    \A h \in Handlers :
        /\ Executed(h, "transaction", Prepared \ {"create"})
        /\ "source" \in staged[h] <=>
             /\ pc[h] \in Prepared \ {"create", "source"}
             /\ req[h].op = "TRANSFER"
        /\ Executed(h, "destination",
                    {"entries", "audit", "delivery", "complete", "commit"})
        /\ Executed(h, "entries", {"audit", "delivery", "complete", "commit"})
        /\ Executed(h, "audit", {"delivery", "complete", "commit"})
        /\ "delivery" \in staged[h] <=>
             WebhookEnabled /\ pc[h] \in {"complete", "commit"}
        /\ Executed(h, "completed", {"commit"})
        /\ pc[h] = "source" => req[h].op = "TRANSFER"
        /\ pc[h] \in {"entries", "audit", "delivery", "complete", "commit"}
             => row[h][Destination(req[h])] >= 0

\* Isolation: keys, locks, copies and statements agree with where each handler
\* is.  This is the inductive invariant the proofs about the tables rest on.
IsolationInv ==
    /\ TypeOK
    /\ RequestInv
    /\ ReservationInv
    /\ LockInv
    /\ CopyInv
    /\ WriteInv

\* log is an unbroken chain of entries from zero to amount b: each entry starts
\* where the one before ended and moves by its amount.
Chain(log, b) ==
    /\ b = IF log = <<>> THEN 0 ELSE log[Len(log)].after
    /\ \A i \in DOMAIN log :
         /\ log[i].before = IF i = 1 THEN 0 ELSE log[i - 1].after
         /\ log[i].after = IF log[i].type = "CREDIT"
                           THEN log[i].before + log[i].amount
                           ELSE log[i].before - log[i].amount

\* Every wallet's ledger is a chain from zero to the wallet's balance.  It
\* breaks if two handlers ever compute from the same balance, or if a balance is
\* saved without its entry (transaction.go:124-159, 298-351 under LockByIDs).
LedgerExplainsBalance == \A w \in Wallets : Chain(ledger[w], balance[w])

\* The rows of a call are all there or none is.  Every entry belongs to a
\* committed transaction that names its wallet on that side, with its amount;
\* every transaction has its credit entry, its debit entry if it has a source,
\* its audit row and, with webhooks on, its delivery; and no transaction has
\* two entries in one wallet (ids strictly increase along a ledger).
EntryBelongs(w, e) ==
    /\ e.txn \in DOMAIN transactions
    /\ e.amount = transactions[e.txn].amount
    /\ w = IF e.type = "CREDIT" THEN transactions[e.txn].destination
                                ELSE transactions[e.txn].source

HasEntry(w, id, type) ==
    \E j \in DOMAIN ledger[w] : ledger[w][j].txn = id /\ ledger[w][j].type = type

JournalComplete ==
    /\ \A w \in Wallets :
         /\ \A j \in DOMAIN ledger[w] : EntryBelongs(w, ledger[w][j])
         /\ \A j, k \in DOMAIN ledger[w] :
              j < k => ledger[w][j].txn < ledger[w][k].txn
    /\ \A i \in DOMAIN transactions :
         /\ HasEntry(transactions[i].destination, i, "CREDIT")
         /\ transactions[i].source # None
              => HasEntry(transactions[i].source, i, "DEBIT")
    /\ Len(audits) = Len(transactions)
    /\ \A i \in DOMAIN audits :
         audits[i].entity = i /\ audits[i].actor = transactions[i].user
    /\ Len(deliveries) = IF WebhookEnabled THEN Len(transactions) ELSE 0
    /\ \A i \in DOMAIN deliveries : deliveries[i] = i

\* The money in the wallets is the money topped up: transfers, failures and
\* replays create and destroy none (transaction.go:298-301).
ToppedUp == [i \in DOMAIN transactions |->
    IF transactions[i].type = "TOP_UP" THEN transactions[i].amount ELSE 0]

Conserved == Total(balance, Wallets) = Total(ToppedUp, DOMAIN transactions)

\* An idempotency slot and a transaction determine each other: no slot is ever
\* spent on two transactions, none is committed "still being processed"
\* (status 0, transaction.go:94, 253), and its record keeps the payload and the
\* transaction of the one call that succeeded.
TransactionSlot(t) == <<t.type, t.user, t.key>>

OncePerKey ==
    /\ \A s \in Slots : idem[s] # None =>
         /\ idem[s].status = 200
         /\ idem[s].body.txn \in DOMAIN transactions
         /\ LET t == transactions[idem[s].body.txn] IN
              /\ TransactionSlot(t) = s
              /\ idem[s].hash = <<IF t.type = "TOP_UP" THEN None
                                  ELSE t.destination, t.amount>>
    /\ \A i \in DOMAIN transactions :
         LET s == TransactionSlot(transactions[i]) IN
         idem[s] # None /\ idem[s].body.txn = i

\* A call that returns 200, first or replayed, names a committed transaction
\* that did what this very request asked for, and the credited balance it
\* reports is the one that transaction's ledger entry records.
AnswersAreTrue ==
    \A h \in Handlers : reply[h].status = 200 =>
        LET id == reply[h].body.txn
            shown == reply[h].body.balances
            to == Destination(req[h])
        IN  /\ id \in DOMAIN transactions
            /\ transactions[id] = TransactionRow(req[h])
            /\ \E j \in DOMAIN ledger[to] :
                 /\ ledger[to][j].txn = id
                 /\ ledger[to][j].after = shown[Len(shown)]

\* h cannot go on before g's transaction ends.
WaitsFor(h, g) ==
    \/ pc[h] = "reserve" /\ owner[Slot(req[h])] = g
    \/ pc[h] = "lock" /\ \E w \in NextLock(h) : lock[w] = g

\* No set of handlers wait for each other: keys are taken before wallets and
\* wallets in the order of LockByIDs (gorm.go:102-115).
NoDeadlock ==
    \A S \in SUBSET Handlers :
        S # {} => \E h \in S : \A g \in S : ~WaitsFor(h, g)

\* Nothing committed is rewritten: transactions, ledger and audit rows are only
\* appended, and an idempotency record never changes, so a replay is the same
\* answer for ever.
HistoryStep ==
    /\ \A s \in Slots : idem[s] # None => idem'[s] = idem[s]
    /\ \A i \in DOMAIN transactions :
         i \in DOMAIN transactions' /\ transactions'[i] = transactions[i]
    /\ \A w \in Wallets : \A j \in DOMAIN ledger[w] :
         j \in DOMAIN ledger'[w] /\ ledger'[w][j] = ledger[w][j]
    /\ \A i \in DOMAIN audits : i \in DOMAIN audits' /\ audits'[i] = audits[i]

HistoryIsKept == [][HistoryStep]_vars

\* The payload each slot was spent on.
Done == [s \in Slots |-> IF idem[s] = None THEN None ELSE idem[s].hash]

Abstract == INSTANCE Bank WITH done <- Done

\* Handlers, statements, locks and failures together behave like the bank that
\* moves money in one step, at most once per slot, within bounds.
ImplementsBank == Abstract!Spec

\* Deliveries whose commit was acknowledged and whose id is not enqueued yet.
Handing == {reply[h].body.txn : h \in {g \in Handlers : pc[g] = "enqueue"}}

Feed == INSTANCE WebhookFeed WITH
          Capacity <- QueueSize, rows <- Len(deliveries), handing <- Handing,
          channel <- queue

\* The requests feed the webhook worker as module Webhooks expects: each id is handed
\* over after the commit of its row, once at most, and never waits for room.
FeedsWorker == Feed!Spec

\* A call that entered its transaction gets an answer (or dies with the
\* process): waiting on a key or a wallet ends.
EveryCallAnswered ==
    \A h \in Handlers : pc[h] \in InTx ~> pc[h] \notin InTx
=============================================================================
