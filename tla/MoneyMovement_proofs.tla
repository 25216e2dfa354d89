------------------------ MODULE MoneyMovement_proofs ------------------------
(***************************************************************************)
(* Proofs about MoneyMovement and Reads, for any number of handlers,       *)
(* users, wallets and keys and any amounts.                                *)
(*                                                                         *)
(* First isolation: a handler's private view agrees with the tables.  On   *)
(* it rests what the tables say: the ledger explains every balance, a key  *)
(* is spent at most once, history is never rewritten, the handlers         *)
(* together implement Bank, the rows of a call are all there or none is,   *)
(* and money is conserved.  Then what the handlers promise: every answer   *)
(* is true, what users read fits together, nobody waits for ever on a      *)
(* circle of locks, and the worker is fed as WebhookFeed says.             *)
(***************************************************************************)
EXTENDS Reads, Sums_proofs

-----------------------------------------------------------------------------
(* Requests.                                                               *)

\* What a request's fields and the operators over it can be.
LEMMA RequestFacts ==
    ASSUME NEW r \in Requests
    PROVE  /\ r.op \in {"TOP_UP", "TRANSFER"}
           /\ r.user \in Users
           /\ r.key \in Keys
           /\ r.amount \in Amounts
           /\ r.amount \in Int
           /\ r.amount <= MaxInt
           /\ WalletOf[r.user] \in Wallets
           /\ Slot(r) \in Slots
           /\ HashPayload(r) \in Hashes
           /\ Needed(r) \subseteq Wallets
           /\ r.op = "TOP_UP" =>
                /\ Destination(r) = WalletOf[r.user]
                /\ Source(r) = None
                /\ r.to = None
           /\ r.op = "TRANSFER" =>
                /\ Destination(r) = r.to
                /\ Source(r) = WalletOf[r.user]
                /\ r.to \in Wallets \cup UnknownWallets
<1>1. CASE r \in TopUpRequest
  BY <1>1, WalletAssumption, AmountAssumption
     DEF TopUpRequest, Slot, Slots, HashPayload, Hashes, Needed, Destination, Source
<1>2. CASE r \in TransferRequest
  BY <1>2, WalletAssumption, AmountAssumption
     DEF TransferRequest, Slot, Slots, HashPayload, Hashes, Needed, Destination, Source
<1> QED
  BY <1>1, <1>2 DEF Requests

\* The rows a transaction that locks both its wallets needs.
LEMMA NeededFacts ==
    ASSUME NEW r \in Requests, Destination(r) \in Wallets
    PROVE  /\ Destination(r) \in Needed(r)
           /\ Source(r) # None => Source(r) \in Needed(r) /\ Source(r) \in Wallets
           /\ \A w \in Needed(r) : w = Destination(r) \/ w = Source(r)
           /\ Source(r) = None <=> r.op = "TOP_UP"
  BY RequestFacts, NoneAssumption DEF Needed

\* Remainders within one modulus of the representatives.
LEMMA ModFacts ==
    ASSUME NEW m \in Nat \ {0}, NEW y \in Int
    PROVE  /\ y % m \in 0 .. m - 1
           /\ y \in 0 .. m - 1 => y % m = y
           /\ y \in m .. 2 * m - 1 => y % m = y - m
           /\ y \in -m .. -1 => y % m = y + m
<1>1. y % m \in 0 .. m - 1
  OBVIOUS
<1>2. y \in 0 .. m - 1 => y % m = y
  OBVIOUS
<1>3. y \in m .. 2 * m - 1 => y % m = y - m
  OBVIOUS
<1>4. y \in -m .. -1 => y % m = y + m
  OBVIOUS
<1> QED
  BY <1>1, <1>2, <1>3, <1>4

\* An int64 is exact in its range, and wraps once around outside it.
LEMMA Int64Range ==
    ASSUME NEW x \in Int
    PROVE  /\ Int64(x) \in -MaxInt - 1 .. MaxInt
           /\ x \in -MaxInt - 1 .. MaxInt => Int64(x) = x
           /\ x \in MaxInt + 1 .. 2 * MaxInt + 1 => Int64(x) = x - 2 * (MaxInt + 1)
           /\ x \in -2 * MaxInt - 1 .. -MaxInt - 2 => Int64(x) = x + 2 * (MaxInt + 1)
<1> DEFINE m == 2 * (MaxInt + 1)
           y == x + MaxInt + 1
           z == y % m
<1>1. /\ m \in Nat \ {0} /\ y \in Int /\ MaxInt \in Nat
      /\ m = 2 * MaxInt + 2 /\ y = x + MaxInt + 1
  BY MaxIntAssumption
<1>2. Int64(x) = z - (MaxInt + 1)
  BY DEF Int64
<1> HIDE DEF m, y
<1>3. /\ z \in 0 .. m - 1
      /\ y \in 0 .. m - 1 => z = y
      /\ y \in m .. 2 * m - 1 => z = y - m
      /\ y \in -m .. -1 => z = y + m
  BY <1>1, ModFacts
<1> HIDE DEF z
<1> QED
  BY <1>1, <1>2, <1>3

\* What the int64 addition of two amounts can give.
LEMMA Int64Facts ==
    ASSUME NEW x \in Int
    PROVE  /\ Int64(x) \in Int
           /\ x \in 0 .. 2 * MaxInt /\ Int64(x) >= 0 => Int64(x) = x /\ x <= MaxInt
  BY Int64Range, MaxIntAssumption

-----------------------------------------------------------------------------
(* The inductive invariant, action by action.                              *)

\* A transaction ends without changing a table: rollback, or a replay.
LEMMA FinishStep ==
    ASSUME IsolationInv, NEW h \in Handlers, pc[h] \in InTx, EndTransaction(h),
           Goto(h, "answered"), reply' \in [Handlers -> [status : Nat, body : Body]],
           UNCHANGED <<tables, req, queue>>
    PROVE  IsolationInv'
<1> USE DEF IsolationInv, EndTransaction, Goto, tables
<1>1. TypeOK'
  <2>1. NoRows \in [Wallets -> Int]
    BY DEF NoRows
  <2>2. lock' \in [Wallets -> Handlers \cup {None}]
    BY DEF TypeOK
  <2>3. owner' \in [Slots -> Handlers \cup {None}]
    BY DEF TypeOK
  <2> QED
    BY <2>1, <2>2, <2>3 DEF TypeOK, Places
<1>2. RequestInv'
  BY DEF TypeOK, RequestInv, InTx, Reserved, Locked, Prepared
<1>3. ReservationInv'
  BY HandlerAssumption DEF TypeOK, ReservationInv, InTx, Reserved, Locked, Prepared
<1>4. LockInv'
  BY HandlerAssumption DEF TypeOK, LockInv, InTx, Reserved, Locked, Prepared
<1>5. CopyInv'
  BY HandlerAssumption DEF TypeOK, CopyInv, Locked, Prepared
<1>6. WriteInv'
  BY DEF TypeOK, WriteInv, Executed, Prepared
<1> QED
  BY <1>1, <1>2, <1>3, <1>4, <1>5, <1>6

\* The closure returns an error.
LEMMA RollbackStep ==
    ASSUME IsolationInv, NEW h \in Handlers, pc[h] \in InTx, NEW status \in Nat,
           Rollback(h, status)
    PROVE  IsolationInv'
<1>1. [status |-> status, body |-> EmptyBody] \in [status : Nat, body : Body]
  BY DEF EmptyBody, Body
<1>2. reply' \in [Handlers -> [status : Nat, body : Body]]
  BY <1>1 DEF IsolationInv, TypeOK, Rollback, Answer
<1> QED
  BY <1>2, FinishStep DEF Rollback

\* A statement of the write phase: only the place and the staged rows change.
LEMMA PreparedStep ==
    ASSUME IsolationInv, NEW h \in Handlers, pc[h] \in Prepared,
           NEW next \in Prepared, Goto(h, next),
           staged' \in [Handlers -> SUBSET Statements],
           UNCHANGED <<tables, lock, owner, req, row, before, reply, queue>>,
           WriteInv'
    PROVE  IsolationInv'
<1> USE DEF IsolationInv, Goto, tables
<1>1. TypeOK'
  BY DEF TypeOK, Places, InTx, Reserved, Locked
<1>2. RequestInv'
  BY DEF TypeOK, RequestInv, InTx, Reserved, Locked, Prepared
<1>3. ReservationInv'
  BY DEF TypeOK, ReservationInv, Reserved, Locked, Prepared
<1>4. LockInv'
  BY DEF TypeOK, LockInv, Locked, Prepared
<1>5. CopyInv'
  BY DEF TypeOK, CopyInv, Locked, Prepared
<1> QED
  BY <1>1, <1>2, <1>3, <1>4, <1>5

\* A call arrives at an idle handler.
LEMMA ReceiveStep ==
    ASSUME IsolationInv, NEW h \in Handlers, NEW r \in Requests, Receive(h, r)
    PROVE  IsolationInv'
<1> USE DEF IsolationInv, Receive, Goto, tables, sessions
<1>1. TypeOK'
  <2>1. [status |-> 400, body |-> EmptyBody] \in [status : Nat, body : Body]
    BY DEF EmptyBody, Body
  <2>2. reply' \in [Handlers -> [status : Nat, body : Body]]
    BY <2>1 DEF TypeOK, Answer
  <2> QED
    BY <2>2 DEF TypeOK, Places, InTx
<1>2. RequestInv'
  BY DEF TypeOK, RequestInv, InTx, Reserved, Locked, Prepared
<1>3. ReservationInv'
  BY DEF TypeOK, ReservationInv, Reserved, Locked, Prepared
<1>4. LockInv'
  <2>0. pc' = [pc EXCEPT ![h] = "reserve"] \/ pc' = [pc EXCEPT ![h] = "answered"]
    OBVIOUS
  <2>1. pc[h] \notin {"lock"} \cup Locked /\ pc'[h] \notin {"lock"} \cup Locked
    BY <2>0 DEF TypeOK, Locked, Prepared
  <2>2. \A g \in Handlers \ {h} : pc'[g] = pc[g] /\ req'[g] = req[g]
    BY <2>0 DEF TypeOK
  <2>3. lock' = lock
    OBVIOUS
  <2> QED
    BY <2>1, <2>2, <2>3 DEF LockInv
<1>5. CopyInv'
  BY DEF TypeOK, CopyInv, LockInv, Locked, Prepared
<1>6. WriteInv'
  BY DEF TypeOK, WriteInv, Executed, Prepared
<1> QED
  BY <1>1, <1>2, <1>3, <1>4, <1>5, <1>6

\* The insert that reserves a slot, or finds it spent.
LEMMA ReserveStep ==
    ASSUME IsolationInv, NEW h \in Handlers, Reserve(h)
    PROVE  IsolationInv'
<1> USE DEF IsolationInv, Reserve, Goto, tables
<1>0. req[h] \in Requests /\ Slot(req[h]) \in Slots
  BY RequestFacts DEF RequestInv
<1>a. \/ /\ idem[Slot(req[h])] = None
         /\ owner' = [owner EXCEPT ![Slot(req[h])] = h]
         /\ pc' = [pc EXCEPT ![h] = "lookup"]
      \/ /\ idem[Slot(req[h])] # None
         /\ owner' = owner
         /\ pc' = [pc EXCEPT ![h] = "existing"]
  OBVIOUS
<1>1. TypeOK'
  BY <1>0 DEF TypeOK, Places, InTx, Reserved
<1>2. RequestInv'
  BY DEF TypeOK, RequestInv, InTx, Reserved, Locked, Prepared
<1>3. ReservationInv'
  <2>1. CASE owner' = owner
    BY <2>1, <1>0, <1>a DEF TypeOK, ReservationInv, Reserved, Locked, Prepared
  <2>2. CASE pc' = [pc EXCEPT ![h] = "lookup"]
    BY <2>2, <1>0, <1>a, HandlerAssumption
       DEF TypeOK, ReservationInv, Reserved, Locked, Prepared
  <2> QED
    BY <1>a, <2>1, <2>2
<1>4. LockInv'
  <2>1. pc[h] \notin {"lock"} \cup Locked /\ pc'[h] \notin {"lock"} \cup Locked
    BY <1>a DEF TypeOK, Locked, Prepared
  <2>2. \A g \in Handlers \ {h} : pc'[g] = pc[g]
    BY <1>a DEF TypeOK
  <2>3. lock' = lock /\ req' = req
    OBVIOUS
  <2> QED
    BY <2>1, <2>2, <2>3 DEF LockInv
<1>5. CopyInv'
  BY DEF TypeOK, CopyInv, LockInv, Locked, Prepared
<1>6. WriteInv'
  BY DEF TypeOK, WriteInv, Executed, Prepared
<1> QED
  BY <1>1, <1>2, <1>3, <1>4, <1>5, <1>6

\* GetByUserID found the caller's wallet and the request may go on to lock.
LEMMA LookupStep ==
    ASSUME IsolationInv, NEW h \in Handlers, pc[h] = "lookup", Goto(h, "lock"),
           Destination(req[h]) # Source(req[h]),
           UNCHANGED <<tables, sessions, req, row, before, reply, queue>>
    PROVE  IsolationInv'
<1> USE DEF IsolationInv, Goto, tables, sessions
<1>1. TypeOK'
  BY DEF TypeOK, Places, InTx, Reserved
<1>2. RequestInv'
  BY DEF TypeOK, RequestInv, InTx, Reserved, Locked, Prepared
<1>3. ReservationInv'
  BY DEF TypeOK, ReservationInv, Reserved, Locked, Prepared
<1>4. LockInv'
  BY DEF TypeOK, LockInv, Locked, Prepared
<1>5. CopyInv'
  BY DEF TypeOK, CopyInv, LockInv, Locked, Prepared
<1>6. WriteInv'
  BY DEF TypeOK, WriteInv, Executed, Prepared
<1> QED
  BY <1>1, <1>2, <1>3, <1>4, <1>5, <1>6

\* One row is locked and read.
LEMMA LockStep ==
    ASSUME IsolationInv, NEW h \in Handlers, LockWallet(h)
    PROVE  IsolationInv'
<1> USE DEF IsolationInv, Goto, tables
<1>0. PICK w \in NextLock(h) :
        /\ lock[w] = None
        /\ lock' = [lock EXCEPT ![w] = h]
        /\ row' = [row EXCEPT ![h][w] = balance[w]]
        /\ Goto(h, IF ToLock(h) = {w} THEN "check" ELSE "lock")
  BY DEF LockWallet
<1>a. /\ pc[h] = "lock"
      /\ UNCHANGED <<tables, owner, staged, req, before, reply, queue>>
  BY DEF LockWallet
<1>b. req[h] \in Requests /\ Needed(req[h]) \subseteq Wallets
  BY <1>a, RequestFacts DEF RequestInv
<1>c. w \in ToLock(h) /\ w \in Needed(req[h]) /\ w \in Wallets
  BY <1>b DEF NextLock, ToLock
<1>1. TypeOK'
  BY <1>0, <1>a, <1>c DEF TypeOK, Places, InTx, Reserved, Locked
<1>2. RequestInv'
  BY <1>0, <1>a DEF TypeOK, RequestInv, InTx, Reserved, Locked, Prepared
<1>3. ReservationInv'
  BY <1>0, <1>a DEF TypeOK, ReservationInv, Reserved, Locked, Prepared
<1>4. LockInv'
  <2>1. /\ pc \in [Handlers -> Places] /\ pc[h] = "lock"
        /\ lock \in [Wallets -> Handlers \cup {None}]
    BY <1>a DEF TypeOK
  <2>2. /\ lock'[w] = h
        /\ \A v \in Wallets : v # w => lock'[v] = lock[v]
    BY <2>1, <1>0, <1>c
  <2>3. /\ pc'[h] = IF ToLock(h) = {w} THEN "check" ELSE "lock"
        /\ \A g \in Handlers : g # h => pc'[g] = pc[g]
    BY <2>1, <1>0
  <2>4. req' = req /\ pc'[h] \in {"lock"} \cup Locked
    BY <1>a, <2>3 DEF Locked
  <2>5. ASSUME NEW v \in Wallets, pc'[h] \in Locked, v \in Needed(req[h])
        PROVE  lock'[v] = h
    <3>1. ToLock(h) = {w}
      BY <2>3, <2>5 DEF Locked, Prepared
    <3>2. v = w \/ lock[v] = h
      BY <3>1, <2>5 DEF ToLock
    <3> QED
      BY <3>2, <2>2, <2>5
  <2>6. ASSUME NEW g \in Handlers, NEW v \in Wallets
        PROVE  /\ lock'[v] = g =>
                    pc'[g] \in {"lock"} \cup Locked /\ v \in Needed(req[g])
               /\ pc'[g] \in Locked /\ v \in Needed(req[g]) => lock'[v] = g
    <3>0. /\ lock[v] = g => pc[g] \in {"lock"} \cup Locked /\ v \in Needed(req[g])
          /\ pc[g] \in Locked /\ v \in Needed(req[g]) => lock[v] = g
      BY <2>6 DEF LockInv
    <3>1. CASE g = h
      <4>1. lock'[v] = h => v \in Needed(req[h])
        BY <3>0, <3>1, <2>2, <1>c, <2>6
      <4> QED
        BY <3>1, <4>1, <2>4, <2>5, <2>6
    <3>2. CASE g # h /\ v = w
      <4>1. lock[v] # g
        BY <3>2, <1>0, <2>6, HandlerAssumption
      <4> QED
        BY <4>1, <3>0, <3>2, <2>2, <2>3, <2>6
    <3>3. CASE g # h /\ v # w
      BY <3>0, <3>3, <2>2, <2>3, <2>6
    <3> QED
      BY <3>1, <3>2, <3>3
  <2> QED
    BY <2>4, <2>6 DEF LockInv, Needed
<1>5. CopyInv'
  <2>1. /\ pc \in [Handlers -> Places] /\ pc[h] = "lock"
        /\ lock \in [Wallets -> Handlers \cup {None}]
        /\ row \in [Handlers -> [Wallets -> Int]]
    BY <1>a DEF TypeOK
  <2>2. /\ lock'[w] = h
        /\ \A v \in Wallets : v # w => lock'[v] = lock[v]
    BY <2>1, <1>0, <1>c
  <2>3. /\ pc'[h] \in {"lock", "check"}
        /\ \A g \in Handlers : g # h => pc'[g] = pc[g]
    BY <2>1, <1>0
  <2>4. /\ row'[h][w] = balance[w]
        /\ \A v \in Wallets : v # w => row'[h][v] = row[h][v]
        /\ \A g \in Handlers : g # h => row'[g] = row[g]
    BY <2>1, <1>0, <1>c
  <2>5. req' = req /\ before' = before /\ balance' = balance
    BY <1>a
  <2>6. ASSUME NEW v \in Wallets, lock'[v] = h PROVE row'[h][v] = balance[v]
    BY <2>1, <2>2, <2>4, <2>6 DEF CopyInv
  <2>7. ASSUME NEW g \in Handlers, g # h, NEW v \in Wallets, lock'[v] = g
        PROVE  /\ lock[v] = g
               /\ pc'[g] = pc[g] /\ row'[g] = row[g]
    BY <2>2, <2>3, <2>4, <2>7
  <2>8. \A v \in Wallets : lock'[v] = h =>
          row'[h][v] = balance'[v] /\ pc'[h] \notin Prepared
    BY <2>3, <2>5, <2>6 DEF Prepared
  <2>9. ASSUME NEW g \in Handlers, NEW v \in Wallets, lock'[v] = g
        PROVE  /\ pc'[g] \in {"lock", "check"} => row'[g][v] = balance'[v]
               /\ pc'[g] \in Prepared =>
                    /\ before'[g][v] = balance'[v]
                    /\ v = Destination(req'[g]) =>
                         row'[g][v] = Int64(balance'[v] + req'[g].amount)
                    /\ v = Source(req'[g]) =>
                         /\ req'[g].amount <= balance'[v]
                         /\ row'[g][v] = balance'[v] - req'[g].amount
    <3>1. CASE g = h
      BY <2>8, <2>9, <3>1
    <3>2. CASE g # h
      BY <2>5, <2>7, <2>9, <3>2 DEF CopyInv
    <3> QED
      BY <3>1, <3>2
  <2> QED
    BY <2>9 DEF CopyInv, Destination, Source
<1>6. WriteInv'
  BY <1>0, <1>a DEF TypeOK, WriteInv, Executed, Prepared
<1> QED
  BY <1>1, <1>2, <1>3, <1>4, <1>5, <1>6

\* The checks passed: the handler computes the new balances in its copies.
LEMMA CheckStep ==
    ASSUME IsolationInv, NEW h \in Handlers, pc[h] = "check", Goto(h, "create"),
           before' = [before EXCEPT ![h] = row[h]],
           NEW copies \in [Wallets -> Int], row' = [row EXCEPT ![h] = copies],
           Destination(req[h]) \in Wallets,
           copies[Destination(req[h])] =
               Int64(row[h][Destination(req[h])] + req[h].amount),
           Source(req[h]) # None =>
               /\ req[h].amount <= row[h][Source(req[h])]
               /\ copies[Source(req[h])] = row[h][Source(req[h])] - req[h].amount,
           UNCHANGED <<tables, sessions, req, reply, queue>>
    PROVE  IsolationInv'
<1> USE DEF IsolationInv, Goto, tables, sessions
<1>0. req[h] \in Requests
  BY DEF RequestInv
<1>1. TypeOK'
  BY DEF TypeOK, Places, InTx, Reserved, Locked, Prepared
<1>2. RequestInv'
  BY DEF TypeOK, RequestInv, InTx, Reserved, Locked, Prepared
<1>3. ReservationInv'
  BY DEF TypeOK, ReservationInv, Reserved, Locked, Prepared
<1>4. LockInv'
  BY DEF TypeOK, LockInv, Locked, Prepared
<1>5. CopyInv'
  <2> SUFFICES ASSUME NEW g \in Handlers, NEW w \in Wallets, lock'[w] = g
               PROVE  /\ pc'[g] \in {"lock", "check"} => row'[g][w] = balance'[w]
                      /\ pc'[g] \in Prepared =>
                           /\ before'[g][w] = balance'[w]
                           /\ w = Destination(req'[g]) =>
                                row'[g][w] = Int64(balance'[w] + req'[g].amount)
                           /\ w = Source(req'[g]) =>
                                /\ req'[g].amount <= balance'[w]
                                /\ row'[g][w] = balance'[w] - req'[g].amount
    BY DEF CopyInv
  <2>1. CASE g = h
    <3>1. row[h][w] = balance[w]
      BY <2>1 DEF CopyInv
    <3>2. row'[h][w] = copies[w] /\ before'[h][w] = row[h][w] /\ pc'[h] = "create"
      BY DEF TypeOK
    <3>3. w # None
      BY NoneAssumption
    <3> QED
      BY <2>1, <3>1, <3>2, <3>3 DEF Prepared
  <2>2. CASE g # h
    BY <2>2 DEF TypeOK, CopyInv
  <2> QED
    BY <2>1, <2>2
<1>6. WriteInv'
  BY DEF TypeOK, WriteInv, Executed, Prepared
<1> QED
  BY <1>1, <1>2, <1>3, <1>4, <1>5, <1>6

\* TopUpCheck only changes private copies: isolation is kept, and the credited copy
\* is the committed balance plus the amount (transaction.go:115-125).
LEMMA TopUpCheckStep ==
    ASSUME IsolationInv, NEW h \in Handlers, req[h].op = "TOP_UP", TopUpCheck(h)
    PROVE  IsolationInv'
<1> DEFINE w == WalletOf[req[h].user]
           copies == [row[h] EXCEPT ![w] = Int64(@ + req[h].amount)]
<1>1. req[h] \in Requests /\ pc[h] = "check"
  BY DEF TopUpCheck, IsolationInv, RequestInv
<1>2. /\ w \in Wallets
      /\ req[h].amount \in Int
      /\ Destination(req[h]) = w
      /\ Source(req[h]) = None
  BY <1>1, RequestFacts
<1>3. row \in [Handlers -> [Wallets -> Int]]
  BY DEF IsolationInv, TypeOK
<1>4. copies \in [Wallets -> Int]
  <2>1. Int64(row[h][w] + req[h].amount) \in Int
    BY <1>2, <1>3, Int64Facts
  <2> QED
    BY <1>2, <1>3, <2>1
<1>5. copies[w] = Int64(row[h][w] + req[h].amount)
  BY <1>2, <1>3
<1>6. row' = [row EXCEPT ![h] = copies]
  BY <1>3 DEF TopUpCheck
<1> QED
  <2> HIDE DEF copies
  <2> QED
    BY <1>1, <1>2, <1>4, <1>5, <1>6, CheckStep DEF TopUpCheck

\* TransferCheck keeps isolation: it rolls back, or both private copies move by the
\* amount and the sender has enough (transaction.go:277-301).
LEMMA TransferCheckStep ==
    ASSUME IsolationInv, NEW h \in Handlers, req[h].op = "TRANSFER", TransferCheck(h)
    PROVE  IsolationInv'
<1> DEFINE from == WalletOf[req[h].user]
           to == req[h].to
           a == req[h].amount
           copies == [row[h] EXCEPT ![from] = @ - a, ![to] = Int64(@ + a)]
<1>1. req[h] \in Requests /\ pc[h] = "check"
  BY DEF TransferCheck, IsolationInv, RequestInv
<1>2. from \in Wallets /\ a \in Int /\ Destination(req[h]) = to /\ Source(req[h]) = from
  BY <1>1, RequestFacts
<1>3. to # from
  BY <1>1, <1>2 DEF IsolationInv, RequestInv, Locked
<1>4. CASE to \notin Wallets
  BY <1>1, <1>4, RollbackStep DEF TransferCheck, InTx, Reserved, Locked
<1>5. CASE to \in Wallets /\ row[h][from] < a
  BY <1>1, <1>5, RollbackStep DEF TransferCheck, InTx, Reserved, Locked
<1>6. CASE to \in Wallets /\ ~(row[h][from] < a)
  <2>1. row \in [Handlers -> [Wallets -> Int]]
    BY DEF IsolationInv, TypeOK
  <2>2. copies \in [Wallets -> Int]
    <3>1. Int64(row[h][to] + a) \in Int /\ row[h][from] - a \in Int
      BY <1>2, <1>6, <2>1, Int64Facts
    <3> QED
      BY <1>2, <1>3, <1>6, <2>1, <3>1
  <2>3. copies[to] = Int64(row[h][to] + a) /\ copies[from] = row[h][from] - a
    BY <1>2, <1>3, <1>6, <2>1
  <2>4. a <= row[h][from]
    BY <1>2, <1>6, <2>1
  <2>5. row' = [row EXCEPT ![h] = copies]
    BY <1>6, <2>1 DEF TransferCheck
  <2>6. /\ before' = [before EXCEPT ![h] = row[h]]
        /\ Goto(h, "create")
        /\ UNCHANGED <<tables, sessions, req, reply, queue>>
    BY <1>6 DEF TransferCheck
  <2> HIDE DEF copies
  <2> QED
    BY <1>1, <1>2, <1>6, <2>2, <2>3, <2>4, <2>5, <2>6, CheckStep
<1> QED
  BY <1>4, <1>5, <1>6

\* A statement that stages its rows.
LEMMA ExecuteStep ==
    ASSUME IsolationInv, NEW h \in Handlers, NEW place \in Prepared,
           NEW statement \in Statements, NEW next \in Prepared,
           Execute(h, place, statement, next), WriteInv'
    PROVE  IsolationInv'
<1>1. staged' \in [Handlers -> SUBSET Statements]
  BY DEF Execute, IsolationInv, TypeOK
<1> QED
  BY <1>1, PreparedStep DEF Execute

\* Each write stages one statement and nothing else (transaction.go:139-193, 316-386).
LEMMA WriteSteps ==
    ASSUME IsolationInv, NEW h \in Handlers, pc[h] # "idle"
    PROVE  /\ CreateTransaction(h) => IsolationInv'
           /\ req[h].op = "TRANSFER" /\ UpdateSource(h) => IsolationInv'
           /\ UpdateDestination(h) => IsolationInv'
           /\ CreateEntries(h) => IsolationInv'
           /\ CreateAudit(h) => IsolationInv'
           /\ CreateDelivery(h) => IsolationInv'
           /\ MarkCompleted(h) => IsolationInv'
<1>0. req[h] \in Requests
  BY DEF IsolationInv, RequestInv
<1>1. ASSUME CreateTransaction(h) PROVE IsolationInv'
  <2> DEFINE next == IF req[h].op = "TOP_UP" THEN "destination" ELSE "source"
  <2>1. next \in Prepared /\ "create" \in Prepared /\ "transaction" \in Statements
    BY DEF Prepared, Statements
  <2>2. WriteInv'
    BY <1>0, <1>1, RequestFacts
       DEF CreateTransaction, Execute, Goto, IsolationInv, TypeOK, WriteInv,
           Executed, Prepared
  <2> QED
    BY <1>1, <2>1, <2>2, ExecuteStep DEF CreateTransaction
<1>2. ASSUME req[h].op = "TRANSFER", UpdateSource(h) PROVE IsolationInv'
  <2>1. {"source", "destination"} \subseteq Prepared /\ "source" \in Statements
    BY DEF Prepared, Statements
  <2>2. WriteInv'
    BY <1>2 DEF UpdateSource, Execute, Goto, IsolationInv, TypeOK, WriteInv,
                Executed, Prepared
  <2> QED
    BY <1>2, <2>1, <2>2, ExecuteStep DEF UpdateSource
<1>3. ASSUME UpdateDestination(h) PROVE IsolationInv'
  <2>1. CASE row[h][Destination(req[h])] < 0
    BY <1>3, <2>1, RollbackStep DEF UpdateDestination, InTx, Reserved, Locked, Prepared
  <2>2. CASE ~(row[h][Destination(req[h])] < 0)
    <3>1. {"entries", "destination"} \subseteq Prepared /\ "destination" \in Statements
      BY DEF Prepared, Statements
    <3>2. Execute(h, "destination", "destination", "entries")
      BY <1>3, <2>2 DEF UpdateDestination
    <3>3. row[h][Destination(req[h])] >= 0
      BY <2>2, <3>1, <3>2 DEF IsolationInv, TypeOK, RequestInv, Execute
    <3>4. WriteInv'
      BY <3>2, <3>3 DEF Execute, Goto, IsolationInv, TypeOK, WriteInv, Executed,
                        Prepared
    <3> QED
      BY <3>1, <3>2, <3>4, ExecuteStep
  <2> QED
    BY <2>1, <2>2
<1>4. ASSUME CreateEntries(h) PROVE IsolationInv'
  <2>1. {"entries", "audit"} \subseteq Prepared /\ "entries" \in Statements
    BY DEF Prepared, Statements
  <2>2. WriteInv'
    BY <1>4 DEF CreateEntries, Execute, Goto, IsolationInv, TypeOK, WriteInv, Executed,
                Prepared
  <2> QED
    BY <1>4, <2>1, <2>2, ExecuteStep DEF CreateEntries
<1>5. ASSUME CreateAudit(h) PROVE IsolationInv'
  <2>1. {"audit", "delivery"} \subseteq Prepared /\ "audit" \in Statements
    BY DEF Prepared, Statements
  <2>2. WriteInv'
    BY <1>5 DEF CreateAudit, Execute, Goto, IsolationInv, TypeOK, WriteInv, Executed,
                Prepared
  <2> QED
    BY <1>5, <2>1, <2>2, ExecuteStep DEF CreateAudit
<1>6. ASSUME CreateDelivery(h) PROVE IsolationInv'
  <2>1. {"delivery", "complete"} \subseteq Prepared /\ "delivery" \in Statements
    BY DEF Prepared, Statements
  <2>2. CASE WebhookEnabled
    <3>1. WriteInv'
      BY <1>6, <2>2 DEF CreateDelivery, Execute, Goto, IsolationInv, TypeOK, WriteInv,
                        Executed, Prepared
    <3> QED
      BY <1>6, <2>1, <2>2, <3>1, ExecuteStep DEF CreateDelivery
  <2>3. CASE ~WebhookEnabled
    <3>1. /\ pc[h] = "delivery"
          /\ Goto(h, "complete")
          /\ UNCHANGED <<tables, sessions, req, row, before, reply, queue>>
      BY <1>6, <2>3 DEF CreateDelivery
    <3>2. WriteInv'
      BY <2>3, <3>1 DEF Goto, sessions, IsolationInv, TypeOK, WriteInv, Executed,
                        Prepared
    <3>3. staged' \in [Handlers -> SUBSET Statements]
      BY <3>1 DEF sessions, IsolationInv, TypeOK
    <3> QED
      BY <2>1, <3>1, <3>2, <3>3, PreparedStep DEF sessions
  <2> QED
    BY <2>2, <2>3
<1>7. ASSUME MarkCompleted(h) PROVE IsolationInv'
  <2>1. {"complete", "commit"} \subseteq Prepared /\ "completed" \in Statements
    BY DEF Prepared, Statements
  <2>2. WriteInv'
    BY <1>7 DEF MarkCompleted, Execute, Goto, IsolationInv, TypeOK, WriteInv, Executed,
                Prepared
  <2> QED
    BY <1>7, <2>1, <2>2, ExecuteStep DEF MarkCompleted
<1> QED
  BY <1>1, <1>2, <1>3, <1>4, <1>5, <1>6, <1>7

\* Steps that touch neither tables nor sessions.
LEMMA EnqueueStep ==
    ASSUME IsolationInv, NEW h \in Handlers, Enqueue(h)
    PROVE  IsolationInv'
<1> USE DEF IsolationInv, Enqueue, Goto, tables, sessions
<1>1. TypeOK'
  <2>1. reply[h].body.txn \in Nat
    BY DEF TypeOK, Body
  <2>2. queue' \in Seq(Nat)
    BY <2>1 DEF TypeOK
  <2> QED
    BY <2>2 DEF TypeOK, Places
<1>2. RequestInv'
  BY DEF TypeOK, RequestInv, InTx, Reserved, Locked, Prepared
<1>3. ReservationInv'
  BY DEF TypeOK, ReservationInv, Reserved, Locked, Prepared
<1>4. LockInv'
  BY DEF TypeOK, LockInv, Locked, Prepared
<1>5. CopyInv'
  BY DEF TypeOK, CopyInv, LockInv, Locked, Prepared
<1>6. WriteInv'
  BY DEF TypeOK, WriteInv, Executed, Prepared
<1> QED
  BY <1>1, <1>2, <1>3, <1>4, <1>5, <1>6

\* A response that leaves touches no session: isolation is kept.
LEMMA ReturnStep ==
    ASSUME IsolationInv, NEW h \in Handlers, Return(h)
    PROVE  IsolationInv'
<1> USE DEF IsolationInv, Return, Goto, tables, sessions
<1>1. TypeOK'
  <2>1. NoAnswer \in [status : Nat, body : Body]
    BY DEF NoAnswer, EmptyBody, Body
  <2> QED
    BY <2>1 DEF TypeOK, Places
<1>2. RequestInv'
  BY DEF TypeOK, RequestInv, InTx, Reserved, Locked, Prepared
<1>3. ReservationInv'
  BY DEF TypeOK, ReservationInv, Reserved, Locked, Prepared
<1>4. LockInv'
  BY DEF TypeOK, LockInv, Locked, Prepared
<1>5. CopyInv'
  BY DEF TypeOK, CopyInv, LockInv, Locked, Prepared
<1>6. WriteInv'
  BY DEF TypeOK, WriteInv, Executed, Prepared
<1> QED
  BY <1>1, <1>2, <1>3, <1>4, <1>5, <1>6

\* Taking an id from the webhook channel keeps isolation.
LEMMA DequeueStep ==
    ASSUME IsolationInv, Dequeue
    PROVE  IsolationInv'
<1> USE DEF IsolationInv, Dequeue, tables, sessions
<1>1. TypeOK'
  BY DEF TypeOK
<1> QED
  BY <1>1 DEF RequestInv, ReservationInv, LockInv, CopyInv, WriteInv, Executed,
              ToLock, Needed

\* After a crash no handler holds anything, so isolation holds trivially for all.
LEMMA CrashStep ==
    ASSUME IsolationInv, Crash
    PROVE  IsolationInv'
<1> USE DEF IsolationInv, Crash, tables
<1>1. TypeOK'
  <2>1. NoAnswer \in [status : Nat, body : Body] /\ NoRows \in [Wallets -> Int]
    BY DEF NoAnswer, EmptyBody, Body, NoRows
  <2>2. <<>> \in Seq(Nat)
    OBVIOUS
  <2> QED
    BY <2>1, <2>2 DEF TypeOK, Places
<1>2. RequestInv' /\ ReservationInv'
  BY HandlerAssumption
     DEF RequestInv, ReservationInv, InTx, Reserved, Locked, Prepared
<1>3. LockInv' /\ CopyInv'
  BY HandlerAssumption DEF LockInv, CopyInv, Locked, Prepared
<1>4. WriteInv'
  BY DEF WriteInv, Executed, Prepared
<1> QED
  BY <1>1, <1>2, <1>3, <1>4

\* An answer from the record in the table.
LEMMA ExistingStep ==
    ASSUME IsolationInv, NEW h \in Handlers, Existing(h)
    PROVE  IsolationInv'
<1> DEFINE record == idem[Slot(req[h])]
<1>1. pc[h] = "existing" /\ pc[h] \in InTx
  BY DEF Existing, InTx
<1>2. req[h] \in Requests /\ Slot(req[h]) \in Slots
  BY <1>1, RequestFacts DEF IsolationInv, RequestInv
<1>3. record \in IdempotencyRecord
  BY <1>1, <1>2 DEF IsolationInv, TypeOK, ReservationInv
<1>4. Replay(record, req[h]) \in [status : Nat, body : Body]
  <2>1. record.status \in Nat /\ record.body \in Body
    BY <1>3 DEF IdempotencyRecord
  <2>2. EmptyBody \in Body
    BY DEF EmptyBody, Body
  <2> QED
    BY <2>1, <2>2 DEF Replay
<1>5. reply' \in [Handlers -> [status : Nat, body : Body]]
  BY <1>4 DEF Existing, IsolationInv, TypeOK
<1> QED
  BY <1>1, <1>5, FinishStep DEF Existing

-----------------------------------------------------------------------------
(* Commit.                                                                 *)

\* What a handler that is about to commit has: both wallets locked, copies that
\* differ from the committed balances by the amount, everything staged.
LEMMA CommitFacts ==
    ASSUME IsolationInv, NEW h \in Handlers, pc[h] = "commit"
    PROVE  LET r == req[h] to == Destination(r) from == Source(r) IN
           /\ r \in Requests /\ Slot(r) \in Slots
           /\ r.amount \in Int /\ r.amount > 0 /\ r.amount <= MaxInt /\ r.key # EmptyKey
           /\ to \in Wallets /\ to # from /\ lock[to] = h
           /\ before[h][to] = balance[to]
           /\ row[h][to] = balance[to] + r.amount
           /\ balance[to] + r.amount <= MaxInt
           /\ from # None =>
                /\ from \in Wallets /\ lock[from] = h
                /\ before[h][from] = balance[from]
                /\ r.amount <= balance[from]
                /\ row[h][from] = balance[from] - r.amount
           /\ from = None <=> r.op = "TOP_UP"
           /\ idem[Slot(r)] = None
           /\ {"transaction", "destination", "entries", "audit", "completed"}
                \subseteq staged[h]
           /\ "source" \in staged[h] <=> from # None
           /\ "delivery" \in staged[h] <=> WebhookEnabled
<1> DEFINE r == req[h]
           to == Destination(r)
           from == Source(r)
<1>1. pc[h] \in Prepared /\ pc[h] \in Locked /\ pc[h] \in Reserved /\ pc[h] \in InTx
  BY DEF Prepared, Locked, Reserved, InTx
<1>2. r \in Requests /\ Valid(r) /\ to \in Wallets /\ to # from
  BY <1>1 DEF IsolationInv, RequestInv
<1>3. /\ Slot(r) \in Slots /\ r.amount \in Int /\ r.amount <= MaxInt
      /\ r.op \in {"TOP_UP", "TRANSFER"}
  BY <1>2, RequestFacts
<1>4. /\ to \in Needed(r)
      /\ from # None => from \in Needed(r) /\ from \in Wallets
      /\ from = None <=> r.op = "TOP_UP"
  BY <1>2, NeededFacts
<1>5. lock[to] = h /\ (from # None => lock[from] = h)
  BY <1>1, <1>2, <1>4 DEF IsolationInv, LockInv
<1>6. /\ before[h][to] = balance[to]
      /\ row[h][to] = Int64(balance[to] + r.amount)
  BY <1>1, <1>2, <1>5 DEF IsolationInv, CopyInv
<1>7. from # None => /\ before[h][from] = balance[from]
                     /\ r.amount <= balance[from]
                     /\ row[h][from] = balance[from] - r.amount
  BY <1>1, <1>4, <1>5 DEF IsolationInv, CopyInv
<1>8. row[h][to] >= 0
  BY DEF IsolationInv, WriteInv
<1>9. row[h][to] = balance[to] + r.amount /\ balance[to] + r.amount <= MaxInt
  <2>1. balance[to] \in Nat /\ balance[to] <= MaxInt /\ r.amount > 0
    BY <1>2, MaxIntAssumption DEF IsolationInv, TypeOK, Valid
  <2>2. balance[to] + r.amount \in Int /\ balance[to] + r.amount \in 0 .. 2 * MaxInt
    BY <1>3, <2>1, MaxIntAssumption
  <2> QED
    BY <1>6, <1>8, <2>2, Int64Facts
<1>10. idem[Slot(r)] = None
  BY <1>1 DEF IsolationInv, ReservationInv
<1>11. /\ {"transaction", "destination", "entries", "audit", "completed"}
            \subseteq staged[h]
       /\ "source" \in staged[h] <=> r.op = "TRANSFER"
       /\ "delivery" \in staged[h] <=> WebhookEnabled
  BY HandlerAssumption DEF IsolationInv, WriteInv, Executed, Prepared
<1> QED
  BY <1>2, <1>3, <1>4, <1>5, <1>6, <1>7, <1>9, <1>10, <1>11 DEF Valid

\* The tables after a commit, row by row.
LEMMA PublishEffect ==
    ASSUME IsolationInv, NEW h \in Handlers, pc[h] = "commit", Publish(h)
    PROVE  LET r == req[h] to == Destination(r) from == Source(r) IN
           /\ balance' = [w \in Wallets |->
                IF w = to THEN balance[w] + r.amount
                ELSE IF w = from THEN balance[w] - r.amount ELSE balance[w]]
           /\ ledger' = [w \in Wallets |->
                IF w = to THEN Append(ledger[w], CreditEntry(h, NextId))
                ELSE IF w = from THEN Append(ledger[w], DebitEntry(h, NextId))
                ELSE ledger[w]]
           /\ transactions' = Append(transactions, TransactionRow(r))
           /\ audits' = Append(audits, AuditRow(r, NextId))
           /\ deliveries' = IF WebhookEnabled THEN Append(deliveries, NextId)
                            ELSE deliveries
           /\ idem' = [idem EXCEPT ![Slot(r)] =
                [hash |-> HashPayload(r), status |-> 200,
                 body |-> ResponseBody(h, NextId)]]
<1> DEFINE r == req[h]
           to == Destination(r)
           from == Source(r)
<1>0. /\ to \in Wallets /\ to # from
      /\ row[h][to] = balance[to] + r.amount
      /\ from # None => from \in Wallets /\ row[h][from] = balance[from] - r.amount
      /\ {"transaction", "destination", "entries", "audit", "completed"}
           \subseteq staged[h]
      /\ "source" \in staged[h] <=> from # None
      /\ "delivery" \in staged[h] <=> WebhookEnabled
  BY CommitFacts
<1>1. balance' = [w \in Wallets |->
         IF w = to THEN balance[w] + r.amount
         ELSE IF w = from THEN balance[w] - r.amount ELSE balance[w]]
  BY <1>0, NoneAssumption DEF Publish, PublishBalances
<1>2. ledger' = [w \in Wallets |->
         IF w = to THEN Append(ledger[w], CreditEntry(h, NextId))
         ELSE IF w = from THEN Append(ledger[w], DebitEntry(h, NextId))
         ELSE ledger[w]]
  BY <1>0, NoneAssumption DEF Publish, PublishEntries
<1>3. /\ transactions' = Append(transactions, TransactionRow(r))
      /\ audits' = Append(audits, AuditRow(r, NextId))
      /\ deliveries' = IF WebhookEnabled THEN Append(deliveries, NextId) ELSE deliveries
  BY <1>0 DEF Publish, PublishRecords
<1>4. idem' = [idem EXCEPT ![Slot(r)] =
         [hash |-> HashPayload(r), status |-> 200, body |-> ResponseBody(h, NextId)]]
  BY <1>0 DEF Publish, PublishReservation
<1> QED
  BY <1>1, <1>2, <1>3, <1>4

\* The ledger entries a commit writes.
LEMMA CommitEntryTypes ==
    ASSUME IsolationInv, NEW h \in Handlers, pc[h] = "commit"
    PROVE  /\ NextId \in Nat
           /\ CreditEntry(h, NextId) \in LedgerEntry
           /\ Source(req[h]) \in Wallets => DebitEntry(h, NextId) \in LedgerEntry
<1>1. req[h] \in Requests /\ Destination(req[h]) \in Wallets
  BY CommitFacts
<1>2. req[h].amount \in Amounts
  BY <1>1, RequestFacts
<1>3. NextId \in Nat
  BY DEF IsolationInv, TypeOK, NextId
<1>4. before \in [Handlers -> [Wallets -> Int]] /\ row \in [Handlers -> [Wallets -> Int]]
  BY DEF IsolationInv, TypeOK
<1> QED
  BY <1>1, <1>2, <1>3, <1>4 DEF CreditEntry, DebitEntry, LedgerEntry

\* The rows a commit writes have the types of their tables.
LEMMA PublishTypes ==
    ASSUME IsolationInv, NEW h \in Handlers, pc[h] = "commit", Publish(h)
    PROVE  /\ balance' \in [Wallets -> 0 .. MaxInt]
           /\ ledger' \in [Wallets -> Seq(LedgerEntry)]
           /\ transactions' \in Seq(Transaction)
           /\ audits' \in Seq(AuditLog)
           /\ deliveries' \in Seq(Nat)
           /\ idem' \in [Slots -> IdempotencyRecord \cup {None}]
           /\ ResponseBody(h, NextId) \in Body
<1> DEFINE r == req[h]
           to == Destination(r)
           from == Source(r)
<1>0. TypeOK
  BY DEF IsolationInv
<1>a. balance' = [w \in Wallets |->
         IF w = to THEN balance[w] + r.amount
         ELSE IF w = from THEN balance[w] - r.amount ELSE balance[w]]
  BY PublishEffect
<1>b. ledger' = [w \in Wallets |->
         IF w = to THEN Append(ledger[w], CreditEntry(h, NextId))
         ELSE IF w = from THEN Append(ledger[w], DebitEntry(h, NextId))
         ELSE ledger[w]]
  BY PublishEffect
<1>c. /\ transactions' = Append(transactions, TransactionRow(r))
      /\ audits' = Append(audits, AuditRow(r, NextId))
      /\ deliveries' = IF WebhookEnabled THEN Append(deliveries, NextId) ELSE deliveries
  BY PublishEffect
<1>1. /\ r \in Requests /\ Slot(r) \in Slots
      /\ r.amount \in Int /\ r.amount > 0
      /\ to \in Wallets /\ to # from
      /\ balance[to] + r.amount <= MaxInt
      /\ from # None => from \in Wallets /\ r.amount <= balance[from]
      /\ from = None <=> r.op = "TOP_UP"
  BY CommitFacts
<1>2. /\ r.op \in {"TOP_UP", "TRANSFER"} /\ r.user \in Users /\ r.key \in Keys
      /\ r.amount \in Amounts /\ HashPayload(r) \in Hashes
  BY <1>1, RequestFacts
<1>3. NextId \in Nat
  BY <1>0 DEF TypeOK, NextId
<1>4. balance' \in [Wallets -> 0 .. MaxInt]
  <2>1. \A w \in Wallets : balance[w] \in Int /\ 0 <= balance[w] /\ balance[w] <= MaxInt
    BY <1>0, MaxIntAssumption DEF TypeOK
  <2>2. \A w \in Wallets : balance'[w] \in 0 .. MaxInt
    BY <1>1, <1>a, <2>1, MaxIntAssumption, NoneAssumption
  <2> QED
    BY <1>a, <2>2
<1>5. row \in [Handlers -> [Wallets -> Int]]
  BY <1>0 DEF TypeOK
<1>6. /\ CreditEntry(h, NextId) \in LedgerEntry
      /\ from \in Wallets => DebitEntry(h, NextId) \in LedgerEntry
  BY CommitEntryTypes
<1>8. ledger' \in [Wallets -> Seq(LedgerEntry)]
  <2>1. ledger \in [Wallets -> Seq(LedgerEntry)]
    BY <1>0 DEF TypeOK
  <2>2. \A w \in Wallets :
          /\ w = to => Append(ledger[w], CreditEntry(h, NextId)) \in Seq(LedgerEntry)
          /\ w = from => Append(ledger[w], DebitEntry(h, NextId)) \in Seq(LedgerEntry)
    BY <1>6, <2>1
  <2> QED
    BY <1>b, <2>1, <2>2
<1>9. transactions' \in Seq(Transaction)
  <2>1. TransactionRow(r) \in Transaction
    BY <1>1, <1>2 DEF TransactionRow, Transaction
  <2> QED
    BY <1>0, <1>c, <2>1 DEF TypeOK
<1>10. audits' \in Seq(AuditLog)
  <2>1. AuditRow(r, NextId) \in AuditLog
    BY <1>2, <1>3 DEF AuditRow, AuditLog
  <2> QED
    BY <1>0, <1>c, <2>1 DEF TypeOK
<1>11. deliveries' \in Seq(Nat)
  BY <1>0, <1>3, <1>c DEF TypeOK
<1>12. ResponseBody(h, NextId) \in Body
  <2>1. r.op = "TOP_UP" => <<row[h][to]>> \in Seq(Int)
    BY <1>1, <1>5
  <2>2. r.op = "TRANSFER" => <<row[h][from], row[h][to]>> \in Seq(Int)
    BY <1>1, <1>5
  <2> QED
    BY <1>2, <1>3, <2>1, <2>2 DEF ResponseBody, Body
<1>13. idem' \in [Slots -> IdempotencyRecord \cup {None}]
  <2>1. [hash |-> HashPayload(r), status |-> 200, body |-> ResponseBody(h, NextId)]
          \in IdempotencyRecord
    BY <1>2, <1>12 DEF IdempotencyRecord
  <2> QED
    BY <1>0, <1>1, <2>1, PublishEffect DEF TypeOK
<1> QED
  BY <1>4, <1>8, <1>9, <1>10, <1>11, <1>12, <1>13

\* A commit keeps everyone else's isolation: it changes only wallets and the
\* slot that the committing handler owned.
LEMMA CommitStep ==
    ASSUME IsolationInv, NEW h \in Handlers, pc[h] = "commit", Publish(h),
           EndTransaction(h), NEW next \in {"enqueue", "answered"}, Goto(h, next),
           reply' \in [Handlers -> [status : Nat, body : Body]],
           UNCHANGED <<req, queue>>
    PROVE  IsolationInv'
<1> DEFINE r == req[h]
           to == Destination(r)
           from == Source(r)
<1>0. TypeOK /\ RequestInv /\ ReservationInv /\ LockInv /\ CopyInv /\ WriteInv
  BY DEF IsolationInv
<1>a. /\ lock[to] = h
      /\ from # None => lock[from] = h
      /\ r \in Requests /\ Slot(r) \in Slots
  BY CommitFacts
<1>b. \A w \in Wallets : lock[w] # h => balance'[w] = balance[w]
  <2>1. balance' = [w \in Wallets |->
          IF w = to THEN balance[w] + r.amount
          ELSE IF w = from THEN balance[w] - r.amount ELSE balance[w]]
    BY PublishEffect
  <2> QED
    BY <1>a, <2>1, NoneAssumption
<1>c. /\ \A s \in Slots : s # Slot(r) => idem'[s] = idem[s]
      /\ \A s \in Slots : idem[s] # None => idem'[s] # None
  <2> DEFINE record == [hash |-> HashPayload(r), status |-> 200,
                        body |-> ResponseBody(h, NextId)]
  <2>1. idem' = [idem EXCEPT ![Slot(r)] = record]
    BY PublishEffect
  <2>2. idem[Slot(r)] = None
    BY CommitFacts
  <2> HIDE DEF record
  <2> QED
    BY <1>0, <2>1, <2>2 DEF TypeOK
<1>d. /\ pc' = [pc EXCEPT ![h] = next]
      /\ lock' = [w \in Wallets |-> IF lock[w] = h THEN None ELSE lock[w]]
      /\ owner' = [s \in Slots |-> IF owner[s] = h THEN None ELSE owner[s]]
      /\ staged' = [staged EXCEPT ![h] = {}]
      /\ row' = [row EXCEPT ![h] = NoRows]
      /\ before' = [before EXCEPT ![h] = NoRows]
      /\ req' = req /\ queue' = queue
  BY DEF EndTransaction, Goto
<1>e. \A g \in Handlers : g # h =>
        /\ pc'[g] = pc[g] /\ row'[g] = row[g] /\ before'[g] = before[g]
        /\ staged'[g] = staged[g]
  BY <1>0, <1>d DEF TypeOK
<1>f. pc'[h] = next /\ staged'[h] = {}
  BY <1>0, <1>d DEF TypeOK
<1>1. TypeOK'
  <2>1. NoRows \in [Wallets -> Int]
    BY DEF NoRows
  <2>2. /\ lock' \in [Wallets -> Handlers \cup {None}]
        /\ owner' \in [Slots -> Handlers \cup {None}]
    BY <1>0, <1>d DEF TypeOK
  <2>3. /\ pc' \in [Handlers -> Places]
        /\ staged' \in [Handlers -> SUBSET Statements]
        /\ row' \in [Handlers -> [Wallets -> Int]]
        /\ before' \in [Handlers -> [Wallets -> Int]]
    BY <1>0, <1>d, <2>1 DEF TypeOK, Places
  <2>4. req' \in [Handlers -> Requests \cup {None}] /\ queue' \in Seq(Nat)
    BY <1>0, <1>d DEF TypeOK
  <2> QED
    BY <2>2, <2>3, <2>4, PublishTypes DEF TypeOK
<1>2. RequestInv'
  BY <1>0, <1>d, <1>e, <1>f DEF RequestInv, InTx, Reserved, Locked, Prepared
<1>3. ReservationInv'
  <2> SUFFICES ASSUME NEW g \in Handlers
               PROVE  /\ \A s \in Slots :
                           owner'[s] = g <=> pc'[g] \in Reserved /\ s = Slot(req'[g])
                      /\ pc'[g] \in Reserved => idem'[Slot(req'[g])] = None
                      /\ pc'[g] = "existing" => idem'[Slot(req'[g])] # None
    BY DEF ReservationInv
  <2>1. CASE g = h
    BY <2>1, <1>d, <1>f, HandlerAssumption DEF Reserved, Locked, Prepared
  <2>2. CASE g # h
    <3>1. pc[g] # "idle" => Slot(req[g]) \in Slots
      BY <1>0, RequestFacts DEF RequestInv
    <3>2. \A s \in Slots : owner'[s] = g <=> owner[s] = g
      BY <2>2, <1>d, HandlerAssumption
    <3>3. owner[Slot(r)] = h
      BY <1>0, <1>a DEF ReservationInv, Reserved, Locked, Prepared
    <3>4. pc[g] \in Reserved => Slot(req[g]) \in Slots /\ Slot(req[g]) # Slot(r)
      BY <1>0, <2>2, <3>1, <3>3 DEF ReservationInv, Reserved, Locked, Prepared
    <3> QED
      BY <1>0, <1>c, <1>d, <1>e, <2>2, <3>1, <3>2, <3>4 DEF ReservationInv
  <2> QED
    BY <2>1, <2>2
<1>4. LockInv'
  BY <1>0, <1>d, <1>e, <1>f, HandlerAssumption DEF LockInv, Locked, Prepared
<1>5. CopyInv'
  BY <1>0, <1>b, <1>d, <1>e, HandlerAssumption DEF CopyInv
<1>6. WriteInv'
  BY <1>0, <1>d, <1>e, <1>f DEF WriteInv, Executed, Prepared
<1> QED
  BY <1>1, <1>2, <1>3, <1>4, <1>5, <1>6 DEF IsolationInv

-----------------------------------------------------------------------------
(* The invariant.                                                          *)

\* Isolation holds of the empty database with idle handlers.
LEMMA InitIsolation == Init => IsolationInv
<1> SUFFICES ASSUME Init PROVE IsolationInv
  OBVIOUS
<1> USE DEF Init
<1>1. TypeOK
  <2>1. NoAnswer \in [status : Nat, body : Body]
    BY DEF NoAnswer, EmptyBody, Body
  <2>2. NoRows \in [Wallets -> Int] /\ NoRows \in [Wallets -> 0 .. MaxInt]
    BY MaxIntAssumption DEF NoRows
  <2>3. /\ <<>> \in Seq(Nat) /\ <<>> \in Seq(AuditLog)
        /\ <<>> \in Seq(Transaction) /\ <<>> \in Seq(LedgerEntry)
    OBVIOUS
  <2> QED
    BY <2>1, <2>2, <2>3 DEF TypeOK, Places
<1>2. RequestInv /\ ReservationInv /\ LockInv /\ CopyInv
  BY HandlerAssumption
     DEF RequestInv, ReservationInv, LockInv, CopyInv, InTx, Reserved, Locked, Prepared
<1>3. WriteInv
  BY DEF WriteInv, Executed, Prepared
<1> QED
  BY <1>1, <1>2, <1>3 DEF IsolationInv

\* Both outcomes of COMMIT are the same publication followed by an answer.
LEMMA CommitKinds ==
    ASSUME IsolationInv, NEW h \in Handlers, Commit(h) \/ CommitUnacknowledged(h)
    PROVE  IsolationInv'
<1>1. pc[h] = "commit" /\ Publish(h) /\ EndTransaction(h) /\ UNCHANGED <<req, queue>>
  BY DEF Commit, CommitUnacknowledged
<1>2. reply' \in [Handlers -> [status : Nat, body : Body]]
  <2>1. ResponseBody(h, NextId) \in Body
    BY <1>1, PublishTypes
  <2>2. EmptyBody \in Body
    BY DEF EmptyBody, Body
  <2>3. \/ reply' = [reply EXCEPT ![h] =
                        [status |-> 200, body |-> ResponseBody(h, NextId)]]
        \/ reply' = [reply EXCEPT ![h] = [status |-> 500, body |-> EmptyBody]]
    BY DEF Commit, CommitUnacknowledged, Answer
  <2>4. /\ [status |-> 200, body |-> ResponseBody(h, NextId)]
              \in [status : Nat, body : Body]
        /\ [status |-> 500, body |-> EmptyBody] \in [status : Nat, body : Body]
    BY <2>1, <2>2
  <2>5. reply \in [Handlers -> [status : Nat, body : Body]]
    BY DEF IsolationInv, TypeOK
  <2> QED
    BY <2>3, <2>4, <2>5
<1>3. \E next \in {"enqueue", "answered"} : Goto(h, next)
  BY DEF Commit, CommitUnacknowledged
<1> QED
  BY <1>1, <1>2, <1>3, CommitStep

\* A step of either closure.
LEMMA StepsIsolation ==
    ASSUME IsolationInv, NEW h \in Handlers, pc[h] # "idle", Steps(h)
    PROVE  IsolationInv'
  BY ReserveStep, ExistingStep, LockStep, WriteSteps, CommitKinds, EnqueueStep DEF Steps

\* Every step of TopUp keeps isolation, action by action.
LEMMA TopUpIsolation ==
    ASSUME IsolationInv, NEW h \in Handlers, TopUp(h)
    PROVE  IsolationInv'
<1>1. pc[h] # "idle" /\ req[h].op = "TOP_UP"
  BY DEF TopUp
<1>2. CASE TopUpLookup(h)
  <2>1. req[h] \in Requests
    BY <1>1 DEF IsolationInv, RequestInv
  <2>2. Destination(req[h]) # Source(req[h])
    BY <1>1, <2>1, RequestFacts, NoneAssumption
  <2> QED
    BY <1>2, <2>2, LookupStep DEF TopUpLookup
<1> QED
  BY <1>1, <1>2, StepsIsolation, TopUpCheckStep DEF TopUp

\* Every step of Transfer keeps isolation, action by action.
LEMMA TransferIsolation ==
    ASSUME IsolationInv, NEW h \in Handlers, Transfer(h)
    PROVE  IsolationInv'
<1>1. pc[h] # "idle" /\ req[h].op = "TRANSFER"
  BY DEF Transfer
<1>2. CASE TransferLookup(h)
  <2>1. req[h] \in Requests
    BY <1>1 DEF IsolationInv, RequestInv
  <2>2. CASE req[h].to = WalletOf[req[h].user]
    BY <1>2, <2>2, RollbackStep DEF TransferLookup, InTx, Reserved
  <2>3. CASE req[h].to # WalletOf[req[h].user]
    <3>1. Destination(req[h]) # Source(req[h])
      BY <1>1, <2>1, <2>3, RequestFacts
    <3> QED
      BY <1>2, <2>3, <3>1, LookupStep DEF TransferLookup
  <2> QED
    BY <2>2, <2>3
<1> QED
  BY <1>1, <1>2, StepsIsolation, TransferCheckStep, WriteSteps DEF Transfer

\* Isolation is inductive: every step of the system, and every stutter, keeps it.
LEMMA NextIsolation == IsolationInv /\ [Next]_vars => IsolationInv'
<1> SUFFICES ASSUME IsolationInv, [Next]_vars PROVE IsolationInv'
  OBVIOUS
<1>1. CASE UNCHANGED vars
  BY <1>1 DEF vars, tables, sessions, process, IsolationInv, TypeOK, RequestInv,
              ReservationInv, LockInv, CopyInv, WriteInv, Executed
<1>2. ASSUME NEW h \in Handlers, ReceiveTopUp(h) \/ ReceiveTransfer(h)
      PROVE  IsolationInv'
  BY <1>2, ReceiveStep DEF ReceiveTopUp, ReceiveTransfer, Requests
<1>3. ASSUME NEW h \in Handlers, Fail(h) PROVE IsolationInv'
  BY <1>3, RollbackStep DEF Fail
<1> QED
  BY <1>1, <1>2, <1>3, TopUpIsolation, TransferIsolation, CommitKinds, ReturnStep,
     DequeueStep, CrashStep DEF Next

\* Keys, locks, copies and staged statements always agree with where each
\* handler is, whatever the interleaving, failures and crashes; in particular
\* every balance stays within 0 .. MaxInt.
THEOREM Isolation == Spec => []IsolationInv
  BY InitIsolation, NextIsolation, PTL DEF Spec

\* The type invariant of the specification.
THEOREM TypeCorrect == Spec => []TypeOK
<1>1. IsolationInv => TypeOK
  BY DEF IsolationInv
<1> QED
  BY <1>1, Isolation, PTL

-----------------------------------------------------------------------------
(* The tables.                                                             *)

\* Tables change only when a handler commits.
LEMMA TableStep ==
    ASSUME [Next]_vars
    PROVE  \/ UNCHANGED tables
           \/ \E h \in Handlers : pc[h] = "commit" /\ Publish(h)
<1>1. CASE UNCHANGED vars
  BY <1>1 DEF vars
<1>2. ASSUME NEW h \in Handlers, Steps(h)
      PROVE  UNCHANGED tables \/ (pc[h] = "commit" /\ Publish(h))
  BY <1>2 DEF Steps, Reserve, Existing, LockWallet, CreateTransaction,
       UpdateDestination, CreateEntries, CreateAudit, CreateDelivery, MarkCompleted,
       Execute, Rollback, Commit, Enqueue
<1>3. ASSUME NEW h \in Handlers, TopUp(h)
      PROVE  UNCHANGED tables \/ (pc[h] = "commit" /\ Publish(h))
  BY <1>2, <1>3 DEF TopUp, TopUpLookup, TopUpCheck
<1>4. ASSUME NEW h \in Handlers, Transfer(h)
      PROVE  UNCHANGED tables \/ (pc[h] = "commit" /\ Publish(h))
  BY <1>2, <1>4 DEF Transfer, TransferLookup, TransferCheck, UpdateSource, Execute,
       Rollback
<1>5. ASSUME NEW h \in Handlers,
             \/ ReceiveTopUp(h) \/ ReceiveTransfer(h) \/ Fail(h) \/ Return(h)
      PROVE  UNCHANGED tables
  BY <1>5 DEF ReceiveTopUp, ReceiveTransfer, Receive, Fail, Rollback, Return
<1>6. ASSUME NEW h \in Handlers, CommitUnacknowledged(h)
      PROVE  pc[h] = "commit" /\ Publish(h)
  BY <1>6 DEF CommitUnacknowledged
<1>7. CASE Dequeue \/ Crash
  BY <1>7 DEF Dequeue, Crash
<1> QED
  BY <1>1, <1>3, <1>4, <1>5, <1>6, <1>7 DEF Next

-----------------------------------------------------------------------------
(* The ledger explains the balances.                                       *)

\* A chain grows by an entry that starts at its end.
LEMMA ChainAppend ==
    ASSUME NEW log \in Seq(LedgerEntry), NEW b \in Int, Chain(log, b),
           NEW e \in LedgerEntry, e.before = b,
           e.after = IF e.type = "CREDIT" THEN e.before + e.amount
                     ELSE e.before - e.amount
    PROVE  Chain(Append(log, e), e.after)
<1> DEFINE new == Append(log, e)
<1>1. /\ new \in Seq(LedgerEntry) /\ Len(new) = Len(log) + 1
      /\ DOMAIN new = 1 .. Len(log) + 1 /\ DOMAIN log = 1 .. Len(log)
      /\ Len(log) \in Nat
      /\ new[Len(log) + 1] = e
      /\ \A i \in 1 .. Len(log) : new[i] = log[i]
  OBVIOUS
<1>2. new # <<>> /\ new[Len(new)].after = e.after
  BY <1>1
<1>3. ASSUME NEW i \in DOMAIN new
      PROVE  /\ new[i].before = IF i = 1 THEN 0 ELSE new[i - 1].after
             /\ new[i].after = IF new[i].type = "CREDIT"
                               THEN new[i].before + new[i].amount
                               ELSE new[i].before - new[i].amount
  <2> HIDE DEF new
  <2>1. CASE i \in 1 .. Len(log)
    <3>1. i # 1 => i - 1 \in 1 .. Len(log)
      BY <2>1, <1>1
    <3> QED
      BY <1>1, <2>1, <3>1 DEF Chain
  <2>2. CASE i = Len(log) + 1
    <3>1. CASE log = <<>>
      BY <1>1, <2>2, <3>1 DEF Chain
    <3>2. CASE log # <<>>
      <4>1. Len(log) \in 1 .. Len(log) /\ i # 1 /\ i - 1 = Len(log)
        BY <1>1, <2>2, <3>2
      <4> QED
        BY <1>1, <2>2, <3>2, <4>1 DEF Chain
    <3> QED
      BY <3>1, <3>2
  <2> QED
    BY <1>1, <2>1, <2>2
<1>4. Chain(new, e.after)
  <2> HIDE DEF new
  <2> QED
    BY <1>2, <1>3 DEF Chain
<1> QED
  BY <1>4

\* A step keeps every ledger a chain from zero to its balance: only a commit changes
\* either, and under isolation it appends an entry that starts at the balance.
LEMMA LedgerStep ==
    ASSUME IsolationInv, LedgerExplainsBalance, [Next]_vars
    PROVE  LedgerExplainsBalance'
<1>1. CASE UNCHANGED tables
  BY <1>1 DEF tables, LedgerExplainsBalance
<1>2. ASSUME NEW h \in Handlers, pc[h] = "commit", Publish(h)
      PROVE  LedgerExplainsBalance'
  <2> DEFINE r == req[h]
             to == Destination(r)
             from == Source(r)
  <2>0. /\ ledger \in [Wallets -> Seq(LedgerEntry)]
        /\ balance \in [Wallets -> 0 .. MaxInt]
        /\ ledger' \in [Wallets -> Seq(LedgerEntry)]
    BY <1>2, PublishTypes DEF IsolationInv, TypeOK
  <2>1. balance' = [w \in Wallets |->
          IF w = to THEN balance[w] + r.amount
          ELSE IF w = from THEN balance[w] - r.amount ELSE balance[w]]
    BY <1>2, PublishEffect
  <2>2. ledger' = [w \in Wallets |->
          IF w = to THEN Append(ledger[w], CreditEntry(h, NextId))
          ELSE IF w = from THEN Append(ledger[w], DebitEntry(h, NextId))
          ELSE ledger[w]]
    BY <1>2, PublishEffect
  <2>3. /\ to \in Wallets /\ to # from
        /\ before[h][to] = balance[to] /\ row[h][to] = balance[to] + r.amount
        /\ from # None => /\ from \in Wallets
                          /\ before[h][from] = balance[from]
                          /\ row[h][from] = balance[from] - r.amount
    BY <1>2, CommitFacts
  <2>4. CreditEntry(h, NextId) \in LedgerEntry
    BY <1>2, CommitEntryTypes
  <2>5. from \in Wallets => DebitEntry(h, NextId) \in LedgerEntry
    BY <1>2, CommitEntryTypes
  <2>6. ASSUME NEW w \in Wallets PROVE Chain(ledger'[w], balance'[w])
    <3>0. Chain(ledger[w], balance[w]) /\ ledger[w] \in Seq(LedgerEntry)
          /\ balance[w] \in Int
      BY <2>0, MaxIntAssumption DEF LedgerExplainsBalance
    <3>1. CASE w = to
      <4> DEFINE e == CreditEntry(h, NextId)
      <4>1. /\ e.type = "CREDIT" /\ e.amount = r.amount
            /\ e.before = balance[w] /\ e.after = balance[w] + r.amount
        BY <2>3, <3>1 DEF CreditEntry
      <4>2. ledger'[w] = Append(ledger[w], e) /\ balance'[w] = e.after
        BY <2>1, <2>2, <3>1, <4>1
      <4> HIDE DEF e
      <4> QED
        BY <2>4, <3>0, <4>1, <4>2, ChainAppend DEF e
    <3>2. CASE w = from
      <4> DEFINE e == DebitEntry(h, NextId)
      <4>0. from # None
        BY <3>2, NoneAssumption
      <4>1. /\ e.type = "DEBIT" /\ e.amount = r.amount
            /\ e.before = balance[w] /\ e.after = balance[w] - r.amount
        BY <2>3, <3>2, <4>0 DEF DebitEntry
      <4>2. ledger'[w] = Append(ledger[w], e) /\ balance'[w] = e.after
        BY <2>1, <2>2, <2>3, <3>2, <4>1
      <4>3. e \in LedgerEntry
        BY <2>5, <3>2
      <4> HIDE DEF e
      <4> QED
        BY <3>0, <4>1, <4>2, <4>3, ChainAppend
    <3>3. CASE w # to /\ w # from
      BY <2>1, <2>2, <3>0, <3>3
    <3> QED
      BY <3>1, <3>2, <3>3
  <2> QED
    BY <2>6 DEF LedgerExplainsBalance
<1> QED
  BY <1>1, <1>2, TableStep

\* In every reachable state the ledger of every wallet is an unbroken chain from
\* zero to the wallet's balance.
THEOREM LedgerCorrect == Spec => []LedgerExplainsBalance
<1>1. Init => LedgerExplainsBalance
  BY DEF Init, NoRows, LedgerExplainsBalance, Chain
<1> QED
  BY <1>1, Isolation, LedgerStep, PTL DEF Spec

-----------------------------------------------------------------------------
(* Idempotency.                                                            *)

\* A step keeps slots and transactions in correspondence: only a commit adds either,
\* and its slot was unspent.
LEMMA OncePerKeyStep ==
    ASSUME IsolationInv, OncePerKey, [Next]_vars
    PROVE  OncePerKey'
<1>1. CASE UNCHANGED tables
  BY <1>1 DEF tables, OncePerKey
<1>2. ASSUME NEW h \in Handlers, pc[h] = "commit", Publish(h)
      PROVE  OncePerKey'
  <2> DEFINE r == req[h]
             new == TransactionRow(r)
             n == Len(transactions)
             record == [hash |-> HashPayload(r), status |-> 200,
                        body |-> ResponseBody(h, NextId)]
  <2>1. r \in Requests /\ Slot(r) \in Slots /\ idem[Slot(r)] = None
    BY <1>2, CommitFacts
  <2>2. /\ transactions \in Seq(Transaction)
        /\ idem \in [Slots -> IdempotencyRecord \cup {None}]
    BY DEF IsolationInv, TypeOK
  <2>3. idem' = [idem EXCEPT ![Slot(r)] = record]
    BY <1>2, PublishEffect
  <2>4. transactions' = Append(transactions, new)
    BY <1>2, PublishEffect
  <2>5. /\ n \in Nat
        /\ DOMAIN transactions = 1 .. n /\ DOMAIN transactions' = 1 .. n + 1
        /\ transactions'[n + 1] = new
        /\ \A i \in 1 .. n : transactions'[i] = transactions[i]
    BY <2>2, <2>4
  <2>6. /\ TransactionSlot(new) = Slot(r)
        /\ record.status = 200 /\ record.body.txn = n + 1
        /\ record.hash = <<IF new.type = "TOP_UP" THEN None ELSE new.destination,
                           new.amount>>
    BY <2>1, RequestFacts
       DEF TransactionRow, TransactionSlot, Slot, ResponseBody, NextId, HashPayload
  <2>7. record # None
    <3>1. record \in IdempotencyRecord
      BY <1>2, <2>1, RequestFacts, PublishTypes DEF IdempotencyRecord
    <3> QED
      BY <3>1, NoneAssumption
  <2> HIDE DEF record, new, n
  <2>8. ASSUME NEW s \in Slots, idem'[s] # None
        PROVE  /\ idem'[s].status = 200
               /\ idem'[s].body.txn \in DOMAIN transactions'
               /\ LET t == transactions'[idem'[s].body.txn] IN
                    /\ TransactionSlot(t) = s
                    /\ idem'[s].hash = <<IF t.type = "TOP_UP" THEN None
                                         ELSE t.destination, t.amount>>
    <3>1. CASE s = Slot(r)
      BY <2>1, <2>2, <2>3, <2>5, <2>6, <3>1
    <3>2. CASE s # Slot(r)
      <4>1. idem'[s] = idem[s]
        BY <2>1, <2>2, <2>3, <3>2
      <4>2. idem[s].body.txn \in 1 .. n
        BY <2>5, <2>8, <4>1 DEF OncePerKey
      <4>3. /\ idem[s].body.txn \in DOMAIN transactions'
            /\ transactions'[idem[s].body.txn] = transactions[idem[s].body.txn]
        BY <2>5, <4>2
      <4> QED
        BY <2>8, <4>1, <4>3 DEF OncePerKey
    <3> QED
      BY <3>1, <3>2
  <2>9. ASSUME NEW i \in DOMAIN transactions'
        PROVE  LET s == TransactionSlot(transactions'[i]) IN
               idem'[s] # None /\ idem'[s].body.txn = i
    <3>1. CASE i = n + 1
      BY <2>1, <2>2, <2>3, <2>5, <2>6, <2>7, <3>1
    <3>2. CASE i \in 1 .. n
      <4> DEFINE s == TransactionSlot(transactions[i])
      <4>1. idem[s] # None /\ idem[s].body.txn = i
        BY <2>5, <3>2 DEF OncePerKey
      <4>2. s \in Slots
        <5>1. transactions[i] \in Transaction
          BY <2>2, <2>5, <3>2
        <5> QED
          BY <5>1 DEF TransactionSlot, Transaction, Slots
      <4>3. idem'[s] = idem[s]
        BY <2>1, <2>2, <2>3, <4>1, <4>2
      <4> QED
        BY <2>5, <3>2, <4>1, <4>3
    <3> QED
      BY <2>5, <3>1, <3>2
  <2> QED
    BY <2>8, <2>9 DEF OncePerKey
<1> QED
  BY <1>1, <1>2, TableStep

\* However often a request is sent, concurrently or after failures and crashes,
\* its idempotency slot is spent on at most one transaction, which the record of
\* the slot names.
THEOREM Idempotent == Spec => []OncePerKey
<1>1. Init => OncePerKey
  BY DEF Init, OncePerKey
<1> QED
  BY <1>1, Isolation, OncePerKeyStep, PTL DEF Spec

-----------------------------------------------------------------------------
(* History.                                                                *)

\* A step only appends to the tables and never rewrites an idempotency record.
LEMMA HistoryIsStep ==
    ASSUME IsolationInv, [Next]_vars
    PROVE  HistoryStep
<1>1. CASE UNCHANGED tables
  BY <1>1 DEF tables, HistoryStep
<1>2. ASSUME NEW h \in Handlers, pc[h] = "commit", Publish(h)
      PROVE  HistoryStep
  <2> DEFINE r == req[h]
  <2>0. TypeOK
    BY DEF IsolationInv
  <2>1. \A s \in Slots : idem[s] # None => idem'[s] = idem[s]
    <3> DEFINE record == [hash |-> HashPayload(r), status |-> 200,
                          body |-> ResponseBody(h, NextId)]
    <3>1. idem' = [idem EXCEPT ![Slot(r)] = record] /\ idem[Slot(r)] = None
      BY <1>2, PublishEffect, CommitFacts
    <3> HIDE DEF record
    <3> QED
      BY <2>0, <3>1 DEF TypeOK
  <2>2. \A i \in DOMAIN transactions :
          i \in DOMAIN transactions' /\ transactions'[i] = transactions[i]
    <3>1. transactions' = Append(transactions, TransactionRow(r))
      BY <1>2, PublishEffect
    <3> QED
      BY <2>0, <3>1 DEF TypeOK
  <2>3. \A w \in Wallets : \A j \in DOMAIN ledger[w] :
          j \in DOMAIN ledger'[w] /\ ledger'[w][j] = ledger[w][j]
    <3>1. ledger' = [w \in Wallets |->
            IF w = Destination(r) THEN Append(ledger[w], CreditEntry(h, NextId))
            ELSE IF w = Source(r) THEN Append(ledger[w], DebitEntry(h, NextId))
            ELSE ledger[w]]
      BY <1>2, PublishEffect
    <3>2. \A w \in Wallets : ledger[w] \in Seq(LedgerEntry)
      BY <2>0 DEF TypeOK
    <3> QED
      BY <3>1, <3>2
  <2>4. \A i \in DOMAIN audits : i \in DOMAIN audits' /\ audits'[i] = audits[i]
    <3>1. audits' = Append(audits, AuditRow(r, NextId))
      BY <1>2, PublishEffect
    <3> QED
      BY <2>0, <3>1 DEF TypeOK
  <2> QED
    BY <2>1, <2>2, <2>3, <2>4 DEF HistoryStep
<1> QED
  BY <1>1, <1>2, TableStep

\* No step rewrites or removes a committed transaction, ledger entry, audit row
\* or idempotency record.
THEOREM HistoryKept == Spec => HistoryIsKept
  BY Isolation, HistoryIsStep, PTL DEF Spec, HistoryIsKept

-----------------------------------------------------------------------------
(* Refinement.                                                             *)

\* A commit is the abstract bank's move.
LEMMA CommitMoves ==
    ASSUME IsolationInv, NEW h \in Handlers, pc[h] = "commit", Publish(h)
    PROVE  Abstract!Next
<1> DEFINE r == req[h]
           to == Destination(r)
           from == Source(r)
           record == [hash |-> HashPayload(r), status |-> 200,
                      body |-> ResponseBody(h, NextId)]
<1>0. /\ balance \in [Wallets -> 0 .. MaxInt]
      /\ idem \in [Slots -> IdempotencyRecord \cup {None}]
  BY DEF IsolationInv, TypeOK
<1>1. /\ r \in Requests /\ Slot(r) \in Slots
      /\ r.amount \in Int /\ r.amount > 0 /\ r.key # EmptyKey
      /\ to \in Wallets /\ to # from
      /\ balance[to] + r.amount <= MaxInt
      /\ from # None => from \in Wallets /\ r.amount <= balance[from]
      /\ from = None <=> r.op = "TOP_UP"
      /\ idem[Slot(r)] = None
  BY CommitFacts
<1>2. balance' = [w \in Wallets |->
        IF w = to THEN balance[w] + r.amount
        ELSE IF w = from THEN balance[w] - r.amount ELSE balance[w]]
  BY PublishEffect
<1>3. idem' = [idem EXCEPT ![Slot(r)] = record]
  BY PublishEffect
<1>4. record \in IdempotencyRecord /\ record.hash = HashPayload(r)
  BY <1>1, RequestFacts, PublishTypes DEF IdempotencyRecord
<1>5. Done[Slot(r)] = None
  BY <1>1 DEF Done
<1>6. Done' = [Done EXCEPT ![Slot(r)] = HashPayload(r)]
  <2> HIDE DEF record
  <2>1. record # None
    BY <1>4, NoneAssumption
  <2> QED
    BY <1>0, <1>1, <1>3, <1>4, <2>1 DEF Done
<1>7. CASE r.op = "TOP_UP"
  <2>1. to = WalletOf[r.user] /\ from = None
    BY <1>1, <1>7, RequestFacts
  <2>2. balance' = [balance EXCEPT ![to] = @ + r.amount]
    BY <1>0, <1>1, <1>2, <2>1, NoneAssumption
  <2>3. Abstract!TopUp(r)
    BY <1>1, <2>1, <2>2 DEF Abstract!TopUp
  <2> QED
    BY <1>1, <1>5, <1>6, <1>7, <2>3
       DEF Abstract!Next, Abstract!Move, Abstract!Slot, Slot, Abstract!HashPayload,
           HashPayload, Abstract!Requests, Requests, Abstract!TopUpRequest,
           TopUpRequest, Abstract!TransferRequest, TransferRequest
<1>8. CASE r.op = "TRANSFER"
  <2>1. to = r.to /\ from = WalletOf[r.user] /\ from \in Wallets
    BY <1>1, <1>8, RequestFacts
  <2>2. balance' = [balance EXCEPT ![from] = @ - r.amount, ![to] = @ + r.amount]
    BY <1>0, <1>1, <1>2, <2>1
  <2>3. r.amount <= balance[from]
    BY <1>1, <2>1, NoneAssumption
  <2>4. Abstract!Transfer(r)
    BY <1>1, <2>1, <2>2, <2>3 DEF Abstract!Transfer
  <2> QED
    BY <1>1, <1>5, <1>6, <1>8, <2>4
       DEF Abstract!Next, Abstract!Move, Abstract!Slot, Slot, Abstract!HashPayload,
           HashPayload, Abstract!Requests, Requests, Abstract!TopUpRequest,
           TopUpRequest, Abstract!TransferRequest, TransferRequest
<1> QED
  BY <1>1, <1>7, <1>8, RequestFacts

\* A step is a step of Bank or leaves Bank's variables unchanged.
LEMMA StepRefines ==
    ASSUME IsolationInv, [Next]_vars
    PROVE  [Abstract!Next]_(Abstract!vars)
<1>1. CASE UNCHANGED tables
  BY <1>1 DEF tables, Abstract!vars, Done
<1> QED
  BY <1>1, TableStep, CommitMoves

\* The handlers, with their locks, statements, failures and crashes, implement
\* the bank that moves money in one indivisible step, at most once per slot,
\* without overdraft or overflow.
THEOREM Refinement == Spec => ImplementsBank
<1>1. Init => Abstract!Init
  BY DEF Init, Abstract!Init, NoRows, Done, Abstract!Slots, Slots
<1> QED
  BY <1>1, Isolation, StepRefines, PTL DEF Spec, ImplementsBank, Abstract!Spec

-----------------------------------------------------------------------------
(* The journal.                                                            *)

\* What an entry for a new transaction adds to a ledger: it comes last, the others keep
\* their places.
LEMMA AppendFacts ==
    ASSUME NEW S, NEW log \in Seq(S), NEW e \in S
    PROVE  /\ Append(log, e) \in Seq(S)
           /\ Len(log) \in Nat
           /\ DOMAIN log = 1 .. Len(log)
           /\ Len(Append(log, e)) = Len(log) + 1
           /\ DOMAIN Append(log, e) = 1 .. Len(log) + 1
           /\ Append(log, e)[Len(log) + 1] = e
           /\ \A i \in 1 .. Len(log) : Append(log, e)[i] = log[i]
  OBVIOUS

\* A step keeps the journal complete: only a commit changes a table, and it writes
\* the transaction, its entries, its audit row and its delivery together.
LEMMA JournalStep ==
    ASSUME IsolationInv, JournalComplete, [Next]_vars
    PROVE  JournalComplete'
<1>1. CASE UNCHANGED tables
  BY <1>1 DEF tables, JournalComplete, EntryBelongs, HasEntry
<1>2. ASSUME NEW h \in Handlers, pc[h] = "commit", Publish(h)
      PROVE  JournalComplete'
  <2> DEFINE r == req[h]
             to == Destination(r)
             from == Source(r)
             n == Len(transactions)
             new == TransactionRow(r)
             credit == CreditEntry(h, NextId)
             debit == DebitEntry(h, NextId)
             audit == AuditRow(r, NextId)
             Belongs(w, e) ==
               /\ e.txn \in DOMAIN transactions'
               /\ e.amount = transactions'[e.txn].amount
               /\ w = IF e.type = "CREDIT" THEN transactions'[e.txn].destination
                                           ELSE transactions'[e.txn].source
             Has(w, i, type) ==
               \E j \in DOMAIN ledger'[w] :
                   ledger'[w][j].txn = i /\ ledger'[w][j].type = type
  <2>1. /\ ledger \in [Wallets -> Seq(LedgerEntry)]
        /\ transactions \in Seq(Transaction)
        /\ audits \in Seq(AuditLog)
        /\ deliveries \in Seq(Nat)
    BY DEF IsolationInv, TypeOK
  <2>2. /\ r \in Requests /\ to \in Wallets /\ to # from
        /\ from # None => from \in Wallets
    BY <1>2, CommitFacts
  <2>3. /\ ledger' = [w \in Wallets |->
             IF w = to THEN Append(ledger[w], credit)
             ELSE IF w = from THEN Append(ledger[w], debit)
             ELSE ledger[w]]
        /\ transactions' = Append(transactions, new)
        /\ audits' = Append(audits, audit)
        /\ deliveries' = IF WebhookEnabled THEN Append(deliveries, NextId)
                         ELSE deliveries
    BY <1>2, PublishEffect
  <2>4. /\ credit \in LedgerEntry /\ NextId \in Nat
        /\ from \in Wallets => debit \in LedgerEntry
    BY <1>2, CommitEntryTypes
  <2>5. /\ new.destination = to /\ new.source = from /\ new.amount = r.amount
        /\ new.user = r.user
        /\ credit.txn = n + 1 /\ credit.type = "CREDIT" /\ credit.amount = r.amount
        /\ debit.txn = n + 1 /\ debit.type = "DEBIT" /\ debit.amount = r.amount
        /\ audit.entity = n + 1 /\ audit.actor = r.user
        /\ NextId = n + 1
    BY DEF TransactionRow, CreditEntry, DebitEntry, AuditRow, NextId
  <2>6. /\ n \in Nat
        /\ DOMAIN transactions = 1 .. n /\ DOMAIN transactions' = 1 .. n + 1
        /\ Len(transactions') = n + 1
        /\ transactions'[n + 1] = new
        /\ \A i \in 1 .. n : transactions'[i] = transactions[i]
        /\ \A i \in 1 .. n : transactions[i] \in Transaction
    BY <2>1, <2>3
  <2>7. from \in Wallets <=> from # None
    BY <2>2, NoneAssumption
  <2>8. /\ \A w \in Wallets : \A j \in DOMAIN ledger[w] : EntryBelongs(w, ledger[w][j])
        /\ \A w \in Wallets : \A j, k \in DOMAIN ledger[w] :
             j < k => ledger[w][j].txn < ledger[w][k].txn
        /\ \A i \in 1 .. n :
             /\ HasEntry(transactions[i].destination, i, "CREDIT")
             /\ transactions[i].source # None
                  => HasEntry(transactions[i].source, i, "DEBIT")
        /\ Len(audits) = n
        /\ \A i \in DOMAIN audits :
             audits[i].entity = i /\ audits[i].actor = transactions[i].user
        /\ Len(deliveries) = IF WebhookEnabled THEN n ELSE 0
        /\ \A i \in DOMAIN deliveries : deliveries[i] = i
    BY <2>6 DEF JournalComplete
  <2> HIDE DEF new, credit, debit, audit, n, to, from
  \* The new entry of wallet w, if it has one.
  <2>9. ASSUME NEW w \in Wallets
        PROVE  \/ /\ w # to /\ w # from
                  /\ ledger'[w] = ledger[w]
               \/ \E e \in LedgerEntry :
                    /\ ledger'[w] = Append(ledger[w], e)
                    /\ e.txn = n + 1 /\ e.amount = r.amount
                    /\ \/ w = to /\ e.type = "CREDIT"
                       \/ w = from /\ e.type = "DEBIT"
    BY <2>3, <2>4, <2>5, <2>7
  <2>10. ASSUME NEW w \in Wallets
         PROVE  /\ \A j \in DOMAIN ledger'[w] : Belongs(w, ledger'[w][j])
                /\ \A j, k \in DOMAIN ledger'[w] :
                     j < k => ledger'[w][j].txn < ledger'[w][k].txn
    <3>1. /\ ledger[w] \in Seq(LedgerEntry)
          /\ \A j \in DOMAIN ledger[w] :
               /\ EntryBelongs(w, ledger[w][j])
               /\ ledger[w][j].txn \in 1 .. n
      BY <2>1, <2>6, <2>8 DEF EntryBelongs
    <3>2. ASSUME NEW e, e.txn \in 1 .. n, EntryBelongs(w, e)
          PROVE  Belongs(w, e)
      BY <2>6, <3>2 DEF EntryBelongs
    <3>3. CASE ledger'[w] = ledger[w]
      BY <3>1, <3>2, <3>3, <2>8 DEF EntryBelongs
    <3>4. ASSUME NEW e \in LedgerEntry, ledger'[w] = Append(ledger[w], e),
                 e.txn = n + 1, e.amount = r.amount,
                 \/ w = to /\ e.type = "CREDIT"
                 \/ w = from /\ e.type = "DEBIT"
          PROVE  /\ \A j \in DOMAIN ledger'[w] : Belongs(w, ledger'[w][j])
                 /\ \A j, k \in DOMAIN ledger'[w] :
                      j < k => ledger'[w][j].txn < ledger'[w][k].txn
      <4>1. /\ Len(ledger[w]) \in Nat
            /\ DOMAIN ledger[w] = 1 .. Len(ledger[w])
            /\ DOMAIN ledger'[w] = 1 .. Len(ledger[w]) + 1
            /\ ledger'[w][Len(ledger[w]) + 1] = e
            /\ \A i \in 1 .. Len(ledger[w]) : ledger'[w][i] = ledger[w][i]
        BY <3>1, <3>4, AppendFacts
      <4>2. Belongs(w, e)
        BY <2>5, <2>6, <3>4
      <4>3. \A j \in DOMAIN ledger'[w] : Belongs(w, ledger'[w][j])
        <5>1. \A j \in 1 .. Len(ledger[w]) : Belongs(w, ledger[w][j])
          BY <3>1, <3>2, <4>1
        <5> HIDE DEF Belongs
        <5> QED
          BY <4>1, <4>2, <5>1
      <4>4. ASSUME NEW j \in DOMAIN ledger'[w], NEW k \in DOMAIN ledger'[w], j < k
            PROVE  ledger'[w][j].txn < ledger'[w][k].txn
        <5>1. j \in DOMAIN ledger[w] /\ ledger[w][j].txn \in 1 .. n
          BY <3>1, <4>1, <4>4
        <5>2. CASE k \in DOMAIN ledger[w]
          BY <2>8, <4>1, <4>4, <5>1, <5>2
        <5>3. CASE k = Len(ledger[w]) + 1
          BY <2>6, <3>4, <4>1, <5>1, <5>3
        <5> QED
          BY <4>1, <5>2, <5>3
      <4> QED
        BY <4>3, <4>4
    <3> QED
      BY <2>9, <3>3, <3>4
  <2>11. ASSUME NEW w \in Wallets, NEW i, NEW type, HasEntry(w, i, type)
         PROVE  Has(w, i, type)
    <3>1. PICK j \in DOMAIN ledger[w] : ledger[w][j].txn = i /\ ledger[w][j].type = type
      BY <2>11 DEF HasEntry
    <3>2. j \in DOMAIN ledger'[w] /\ ledger'[w][j] = ledger[w][j]
      <4>1. ledger[w] \in Seq(LedgerEntry)
        BY <2>1
      <4>2. CASE ledger'[w] = ledger[w]
        BY <4>2
      <4>3. CASE \E e \in LedgerEntry : ledger'[w] = Append(ledger[w], e)
        BY <4>1, <4>3, AppendFacts
      <4> QED
        BY <2>9, <4>2, <4>3
    <3> QED
      BY <3>1, <3>2 DEF HasEntry
  <2>12. Has(to, n + 1, "CREDIT")
    <3>1. ledger'[to] = Append(ledger[to], credit) /\ ledger[to] \in Seq(LedgerEntry)
      BY <2>1, <2>2, <2>3
    <3>2. /\ Len(ledger[to]) + 1 \in DOMAIN ledger'[to]
          /\ ledger'[to][Len(ledger[to]) + 1] = credit
      BY <2>4, <3>1, AppendFacts
    <3> QED
      BY <2>5, <3>2
  <2>13. from # None => Has(from, n + 1, "DEBIT")
    <3> HAVE from # None
    <3>1. ledger'[from] = Append(ledger[from], debit) /\ ledger[from] \in Seq(LedgerEntry)
      BY <2>1, <2>2, <2>3
    <3>2. /\ Len(ledger[from]) + 1 \in DOMAIN ledger'[from]
          /\ ledger'[from][Len(ledger[from]) + 1] = debit
      BY <2>4, <2>7, <3>1, AppendFacts
    <3> QED
      BY <2>5, <3>2
  <2>14. ASSUME NEW i \in DOMAIN transactions'
         PROVE  /\ Has(transactions'[i].destination, i, "CREDIT")
                /\ transactions'[i].source # None
                     => Has(transactions'[i].source, i, "DEBIT")
    <3>1. CASE i = n + 1
      BY <2>5, <2>6, <2>12, <2>13, <3>1
    <3>2. CASE i \in 1 .. n
      <4>1. /\ transactions[i].destination \in Wallets
            /\ transactions[i].source # None => transactions[i].source \in Wallets
        BY <2>6, <3>2 DEF Transaction
      <4>2. /\ HasEntry(transactions[i].destination, i, "CREDIT")
            /\ transactions[i].source # None
                 => HasEntry(transactions[i].source, i, "DEBIT")
        BY <2>8, <3>2
      <4>3. transactions'[i] = transactions[i]
        BY <2>6, <3>2
      <4> HIDE DEF Has
      <4> QED
        BY <2>11, <4>1, <4>2, <4>3
    <3> QED
      BY <2>6, <3>1, <3>2
  <2>15. audit \in AuditLog
    BY <2>2, <2>4, RequestFacts DEF audit, AuditRow, AuditLog
  <2>16. /\ Len(audits') = Len(transactions')
         /\ \A i \in DOMAIN audits' :
              audits'[i].entity = i /\ audits'[i].actor = transactions'[i].user
    BY <2>1, <2>3, <2>5, <2>6, <2>8, <2>15, AppendFacts
  <2>17. /\ Len(deliveries') = IF WebhookEnabled THEN Len(transactions') ELSE 0
         /\ \A i \in DOMAIN deliveries' : deliveries'[i] = i
    BY <2>1, <2>3, <2>4, <2>5, <2>6, <2>8, AppendFacts
  <2> QED
    BY <2>10, <2>14, <2>16, <2>17 DEF JournalComplete, EntryBelongs, HasEntry
<1> QED
  BY <1>1, <1>2, TableStep

\* In every reachable state the rows of a call are all there or none is: entries,
\* transactions, audit rows and deliveries account for each other.
THEOREM Journal == Spec => []JournalComplete
<1>1. Init => JournalComplete
  BY DEF Init, JournalComplete
<1> QED
  BY <1>1, Isolation, JournalStep, PTL DEF Spec

-----------------------------------------------------------------------------
(* Conservation.                                                           *)

\* A commit changes the sum of the balances by what it tops up: it adds its amount to
\* one wallet and, for a transfer, takes it from another.
LEMMA CommitBalances ==
    ASSUME IsolationInv, NEW h \in Handlers, pc[h] = "commit", Publish(h)
    PROVE  Total(balance', Wallets) =
             Total(balance, Wallets) +
               (IF req[h].op = "TOP_UP" THEN req[h].amount ELSE 0)
<1> DEFINE r == req[h]
           to == Destination(r)
           from == Source(r)
           a == r.amount
           credited == [w \in Wallets |-> IF w = to THEN balance[w] + a ELSE balance[w]]
<1>1. balance' = [w \in Wallets |->
        IF w = to THEN balance[w] + a ELSE IF w = from THEN balance[w] - a ELSE balance[w]]
  BY PublishEffect
<1>2. /\ a \in Int /\ to \in Wallets /\ to # from
      /\ from # None => from \in Wallets
      /\ from = None <=> r.op = "TOP_UP"
  BY CommitFacts
<1>3. \A w \in Wallets : balance[w] \in Int
  BY MaxIntAssumption DEF IsolationInv, TypeOK
<1> HIDE DEF a, to, from
<1>4. \A w \in Wallets : credited[w] \in Int
  BY <1>2, <1>3
<1>5. \A w \in Wallets : balance'[w] \in Int
  BY <1>1, <1>2, <1>3
<1>6. Total(credited, Wallets) = Total(balance, Wallets) + (credited[to] - balance[to])
  <2>1. \A w \in Wallets \ {to} : credited[w] = balance[w]
    OBVIOUS
  <2> HIDE DEF credited
  <2> QED
    BY <1>2, <1>3, <1>4, <2>1, RowsAssumption, TotalUpdate
<1>7. credited[to] - balance[to] = a
  BY <1>2, <1>3
<1>8. CASE from = None
  <2>1. \A w \in Wallets : balance'[w] = credited[w]
    BY <1>1, <1>8, NoneAssumption
  <2>2. Total(balance', Wallets) = Total(credited, Wallets)
    <3> HIDE DEF credited
    <3> QED
      BY <2>1, RowsAssumption, TotalAgree
  <2> QED
    BY <1>2, <1>6, <1>7, <1>8, <2>2 DEF a
<1>9. CASE from # None
  <2>1. from \in Wallets
    BY <1>2, <1>9
  <2>2. \A w \in Wallets \ {from} : balance'[w] = credited[w]
    BY <1>1
  <2>3. Total(balance', Wallets) = Total(credited, Wallets) + (balance'[from] - credited[from])
    <3> HIDE DEF credited
    <3> QED
      BY <1>4, <1>5, <2>1, <2>2, RowsAssumption, TotalUpdate
  <2>4. balance'[from] - credited[from] = -a
    BY <1>1, <1>2, <1>3, <2>1
  <2>5. Total(balance, Wallets) \in Int
    BY <1>3, RowsAssumption, TotalType
  <2>6. Total(balance', Wallets) = Total(balance, Wallets) + 0
    <3> HIDE DEF credited
    <3> QED
      BY <1>2, <1>6, <1>7, <2>3, <2>4, <2>5
  <2> QED
    BY <1>2, <1>9, <2>6
<1> QED
  BY <1>8, <1>9

\* A commit adds its transaction to the money topped up.
LEMMA CommitToppedUp ==
    ASSUME IsolationInv, NEW h \in Handlers, pc[h] = "commit", Publish(h)
    PROVE  Total(ToppedUp', DOMAIN transactions') =
             Total(ToppedUp, DOMAIN transactions) +
               (IF req[h].op = "TOP_UP" THEN req[h].amount ELSE 0)
<1> DEFINE r == req[h]
           t == TransactionRow(r)
           D == DOMAIN transactions
           n == Len(transactions) + 1
           f == ToppedUp
           e == ToppedUp'
           add == IF r.op = "TOP_UP" THEN r.amount ELSE 0
<1>1. /\ transactions \in Seq(Transaction) /\ transactions' \in Seq(Transaction)
      /\ transactions' = Append(transactions, t)
  BY PublishEffect, PublishTypes DEF IsolationInv, TypeOK
<1>2. /\ D = 1 .. Len(transactions) /\ Len(transactions) \in Nat
      /\ DOMAIN transactions' = D \cup {n} /\ n \notin D
      /\ transactions'[n] = t
      /\ \A i \in D : transactions'[i] = transactions[i]
  <2>1. /\ Len(transactions) \in Nat /\ DOMAIN transactions = 1 .. Len(transactions)
        /\ DOMAIN Append(transactions, t) = 1 .. Len(transactions) + 1
        /\ Append(transactions, t)[Len(transactions) + 1] = t
        /\ \A i \in 1 .. Len(transactions) : Append(transactions, t)[i] = transactions[i]
    <3> HIDE DEF t
    <3> QED
      BY <1>1
  <2> HIDE DEF t
  <2> QED
    BY <1>1, <2>1
<1>3. IsFiniteSet(D)
  <2>1. IsFiniteSet(1 .. Len(transactions))
    BY <1>2, FS_Interval
  <2> QED
    BY <1>2, <2>1
<1>4. ASSUME NEW x \in Transaction
      PROVE  (IF x.type = "TOP_UP" THEN x.amount ELSE 0) \in Int
  <2>1. x.amount \in Amounts
    BY DEF Transaction
  <2>2. x.amount \in Int
    BY <2>1, AmountAssumption
  <2> QED
    BY <2>2
<1>5. \A i \in D : f[i] \in Int
  <2>1. \A i \in D : transactions[i] \in Transaction
    BY <1>1
  <2> QED
    BY <1>4, <2>1 DEF ToppedUp
<1>6. \A i \in D : e[i] = f[i]
  <2>1. \A i \in D : e[i] = IF transactions'[i].type = "TOP_UP"
                            THEN transactions'[i].amount ELSE 0
    BY <1>2 DEF ToppedUp
  <2>2. \A i \in D : f[i] = IF transactions[i].type = "TOP_UP"
                            THEN transactions[i].amount ELSE 0
    BY DEF ToppedUp
  <2> QED
    BY <1>2, <2>1, <2>2
<1>7. e[n] = add
  <2>1. e[n] = IF t.type = "TOP_UP" THEN t.amount ELSE 0
    BY <1>2 DEF ToppedUp
  <2> QED
    BY <2>1 DEF TransactionRow
<1>8. add \in Int
  BY CommitFacts
<1> HIDE DEF e, f, D, n, add
<1>9. Total(e, D \cup {n}) = e[n] + Total(e, D)
  <2>1. \A i \in D : e[i] \in Int
    BY <1>5, <1>6
  <2>2. e[n] \in Int /\ n \notin D
    BY <1>2, <1>7, <1>8
  <2> QED
    BY <1>3, <2>1, <2>2, TotalJoin
<1>10. Total(e, D) = Total(f, D) /\ Total(f, D) \in Int
  BY <1>3, <1>5, <1>6, TotalAgree, TotalType
<1> QED
  BY <1>2, <1>7, <1>8, <1>9, <1>10 DEF e, f, D, n, add

\* In every reachable state the wallets together hold what was topped up: money moves,
\* and no transfer, failure, replay or crash creates or destroys any.
THEOREM Conservation == Spec => []Conserved
<1>1. Init => Conserved
  <2> SUFFICES ASSUME Init PROVE Conserved
    OBVIOUS
  <2>1. balance = [w \in Wallets |-> 0] /\ DOMAIN transactions = {}
    BY DEF Init, NoRows
  <2>2. Total(ToppedUp, {}) = 0
    BY TotalEmpty
  <2>3. Total(balance, Wallets) = 0
    BY <2>1, RowsAssumption, TotalZero
  <2> QED
    BY <2>1, <2>2, <2>3 DEF Conserved
<1>2. ASSUME IsolationInv, Conserved, [Next]_vars PROVE Conserved'
  <2>1. CASE UNCHANGED tables
    BY <1>2, <2>1 DEF tables, Conserved, ToppedUp
  <2>2. ASSUME NEW h \in Handlers, pc[h] = "commit", Publish(h) PROVE Conserved'
    BY <1>2, <2>2, CommitBalances, CommitToppedUp DEF Conserved
  <2> QED
    BY <1>2, <2>1, <2>2, TableStep
<1> QED
  BY <1>1, <1>2, Isolation, PTL DEF Spec

-----------------------------------------------------------------------------
(* The answers.                                                            *)

\* Where a handler is that has its answer.
Answering == {"enqueue", "answered"}

\* body names a committed transaction, and the ledger of the credited wallet records
\* the balance that body shows of it.
Shows(body) ==
    /\ body.txn \in DOMAIN transactions
    /\ LET to == transactions[body.txn].destination IN
       \E j \in DOMAIN ledger[to] :
           /\ ledger[to][j].txn = body.txn
           /\ ledger[to][j].after = body.balances[Len(body.balances)]

\* Every transaction is what some request asked for, and every record shows what the
\* ledger has.
RecordInv ==
    /\ \A i \in DOMAIN transactions :
         \E r \in Requests : transactions[i] = TransactionRow(r)
    /\ \A s \in Slots : idem[s] # None => Shows(idem[s].body)

\* A handler with a 200 is past its transaction, which did what its request asked for.
AnswerInv ==
    \A h \in Handlers : reply[h].status = 200 =>
        /\ pc[h] \in Answering
        /\ transactions[reply[h].body.txn] = TransactionRow(req[h])
        /\ Shows(reply[h].body)

\* What a body shows stays true, because history is kept.
LEMMA ShowsKept ==
    ASSUME IsolationInv, HistoryStep, NEW body, Shows(body)
    PROVE  /\ body.txn \in DOMAIN transactions'
           /\ transactions'[body.txn] = transactions[body.txn]
           /\ LET to == transactions'[body.txn].destination IN
              \E j \in DOMAIN ledger'[to] :
                  /\ ledger'[to][j].txn = body.txn
                  /\ ledger'[to][j].after = body.balances[Len(body.balances)]
<1> DEFINE to == transactions[body.txn].destination
<1>1. /\ body.txn \in DOMAIN transactions'
      /\ transactions'[body.txn] = transactions[body.txn]
  BY DEF Shows, HistoryStep
<1>2. to \in Wallets
  <2>1. transactions \in Seq(Transaction)
    BY DEF IsolationInv, TypeOK
  <2>2. transactions[body.txn] \in Transaction
    BY <2>1 DEF Shows
  <2> QED
    BY <2>2 DEF Transaction
<1>3. PICK j \in DOMAIN ledger[to] :
        /\ ledger[to][j].txn = body.txn
        /\ ledger[to][j].after = body.balances[Len(body.balances)]
  BY DEF Shows
<1>4. j \in DOMAIN ledger'[to] /\ ledger'[to][j] = ledger[to][j]
  BY <1>2 DEF HistoryStep
<1> QED
  BY <1>1, <1>3, <1>4

\* What a commit answers, it has just written.
LEMMA CommitShows ==
    ASSUME IsolationInv, NEW h \in Handlers, pc[h] = "commit", Publish(h)
    PROVE  LET body == ResponseBody(h, NextId) to == Destination(req[h]) IN
           /\ body.txn = Len(transactions) + 1
           /\ body.txn \in DOMAIN transactions'
           /\ transactions'[body.txn] = TransactionRow(req[h])
           /\ transactions'[body.txn].destination = to
           /\ \E j \in DOMAIN ledger'[to] :
                /\ ledger'[to][j].txn = body.txn
                /\ ledger'[to][j].after = body.balances[Len(body.balances)]
<1> DEFINE r == req[h]
           to == Destination(r)
           body == ResponseBody(h, NextId)
           credit == CreditEntry(h, NextId)
           new == TransactionRow(r)
<1>1. r \in Requests /\ to \in Wallets
  BY CommitFacts
<1>2. /\ ledger \in [Wallets -> Seq(LedgerEntry)] /\ transactions \in Seq(Transaction)
      /\ credit \in LedgerEntry
  BY CommitEntryTypes DEF IsolationInv, TypeOK
<1>3. transactions' = Append(transactions, new) /\ new.destination = to
  BY PublishEffect DEF TransactionRow
<1>4. ledger'[to] = Append(ledger[to], credit)
  <2>1. ledger' = [w \in Wallets |->
          IF w = to THEN Append(ledger[w], CreditEntry(h, NextId))
          ELSE IF w = Source(r) THEN Append(ledger[w], DebitEntry(h, NextId))
          ELSE ledger[w]]
    BY PublishEffect
  <2> QED
    BY <1>1, <2>1
<1>5. body.txn = Len(transactions) + 1 /\ credit.txn = Len(transactions) + 1
  BY DEF ResponseBody, CreditEntry, NextId
<1>6. body.balances[Len(body.balances)] = row[h][to] /\ credit.after = row[h][to]
  <2>1. CASE r.op = "TOP_UP"
    BY <2>1 DEF ResponseBody, CreditEntry
  <2>2. CASE r.op = "TRANSFER"
    BY <2>2 DEF ResponseBody, CreditEntry
  <2> QED
    BY <1>1, <2>1, <2>2, RequestFacts
<1> HIDE DEF body, credit, new, to
<1>7. /\ body.txn \in DOMAIN transactions'
      /\ transactions'[body.txn] = new
  BY <1>2, <1>3, <1>5
<1>8. /\ Len(ledger[to]) + 1 \in DOMAIN ledger'[to]
      /\ ledger'[to][Len(ledger[to]) + 1] = credit
  BY <1>1, <1>2, <1>4, AppendFacts
<1> QED
  BY <1>3, <1>5, <1>6, <1>7, <1>8 DEF body, credit, new, to

\* A step keeps transactions and records as their requests made them.
LEMMA RecordStep ==
    ASSUME IsolationInv, RecordInv, [Next]_vars
    PROVE  RecordInv'
<1>1. CASE UNCHANGED tables
  BY <1>1 DEF tables, RecordInv, Shows
<1>2. ASSUME NEW h \in Handlers, pc[h] = "commit", Publish(h)
      PROVE  RecordInv'
  <2> DEFINE r == req[h]
             body == ResponseBody(h, NextId)
             record == [hash |-> HashPayload(r), status |-> 200, body |-> body]
             n == Len(transactions)
             new == TransactionRow(r)
  <2>1. r \in Requests /\ Slot(r) \in Slots
    BY <1>2, CommitFacts
  <2>2. /\ idem' = [idem EXCEPT ![Slot(r)] = record]
        /\ transactions' = Append(transactions, new)
    BY <1>2, PublishEffect
  <2>3. /\ idem \in [Slots -> IdempotencyRecord \cup {None}]
        /\ transactions \in Seq(Transaction)
    BY DEF IsolationInv, TypeOK
  <2>4. \A i \in DOMAIN transactions' :
          \E q \in Requests : transactions'[i] = TransactionRow(q)
    <3>1. /\ DOMAIN transactions = 1 .. n /\ DOMAIN transactions' = 1 .. n + 1
          /\ n \in Nat /\ transactions'[n + 1] = new
          /\ \A i \in 1 .. n : transactions'[i] = transactions[i]
      BY <2>2, <2>3
    <3> HIDE DEF n
    <3> QED
      BY <2>1, <3>1 DEF RecordInv
  <2>5. ASSUME NEW s \in Slots, idem'[s] # None
        PROVE  Shows(idem[s].body)'
    <3>1. CASE s = Slot(r)
      <4>1. idem'[s].body = body
        BY <2>2, <2>3, <3>1
      <4> HIDE DEF body, record
      <4> QED
        BY <1>2, <4>1, CommitShows DEF Shows, body
    <3>2. CASE s # Slot(r)
      <4> HIDE DEF record
      <4>1. idem'[s] = idem[s]
        BY <2>2, <2>3, <3>2
      <4>2. Shows(idem[s].body)
        BY <2>5, <4>1 DEF RecordInv
      <4>3. HistoryStep
        BY HistoryIsStep
      <4> QED
        BY <4>1, <4>2, <4>3, ShowsKept DEF Shows
    <3> QED
      BY <3>1, <3>2
  <2> QED
    BY <2>4, <2>5 DEF RecordInv
<1> QED
  BY <1>1, <1>2, TableStep

\* A replay with a 200 is of a transaction that did what the request asks for.
LEMMA ReplayIsTrue ==
    ASSUME IsolationInv, OncePerKey, RecordInv, NEW h \in Handlers,
           pc[h] = "existing", Replay(idem[Slot(req[h])], req[h]).status = 200
    PROVE  LET body == Replay(idem[Slot(req[h])], req[h]).body IN
           transactions[body.txn] = TransactionRow(req[h]) /\ Shows(body)
<1> DEFINE r == req[h]
           s == Slot(r)
           record == idem[s]
           t == transactions[record.body.txn]
<1>1. r \in Requests /\ s \in Slots /\ record # None
  BY RequestFacts DEF IsolationInv, RequestInv, ReservationInv
<1>2. record.hash = HashPayload(r) /\ Replay(record, r).body = record.body
  BY DEF Replay
<1>3. /\ record.body.txn \in DOMAIN transactions
      /\ TransactionSlot(t) = s
      /\ record.hash = <<IF t.type = "TOP_UP" THEN None ELSE t.destination, t.amount>>
  BY <1>1 DEF OncePerKey
<1>4. PICK q \in Requests : t = TransactionRow(q)
  BY <1>3 DEF RecordInv
<1>5. /\ r.op = q.op /\ r.user = q.user /\ r.key = q.key
  BY <1>3, <1>4 DEF TransactionSlot, Slot, TransactionRow
<1>6. /\ r.to = (IF q.op = "TOP_UP" THEN None ELSE Destination(q))
      /\ r.amount = q.amount
  BY <1>2, <1>3, <1>4 DEF HashPayload, TransactionRow
<1>7. Destination(r) = Destination(q) /\ Source(r) = Source(q)
  BY <1>1, <1>5, <1>6, RequestFacts
<1>8. TransactionRow(r) = TransactionRow(q)
  BY <1>5, <1>6, <1>7 DEF TransactionRow
<1>9. Shows(record.body)
  BY <1>1 DEF RecordInv
<1> QED
  BY <1>2, <1>4, <1>8, <1>9

\* An action of handler h.
Action(h) ==
    \/ ReceiveTopUp(h) \/ ReceiveTransfer(h)
    \/ pc[h] # "idle" /\ Steps(h)
    \/ TopUpLookup(h) \/ TopUpCheck(h)
    \/ TransferLookup(h) \/ TransferCheck(h) \/ UpdateSource(h)
    \/ CommitUnacknowledged(h) \/ Fail(h) \/ Return(h)

\* g is where it was, with its request, its answer and its locks.
Untouched(g) ==
    /\ pc'[g] = pc[g] /\ req'[g] = req[g] /\ reply'[g] = reply[g]
    /\ \A w \in Wallets : lock'[w] = g <=> lock[w] = g

\* Handlers do not touch each other.
LEMMA OthersUntouched ==
    ASSUME TypeOK, NEW h \in Handlers, Action(h), NEW g \in Handlers, g # h
    PROVE  Untouched(g)
<1> USE HandlerAssumption DEF TypeOK, Untouched, Goto, Answer
<1>0. ASSUME EndTransaction(h)
      PROVE  \A w \in Wallets : lock'[w] = g <=> lock[w] = g
  BY <1>0 DEF EndTransaction
<1>1. ASSUME NEW status, Rollback(h, status) PROVE Untouched(g)
  BY <1>0, <1>1 DEF Rollback
<1>2. ASSUME NEW place, NEW statement, NEW next, Execute(h, place, statement, next)
      PROVE  Untouched(g)
  BY <1>2 DEF Execute
<1>3. CASE ReceiveTopUp(h) \/ ReceiveTransfer(h)
  BY <1>3 DEF ReceiveTopUp, ReceiveTransfer, Receive, sessions
<1>4. CASE Reserve(h)
  BY <1>4 DEF Reserve
<1>5. CASE Existing(h)
  BY <1>0, <1>5 DEF Existing
<1>6. CASE LockWallet(h)
  BY <1>6 DEF LockWallet
<1>7. CASE CreateTransaction(h) \/ CreateEntries(h) \/ CreateAudit(h) \/ MarkCompleted(h)
           \/ UpdateSource(h)
  BY <1>2, <1>7 DEF CreateTransaction, CreateEntries, CreateAudit, MarkCompleted,
                    UpdateSource
<1>8. CASE UpdateDestination(h)
  BY <1>1, <1>2, <1>8 DEF UpdateDestination
<1>9. CASE CreateDelivery(h)
  BY <1>2, <1>9 DEF CreateDelivery, sessions
<1>10. CASE Commit(h) \/ CommitUnacknowledged(h)
  BY <1>0, <1>10 DEF Commit, CommitUnacknowledged
<1>11. CASE Enqueue(h) \/ Return(h)
  BY <1>11 DEF Enqueue, Return, sessions
<1>12. CASE TopUpLookup(h) \/ TopUpCheck(h)
  BY <1>12 DEF TopUpLookup, TopUpCheck, sessions
<1>13. CASE TransferLookup(h)
  BY <1>1, <1>13 DEF TransferLookup, sessions
<1>14. CASE TransferCheck(h)
  BY <1>1, <1>14 DEF TransferCheck, sessions
<1>15. CASE Fail(h)
  BY <1>1, <1>15 DEF Fail
<1> QED
  BY <1>3, <1>4, <1>5, <1>6, <1>7, <1>8, <1>9, <1>10, <1>11, <1>12, <1>13, <1>14, <1>15
     DEF Action, Steps

\* A step is an action of one handler, a step of the worker, a crash or a stutter.
LEMMA StepKinds ==
    ASSUME [Next]_vars
    PROVE  \/ \E h \in Handlers : Action(h)
           \/ Dequeue \/ Crash \/ UNCHANGED vars
<1>1. ASSUME NEW h \in Handlers, TopUp(h) \/ Transfer(h) PROVE Action(h)
  BY <1>1 DEF TopUp, Transfer, Action
<1> QED
  BY <1>1 DEF Next, Action

\* A handler that has a 200 after an action had it before, replays it, or commits.
LEMMA ReplyStep ==
    ASSUME IsolationInv, AnswerInv, NEW h \in Handlers, Action(h),
           reply'[h].status = 200
    PROVE  /\ pc'[h] \in Answering /\ req'[h] = req[h]
           /\ \/ reply'[h] = reply[h] /\ pc[h] \in Answering
              \/ /\ pc[h] = "existing"
                 /\ reply'[h] = Replay(idem[Slot(req[h])], req[h])
                 /\ UNCHANGED tables
              \/ Commit(h)
<1> DEFINE Goal ==
      /\ pc'[h] \in Answering /\ req'[h] = req[h]
      /\ \/ reply'[h] = reply[h] /\ pc[h] \in Answering
         \/ /\ pc[h] = "existing"
            /\ reply'[h] = Replay(idem[Slot(req[h])], req[h])
            /\ UNCHANGED tables
         \/ Commit(h)
<1>0. /\ pc \in [Handlers -> Places]
      /\ reply \in [Handlers -> [status : Nat, body : Body]]
      /\ reply[h].status = 200 => pc[h] \in Answering
  BY DEF IsolationInv, TypeOK, AnswerInv
<1>a. /\ pc[h] \in InTx => reply[h].status # 200
      /\ pc[h] = "idle" => reply[h].status # 200
  BY <1>0 DEF Answering, InTx, Reserved, Locked, Prepared
<1>1. ASSUME NEW status \in {400, 404, 409, 500}, Rollback(h, status) PROVE Goal
  BY <1>0, <1>1 DEF Rollback, Answer
<1>2. ASSUME UNCHANGED reply, pc[h] \in InTx PROVE Goal
  BY <1>a, <1>2
<1>3. ASSUME NEW place \in InTx, NEW statement, NEW next, Execute(h, place, statement, next)
      PROVE  Goal
  BY <1>2, <1>3 DEF Execute
<1>4. CASE ReceiveTopUp(h) \/ ReceiveTransfer(h)
  BY <1>0, <1>a, <1>4 DEF ReceiveTopUp, ReceiveTransfer, Receive, Answer
<1>5. CASE Existing(h)
  BY <1>0, <1>5 DEF Existing, Goto, Answering
<1>6. CASE Reserve(h) \/ LockWallet(h) \/ TopUpLookup(h) \/ TopUpCheck(h)
  BY <1>2, <1>6 DEF Reserve, LockWallet, TopUpLookup, TopUpCheck, InTx, Reserved, Locked
<1>7. CASE CreateTransaction(h) \/ CreateEntries(h) \/ CreateAudit(h) \/ MarkCompleted(h)
           \/ UpdateSource(h)
  BY <1>3, <1>7 DEF CreateTransaction, CreateEntries, CreateAudit, MarkCompleted,
                    UpdateSource, InTx, Reserved, Locked, Prepared
<1>8. CASE UpdateDestination(h)
  BY <1>1, <1>3, <1>8 DEF UpdateDestination, InTx, Reserved, Locked, Prepared
<1>9. CASE CreateDelivery(h)
  BY <1>2, <1>3, <1>9 DEF CreateDelivery, InTx, Reserved, Locked, Prepared
<1>10. CASE Commit(h)
  BY <1>0, <1>10 DEF Commit, Goto, Answering
<1>11. CASE CommitUnacknowledged(h)
  BY <1>0, <1>11 DEF CommitUnacknowledged, Answer
<1>12. CASE Enqueue(h)
  BY <1>0, <1>12 DEF Enqueue, Goto, Answering
<1>13. CASE Return(h)
  BY <1>0, <1>13 DEF Return, NoAnswer
<1>14. CASE TransferLookup(h)
  BY <1>1, <1>2, <1>14 DEF TransferLookup, InTx, Reserved
<1>15. CASE TransferCheck(h)
  BY <1>1, <1>2, <1>15 DEF TransferCheck, InTx, Reserved, Locked
<1>16. CASE Fail(h)
  BY <1>1, <1>16 DEF Fail
<1>17. CASE pc[h] # "idle" /\ Steps(h)
  BY <1>5, <1>6, <1>7, <1>8, <1>9, <1>10, <1>12, <1>17 DEF Steps
<1> QED
  BY <1>4, <1>6, <1>7, <1>11, <1>13, <1>14, <1>15, <1>16, <1>17 DEF Action

\* A step keeps every answer true: it was true and history is kept, or it is replayed
\* from a record that is, or it is of the transaction just committed.
LEMMA AnswerStep ==
    ASSUME IsolationInv, OncePerKey, RecordInv, AnswerInv, [Next]_vars
    PROVE  AnswerInv'
<1>0. TypeOK /\ HistoryStep
  BY HistoryIsStep DEF IsolationInv
<1> DEFINE True(g) ==
      /\ pc'[g] \in Answering
      /\ transactions'[reply'[g].body.txn] = TransactionRow(req'[g])
      /\ reply'[g].body.txn \in DOMAIN transactions'
      /\ LET to == transactions'[reply'[g].body.txn].destination IN
         \E j \in DOMAIN ledger'[to] :
             /\ ledger'[to][j].txn = reply'[g].body.txn
             /\ ledger'[to][j].after
                  = reply'[g].body.balances[Len(reply'[g].body.balances)]
<1>1. ASSUME NEW g \in Handlers, reply[g].status = 200, reply'[g] = reply[g],
             req'[g] = req[g], pc'[g] \in Answering
      PROVE  True(g)
  <2> DEFINE body == reply[g].body
  <2>1. transactions[body.txn] = TransactionRow(req[g]) /\ Shows(body)
    BY <1>1 DEF AnswerInv
  <2> HIDE DEF body
  <2>2. /\ body.txn \in DOMAIN transactions'
        /\ transactions'[body.txn] = transactions[body.txn]
        /\ LET to == transactions'[body.txn].destination IN
           \E j \in DOMAIN ledger'[to] :
               /\ ledger'[to][j].txn = body.txn
               /\ ledger'[to][j].after = body.balances[Len(body.balances)]
    BY <1>0, <2>1, ShowsKept
  <2> QED
    BY <1>1, <2>1, <2>2 DEF body
<1>2. ASSUME NEW h \in Handlers, Action(h), NEW g \in Handlers, reply'[g].status = 200
      PROVE  True(g)
  <2>1. CASE g # h
    BY <1>0, <1>1, <1>2, <2>1, OthersUntouched DEF Untouched, AnswerInv
  <2>2. CASE g = h
    <3>0. pc'[h] \in Answering /\ req'[h] = req[h]
      BY <1>2, <2>2, ReplyStep
    <3>1. CASE reply'[h] = reply[h]
      <4> HIDE DEF True
      <4> QED
        BY <1>1, <1>2, <2>2, <3>0, <3>1
    <3>2. CASE /\ pc[h] = "existing"
               /\ reply'[h] = Replay(idem[Slot(req[h])], req[h])
               /\ UNCHANGED tables
      <4> DEFINE body == Replay(idem[Slot(req[h])], req[h]).body
      <4>1. transactions[body.txn] = TransactionRow(req[h]) /\ Shows(body)
        BY <1>2, <2>2, <3>2, ReplayIsTrue
      <4>2. reply'[h].body = body /\ transactions' = transactions /\ ledger' = ledger
        BY <3>2 DEF tables
      <4> HIDE DEF body
      <4> QED
        BY <2>2, <3>0, <4>1, <4>2 DEF Shows
    <3>3. CASE Commit(h)
      <4> DEFINE body == ResponseBody(h, NextId)
      <4>1. pc[h] = "commit" /\ Publish(h)
        BY <3>3 DEF Commit
      <4>2. reply'[h].body = body
        BY <1>0, <3>3 DEF Commit, Answer, TypeOK
      <4>3. /\ body.txn \in DOMAIN transactions'
            /\ transactions'[body.txn] = TransactionRow(req[h])
            /\ LET to == transactions'[body.txn].destination IN
               \E j \in DOMAIN ledger'[to] :
                   /\ ledger'[to][j].txn = body.txn
                   /\ ledger'[to][j].after = body.balances[Len(body.balances)]
        BY <4>1, CommitShows
      <4> HIDE DEF body
      <4> QED
        BY <2>2, <3>0, <4>2, <4>3
    <3> QED
      <4> HIDE DEF True
      <4> QED
        BY <1>2, <2>2, <3>1, <3>2, <3>3, ReplyStep
  <2> QED
    BY <2>1, <2>2
<1>3. ASSUME Dequeue \/ UNCHANGED vars, NEW g \in Handlers, reply'[g].status = 200
      PROVE  True(g)
  <2>1. pc' = pc /\ req' = req /\ reply' = reply
    BY <1>3 DEF Dequeue, vars, process
  <2> QED
    BY <1>1, <1>3, <2>1 DEF AnswerInv
<1>4. ASSUME Crash, NEW g \in Handlers PROVE reply'[g].status # 200
  BY <1>4 DEF Crash, NoAnswer
<1>5. ASSUME NEW g \in Handlers, reply'[g].status = 200 PROVE True(g)
  <2> HIDE DEF True
  <2>1. CASE \E h \in Handlers : Action(h)
    BY <1>2, <1>5, <2>1
  <2>2. CASE Dequeue \/ UNCHANGED vars
    BY <1>3, <1>5, <2>2
  <2>3. CASE Crash
    BY <1>4, <1>5, <2>3
  <2> QED
    BY <2>1, <2>2, <2>3, StepKinds
<1> QED
  BY <1>5 DEF AnswerInv, Shows

\* The records show what the ledger has and the answers are true of it, always.
LEMMA AnswersInduct == Spec => []RecordInv /\ []AnswerInv
<1>1. Init => RecordInv /\ AnswerInv
  BY DEF Init, RecordInv, AnswerInv, NoAnswer
<1> QED
  BY <1>1, Isolation, Idempotent, RecordStep, AnswerStep, PTL DEF Spec

\* Every 200, first or replayed, before or after retries, failures and crashes, names a
\* committed transaction that did what that very request asked for, and shows the balance
\* the ledger has for it.
THEOREM Answers == Spec => []AnswersAreTrue
<1>1. AnswerInv => AnswersAreTrue
  <2> SUFFICES ASSUME AnswerInv, NEW h \in Handlers, reply[h].status = 200
               PROVE  LET id == reply[h].body.txn
                          shown == reply[h].body.balances
                          to == Destination(req[h])
                      IN  /\ id \in DOMAIN transactions
                          /\ transactions[id] = TransactionRow(req[h])
                          /\ \E j \in DOMAIN ledger[to] :
                               /\ ledger[to][j].txn = id
                               /\ ledger[to][j].after = shown[Len(shown)]
    BY DEF AnswersAreTrue
  <2>1. TransactionRow(req[h]).destination = Destination(req[h])
    BY DEF TransactionRow
  <2> QED
    BY <2>1 DEF AnswerInv, Shows
<1> QED
  BY <1>1, AnswersInduct, PTL

-----------------------------------------------------------------------------
(* The reads.                                                              *)

\* What transaction t moves into wallet w.
Delta(w, t) == IF t.destination = w THEN t.amount
               ELSE IF t.source = w THEN -t.amount ELSE 0

Deltas(w) == [i \in DOMAIN transactions |-> Delta(w, transactions[i])]

\* A balance is the sum of what the committed transactions moved into its wallet.
BalanceInv == \A w \in Wallets : balance[w] = Total(Deltas(w), DOMAIN transactions)

\* A commit moves into each wallet what its transaction says.
LEMMA CommitDelta ==
    ASSUME IsolationInv, NEW h \in Handlers, pc[h] = "commit", Publish(h),
           NEW w \in Wallets
    PROVE  /\ Delta(w, TransactionRow(req[h])) \in Int
           /\ balance'[w] = balance[w] + Delta(w, TransactionRow(req[h]))
<1> DEFINE to == Destination(req[h])
           from == Source(req[h])
           a == req[h].amount
<1>1. a \in Int /\ to # from
  BY CommitFacts
<1>2. balance'[w] = IF w = to THEN balance[w] + a
                    ELSE IF w = from THEN balance[w] - a ELSE balance[w]
  BY PublishEffect
<1>3. balance[w] \in Int
  BY MaxIntAssumption DEF IsolationInv, TypeOK
<1>4. Delta(w, TransactionRow(req[h])) = IF to = w THEN a ELSE IF from = w THEN -a ELSE 0
  BY DEF Delta, TransactionRow
<1> HIDE DEF to, from, a
<1> QED
  BY <1>1, <1>2, <1>3, <1>4

\* A step keeps balances the sums of what was moved.
LEMMA BalanceStep ==
    ASSUME IsolationInv, BalanceInv, [Next]_vars
    PROVE  BalanceInv'
<1>1. CASE UNCHANGED tables
  BY <1>1 DEF tables, BalanceInv, Deltas
<1>2. ASSUME NEW h \in Handlers, pc[h] = "commit", Publish(h), NEW w \in Wallets
      PROVE  balance'[w] = Total(Deltas(w)', DOMAIN transactions')
  <2> DEFINE t == TransactionRow(req[h])
             D == DOMAIN transactions
             n == Len(transactions) + 1
             f == Deltas(w)
             e == Deltas(w)'
             add == Delta(w, t)
  <2>1. /\ transactions \in Seq(Transaction) /\ transactions' \in Seq(Transaction)
        /\ transactions' = Append(transactions, t)
    BY <1>2, PublishEffect, PublishTypes DEF IsolationInv, TypeOK
  <2>2. /\ D = 1 .. Len(transactions) /\ Len(transactions) \in Nat
        /\ DOMAIN transactions' = D \cup {n} /\ n \notin D
        /\ transactions'[n] = t
        /\ \A i \in D : transactions'[i] = transactions[i]
    <3>1. /\ Len(transactions) \in Nat /\ DOMAIN transactions = 1 .. Len(transactions)
          /\ DOMAIN Append(transactions, t) = 1 .. Len(transactions) + 1
          /\ Append(transactions, t)[Len(transactions) + 1] = t
          /\ \A i \in 1 .. Len(transactions) : Append(transactions, t)[i] = transactions[i]
      <4> HIDE DEF t
      <4> QED
        BY <2>1
    <3> HIDE DEF t
    <3> QED
      BY <2>1, <3>1
  <2>3. IsFiniteSet(D)
    <3>1. IsFiniteSet(1 .. Len(transactions))
      BY <2>2, FS_Interval
    <3> QED
      BY <2>2, <3>1
  <2>4. ASSUME NEW x \in Transaction PROVE Delta(w, x) \in Int
    <3>1. x.amount \in Int
      BY AmountAssumption DEF Transaction
    <3> QED
      BY <3>1 DEF Delta
  <2>5. \A i \in D : f[i] \in Int
    <3>1. \A i \in D : transactions[i] \in Transaction
      BY <2>1
    <3> QED
      BY <2>4, <3>1 DEF Deltas
  <2>6. \A i \in D : e[i] = f[i]
    BY <2>2 DEF Deltas
  <2>7. e[n] = add
    BY <2>2 DEF Deltas
  <2>8. add \in Int /\ balance'[w] = balance[w] + add
    BY <1>2, CommitDelta
  <2>9. balance[w] = Total(f, D)
    BY <1>2 DEF BalanceInv
  <2>10. n \notin D /\ DOMAIN transactions' = D \cup {n}
    BY <2>2
  <2> HIDE DEF e, f, D, n, add
  <2>11. Total(e, D \cup {n}) = e[n] + Total(e, D)
    <3>1. (\A i \in D : e[i] \in Int) /\ e[n] \in Int
      BY <2>5, <2>6, <2>7, <2>8
    <3> QED
      BY <2>3, <2>10, <3>1, TotalJoin
  <2>12. Total(e, D) = Total(f, D) /\ Total(f, D) \in Int
    BY <2>3, <2>5, <2>6, TotalAgree, TotalType
  <2>13. balance'[w] = Total(e, D \cup {n})
    BY <2>7, <2>8, <2>9, <2>11, <2>12
  <2> QED
    BY <2>10, <2>13 DEF e
<1>3. ASSUME NEW h \in Handlers, pc[h] = "commit", Publish(h)
      PROVE  BalanceInv'
  BY <1>2, <1>3 DEF BalanceInv
<1> QED
  BY <1>1, <1>3, TableStep

\* A user is shown a transaction exactly when his wallet is a side of it: who initiates
\* one is on one of its sides.
LEMMA ShownToItsSides ==
    ASSUME RecordInv, NEW u \in Users, NEW id \in DOMAIN transactions
    PROVE  ForUser(u, transactions[id]) <=>
             WalletOf[u] \in {transactions[id].source, transactions[id].destination}
<1>1. PICK r \in Requests : transactions[id] = TransactionRow(r)
  BY DEF RecordInv
<1>2. WalletOf[r.user] \in {Source(r), Destination(r)}
  BY RequestFacts
<1>3. /\ transactions[id].user = r.user
      /\ transactions[id].source = Source(r)
      /\ transactions[id].destination = Destination(r)
  BY <1>1 DEF TransactionRow
<1> QED
  BY <1>2, <1>3 DEF ForUser

\* A wallet has at most one entry of a transaction, for ledgers go by rising ids.
LEMMA OneEntryEach ==
    ASSUME IsolationInv, JournalComplete, NEW w \in Wallets,
           NEW j \in DOMAIN ledger[w], NEW k \in DOMAIN ledger[w],
           ledger[w][j].txn = ledger[w][k].txn
    PROVE  j = k
<1>1. ledger[w] \in Seq(LedgerEntry)
  BY DEF IsolationInv, TypeOK
<1>2. j \in Nat /\ k \in Nat
  BY <1>1
<1>3. ledger[w][j] \in LedgerEntry
  BY <1>1
<1>4. ledger[w][j].txn \in Nat
  BY <1>3 DEF LedgerEntry
<1>5. /\ j < k => ledger[w][j].txn < ledger[w][k].txn
      /\ k < j => ledger[w][k].txn < ledger[w][j].txn
  BY DEF JournalComplete
<1> QED
  BY <1>2, <1>4, <1>5

\* Who is on a side of a transaction is shown one entry of it, the one of his side.
LEMMA EntryOfShown ==
    ASSUME IsolationInv, JournalComplete, NEW u \in Users,
           NEW id \in DOMAIN transactions,
           WalletOf[u] \in {transactions[id].source, transactions[id].destination}
    PROVE  \E e : /\ ListTransactionLedgers(u, id) = {e}
                  /\ e.amount = transactions[id].amount
                  /\ e.type = IF transactions[id].destination = WalletOf[u]
                              THEN "CREDIT" ELSE "DEBIT"
<1> DEFINE w == WalletOf[u]
           t == transactions[id]
           type == IF t.destination = w THEN "CREDIT" ELSE "DEBIT"
<1>1. w \in Wallets /\ w # None
  BY WalletAssumption, NoneAssumption
<1>2. HasEntry(w, id, type)
  BY <1>1 DEF JournalComplete
<1>3. PICK j \in DOMAIN ledger[w] : ledger[w][j].txn = id /\ ledger[w][j].type = type
  BY <1>2 DEF HasEntry
<1> DEFINE e == ledger[w][j]
<1>4. e.amount = t.amount
  BY <1>1, <1>3 DEF JournalComplete, EntryBelongs
<1>5. e \in ListTransactionLedgers(u, id)
  BY <1>3 DEF ListTransactionLedgers, EntriesForUser
<1>6. ASSUME NEW d \in ListTransactionLedgers(u, id) PROVE d = e
  <2>1. PICK k \in DOMAIN ledger[w] : d = ledger[w][k] /\ d.txn = id
    BY <1>6 DEF ListTransactionLedgers, EntriesForUser
  <2>2. k = j
    BY <1>1, <1>3, <2>1, OneEntryEach
  <2> QED
    BY <2>1, <2>2
<1>7. ListTransactionLedgers(u, id) = {e}
  <2> HIDE DEF e
  <2> QED
    BY <1>5, <1>6
<1> QED
  BY <1>3, <1>4, <1>7

\* Who is on neither side of a transaction is shown no entry of it.
LEMMA NoEntryOfOthers ==
    ASSUME IsolationInv, JournalComplete, NEW u \in Users,
           NEW id \in DOMAIN transactions,
           WalletOf[u] \notin {transactions[id].source, transactions[id].destination}
    PROVE  ListTransactionLedgers(u, id) = {}
<1>1. WalletOf[u] \in Wallets
  BY WalletAssumption
<1>2. ASSUME NEW e \in ListTransactionLedgers(u, id) PROVE FALSE
  <2>1. PICK k \in DOMAIN ledger[WalletOf[u]] : e = ledger[WalletOf[u]][k] /\ e.txn = id
    BY <1>2 DEF ListTransactionLedgers, EntriesForUser
  <2>2. EntryBelongs(WalletOf[u], e)
    BY <1>1, <2>1 DEF JournalComplete
  <2> QED
    BY <2>1, <2>2 DEF EntryBelongs
<1> QED
  BY <1>2

\* What a user's queries return for one transaction: the transaction and his entry of
\* it, which moved what the transaction says, or nothing.
LEMMA ReadsOfOne ==
    ASSUME IsolationInv, JournalComplete, RecordInv, NEW u \in Users,
           NEW id \in DOMAIN transactions
    PROVE  LET found == GetMyTransaction(u, id)
               es == ListTransactionLedgers(u, id)
               e == CHOOSE e \in es : TRUE
           IN  /\ Cardinality(found) = Cardinality(es)
               /\ \A t \in found, x \in es :
                    /\ x.amount = t.amount
                    /\ x.type = IF t.destination = WalletOf[u] THEN "CREDIT" ELSE "DEBIT"
               /\ (IF found = {} THEN 0
                   ELSE IF e.type = "CREDIT" THEN e.amount ELSE -e.amount)
                  = Delta(WalletOf[u], transactions[id])
<1> DEFINE found == GetMyTransaction(u, id)
           es == ListTransactionLedgers(u, id)
           w == WalletOf[u]
           t == transactions[id]
<1>1. ForUser(u, t) <=> w \in {t.source, t.destination}
  BY ShownToItsSides
<1>2. found = IF ForUser(u, t) THEN {t} ELSE {}
  BY DEF GetMyTransaction
<1>3. CASE w \in {t.source, t.destination}
  <2>1. PICK e : /\ es = {e} /\ e.amount = t.amount
                 /\ e.type = IF t.destination = w THEN "CREDIT" ELSE "DEBIT"
    BY <1>3, EntryOfShown
  <2>2. found = {t}
    BY <1>1, <1>2, <1>3
  <2>3. Cardinality({t}) = 1 /\ Cardinality({e}) = 1
    BY FS_Singleton
  <2>4. (CHOOSE x \in es : TRUE) = e
    BY <2>1
  <2>5. (IF e.type = "CREDIT" THEN e.amount ELSE -e.amount) = Delta(w, t)
    BY <1>3, <2>1 DEF Delta
  <2> HIDE DEF found, es, t, w
  <2>6. /\ Cardinality(found) = Cardinality(es)
        /\ found # {}
        /\ \A y \in found, x \in es :
             /\ x.amount = y.amount
             /\ x.type = IF y.destination = w THEN "CREDIT" ELSE "DEBIT"
    BY <2>1, <2>2, <2>3
  <2> QED
    BY <2>4, <2>5, <2>6 DEF found, es, t, w
<1>4. CASE w \notin {t.source, t.destination}
  <2>1. es = {} /\ found = {}
    BY <1>1, <1>2, <1>4, NoEntryOfOthers
  <2>2. Delta(w, t) = 0
    BY <1>4 DEF Delta
  <2> QED
    BY <2>1, <2>2
<1> QED
  BY <1>3, <1>4

\* In every reachable state what a user reads fits together: his balance, the
\* transactions he is shown, his entries of them and the answers he is given.
THEOREM ReadsFit == Spec => []ReadsAgree
<1>1. Init => BalanceInv
  <2> SUFFICES ASSUME Init, NEW w \in Wallets
               PROVE  balance[w] = Total(Deltas(w), DOMAIN transactions)
    BY DEF BalanceInv
  <2>1. balance = [v \in Wallets |-> 0] /\ DOMAIN transactions = {}
    BY DEF Init, NoRows
  <2>2. Total(Deltas(w), {}) = 0
    BY TotalEmpty
  <2> QED
    BY <2>1, <2>2
<1>2. ASSUME IsolationInv, JournalComplete, RecordInv, AnswerInv, BalanceInv
      PROVE  ReadsAgree
  <2> SUFFICES ASSUME NEW u \in Users
               PROVE  LET ids == 1 .. Len(transactions)
                          shown == {id \in ids : GetMyTransaction(u, id) # {}}
                          moved == [id \in ids |->
                              IF id \notin shown THEN 0
                              ELSE LET e == CHOOSE e \in ListTransactionLedgers(u, id) : TRUE
                                   IN  IF e.type = "CREDIT" THEN e.amount ELSE -e.amount]
                      IN
                      /\ \A id \in ids :
                           LET found == GetMyTransaction(u, id)
                               es == ListTransactionLedgers(u, id)
                           IN  /\ Cardinality(found) = Cardinality(es)
                               /\ \A t \in found, e \in es :
                                    /\ e.amount = t.amount
                                    /\ e.type = IF t.destination = WalletOf[u]
                                                THEN "CREDIT" ELSE "DEBIT"
                      /\ GetMyBalance(u) = Total(moved, ids)
                      /\ \A h \in Handlers :
                           pc[h] = "answered" /\ reply[h].status = 200 /\ req[h].user = u =>
                              reply[h].body.txn \in shown
    BY DEF ReadsAgree
  <2> DEFINE ids == 1 .. Len(transactions)
             shown == {id \in ids : GetMyTransaction(u, id) # {}}
             moved == [id \in ids |->
               IF id \notin shown THEN 0
               ELSE LET e == CHOOSE e \in ListTransactionLedgers(u, id) : TRUE
                    IN  IF e.type = "CREDIT" THEN e.amount ELSE -e.amount]
             w == WalletOf[u]
  <2>1. ids = DOMAIN transactions /\ Len(transactions) \in Nat /\ w \in Wallets
    <3>1. transactions \in Seq(Transaction)
      BY <1>2 DEF IsolationInv, TypeOK
    <3> QED
      BY <3>1, WalletAssumption
  <2>2. ASSUME NEW id \in ids
        PROVE  /\ Cardinality(GetMyTransaction(u, id))
                    = Cardinality(ListTransactionLedgers(u, id))
               /\ \A t \in GetMyTransaction(u, id), e \in ListTransactionLedgers(u, id) :
                    /\ e.amount = t.amount
                    /\ e.type = IF t.destination = WalletOf[u] THEN "CREDIT" ELSE "DEBIT"
    BY <1>2, <2>1, ReadsOfOne
  <2>3. ASSUME NEW id \in ids PROVE moved[id] = Deltas(w)[id]
    <3>1. moved[id] = IF GetMyTransaction(u, id) = {} THEN 0
                      ELSE LET e == CHOOSE e \in ListTransactionLedgers(u, id) : TRUE
                           IN  IF e.type = "CREDIT" THEN e.amount ELSE -e.amount
      OBVIOUS
    <3>2. moved[id] = Delta(w, transactions[id])
      BY <1>2, <2>1, <3>1, ReadsOfOne
    <3> QED
      BY <2>1, <3>2 DEF Deltas
  <2>4. GetMyBalance(u) = Total(moved, ids)
    <3>1. IsFiniteSet(ids)
      BY <2>1, FS_Interval
    <3>2. \A id \in ids : moved[id] = Deltas(w)[id]
      BY <2>3
    <3>3. GetMyBalance(u) = Total(Deltas(w), ids)
      BY <1>2, <2>1 DEF BalanceInv, GetMyBalance
    <3> HIDE DEF moved, ids
    <3> QED
      BY <3>1, <3>2, <3>3, TotalAgree
  <2>5. ASSUME NEW h \in Handlers, reply[h].status = 200, req[h].user = u
        PROVE  reply[h].body.txn \in shown
    <3> DEFINE id == reply[h].body.txn
    <3>1. id \in DOMAIN transactions /\ transactions[id] = TransactionRow(req[h])
      BY <1>2, <2>5 DEF AnswerInv, Shows
    <3>2. ForUser(u, transactions[id])
      BY <2>5, <3>1 DEF ForUser, TransactionRow
    <3>3. transactions[id] \in GetMyTransaction(u, id)
      BY <3>1, <3>2 DEF GetMyTransaction
    <3> QED
      BY <2>1, <3>1, <3>3
  <2> HIDE DEF moved
  <2> QED
    BY <2>2, <2>4, <2>5 DEF moved
<1> QED
  BY <1>1, <1>2, Isolation, Journal, AnswersInduct, BalanceStep, PTL DEF Spec

-----------------------------------------------------------------------------
(* Nobody waits in a circle.                                               *)

\* LockByIDs has taken its lower ids first.
LockOrder ==
    \A h \in Handlers : pc[h] = "lock" =>
        \A w \in Needed(req[h]), v \in ToLock(h) : lock[w] = h => w < v

\* The wallets of the requests that run are bounded, for there are finitely many.
WalletsBounded ==
    \E b \in Nat : \A h \in Handlers : pc[h] # "idle" =>
        \A w \in Needed(req[h]) : w <= b

\* A handler comes to LockByIDs from the lookup, or goes on in it.
LEMMA ToTheLock ==
    ASSUME IsolationInv, NEW h \in Handlers, Action(h), pc'[h] = "lock"
    PROVE  \/ pc[h] = "lookup" /\ req'[h] = req[h] /\ lock' = lock
           \/ LockWallet(h)
<1>0. pc \in [Handlers -> Places]
  BY DEF IsolationInv, TypeOK
<1>1. ASSUME NEW place, Goto(h, place) PROVE place = "lock"
  BY <1>0, <1>1 DEF Goto
<1>2. ~Existing(h) /\ ~Reserve(h) /\ ~Enqueue(h)
  BY <1>1 DEF Existing, Reserve, Enqueue
<1>3. ~Commit(h) /\ ~CommitUnacknowledged(h) /\ ~Return(h) /\ ~TopUpCheck(h)
  BY <1>1 DEF Commit, CommitUnacknowledged, Return, TopUpCheck
<1>4. \A status : ~Rollback(h, status)
  BY <1>1 DEF Rollback
<1>5. /\ ~UpdateDestination(h) /\ ~CreateTransaction(h) /\ ~CreateEntries(h)
      /\ ~CreateAudit(h) /\ ~MarkCompleted(h) /\ ~UpdateSource(h)
  BY <1>1, <1>4 DEF UpdateDestination, CreateTransaction, CreateEntries, CreateAudit,
                    MarkCompleted, UpdateSource, Execute
<1>6. ~CreateDelivery(h) /\ ~TransferCheck(h) /\ ~Fail(h)
  BY <1>1, <1>4 DEF CreateDelivery, Execute, TransferCheck, Fail
<1>7. ~ReceiveTopUp(h) /\ ~ReceiveTransfer(h)
  BY <1>1 DEF ReceiveTopUp, ReceiveTransfer, Receive
<1>8. CASE TopUpLookup(h) \/ TransferLookup(h)
  BY <1>4, <1>8 DEF TopUpLookup, TransferLookup, sessions
<1> QED
  BY <1>2, <1>3, <1>5, <1>6, <1>7, <1>8 DEF Action, Steps

\* A running handler keeps its request, or has just received one.
LEMMA RequestKept ==
    ASSUME IsolationInv, NEW h \in Handlers, Action(h), pc'[h] # "idle"
    PROVE  \/ pc[h] # "idle" /\ req'[h] = req[h]
           \/ req'[h] \in Requests
<1>0. /\ pc \in [Handlers -> Places] /\ req \in [Handlers -> Requests \cup {None}]
  BY DEF IsolationInv, TypeOK
<1>1. CASE ReceiveTopUp(h) \/ ReceiveTransfer(h)
  BY <1>0, <1>1 DEF ReceiveTopUp, ReceiveTransfer, Receive, Requests
<1>2. ~Return(h)
  BY <1>0 DEF Return, Goto
<1>3. ASSUME Steps(h), pc[h] # "idle" PROVE req' = req
  BY <1>3 DEF Steps, Reserve, Existing, LockWallet, CreateTransaction,
       UpdateDestination, CreateEntries, CreateAudit, CreateDelivery, MarkCompleted,
       Execute, Rollback, Commit, Enqueue
<1>4. CASE TopUpLookup(h) \/ TopUpCheck(h) \/ TransferLookup(h) \/ TransferCheck(h)
           \/ UpdateSource(h)
  BY <1>4 DEF TopUpLookup, TopUpCheck, TransferLookup, TransferCheck, UpdateSource,
       Execute, Rollback
<1>5. CASE CommitUnacknowledged(h) \/ Fail(h)
  BY <1>5 DEF CommitUnacknowledged, Fail, Rollback, InTx, Reserved, Locked, Prepared
<1> QED
  BY <1>1, <1>2, <1>3, <1>4, <1>5 DEF Action

\* LockByIDs keeps to the order of the ids: it takes the lowest it does not have.
LEMMA LockOrderStep ==
    ASSUME IsolationInv, LockOrder, [Next]_vars
    PROVE  LockOrder'
<1>0. /\ TypeOK /\ RequestInv /\ LockInv
  BY DEF IsolationInv
<1> DEFINE Ordered(g) == \A w \in Needed(req'[g]) :
             \A v \in {u \in Needed(req'[g]) : lock'[u] # g} : lock'[w] = g => w < v
<1>1. ASSUME NEW g \in Handlers, pc'[g] = "lock", Untouched(g)
      PROVE  Ordered(g)
  <2>1. Needed(req[g]) \subseteq Wallets
    BY DEF Needed
  <2> QED
    BY <1>1, <2>1 DEF Untouched, LockOrder, ToLock
<1>2. ASSUME NEW h \in Handlers, Action(h), pc'[h] = "lock"
      PROVE  Ordered(h)
  <2>1. CASE pc[h] = "lookup" /\ req'[h] = req[h] /\ lock' = lock
    <3>1. \A w \in Wallets : lock[w] # h
      BY <1>0, <2>1 DEF LockInv, Locked, Prepared
    <3>2. Needed(req[h]) \subseteq Wallets
      BY DEF Needed
    <3> QED
      BY <2>1, <3>1, <3>2
  <2>2. CASE LockWallet(h)
    <3>1. pc[h] = "lock" /\ req' = req
      BY <2>2 DEF LockWallet
    <3>2. PICK x \in NextLock(h) : lock' = [lock EXCEPT ![x] = h]
      BY <2>2 DEF LockWallet
    <3>3. /\ Needed(req[h]) \subseteq Wallets /\ Wallets \subseteq Nat
          /\ lock \in [Wallets -> Handlers \cup {None}]
      BY <1>0, WalletAssumption DEF Needed, TypeOK
    <3>4. /\ x \in Needed(req[h]) /\ lock[x] # h
          /\ \A v \in Needed(req[h]) : lock[v] # h => x <= v
      BY <3>2 DEF NextLock, ToLock
    <3>5. ASSUME NEW w \in Needed(req[h]), NEW v \in Needed(req[h]),
                 lock'[v] # h, lock'[w] = h
          PROVE  w < v
      <4>1. lock[v] # h /\ v # x
        BY <3>2, <3>3, <3>4, <3>5
      <4>2. CASE w = x
        <5>1. x \in Nat /\ v \in Nat /\ x <= v
          BY <3>3, <3>4, <4>1
        <5> QED
          BY <4>1, <4>2, <5>1
      <4>3. CASE w # x
        <5>1. lock[w] = h
          BY <3>2, <3>3, <3>5, <4>3
        <5> QED
          BY <3>1, <4>1, <5>1 DEF LockOrder, ToLock
      <4> QED
        BY <4>2, <4>3
    <3> QED
      BY <3>1, <3>5
  <2> QED
    BY <1>2, <2>1, <2>2, ToTheLock
<1>3. ASSUME NEW h \in Handlers, Action(h), NEW g \in Handlers, pc'[g] = "lock"
      PROVE  Ordered(g)
  <2> HIDE DEF Ordered
  <2> QED
    BY <1>0, <1>1, <1>2, <1>3, OthersUntouched
<1>4. ASSUME Dequeue \/ UNCHANGED vars, NEW g \in Handlers, pc'[g] = "lock"
      PROVE  Ordered(g)
  <2>1. Untouched(g)
    BY <1>4 DEF Dequeue, vars, process, sessions, Untouched
  <2> QED
    BY <1>1, <1>4, <2>1
<1>5. ASSUME Crash, NEW g \in Handlers PROVE pc'[g] # "lock"
  BY <1>5 DEF Crash
<1>6. \A g \in Handlers : pc'[g] = "lock" => Ordered(g)
  <2> HIDE DEF Ordered
  <2> QED
    BY <1>3, <1>4, <1>5, StepKinds
<1> QED
  BY <1>6 DEF LockOrder, ToLock, Needed

\* The wallets of the running requests stay bounded: a step adds one request.
LEMMA WalletsBoundedStep ==
    ASSUME IsolationInv, WalletsBounded, [Next]_vars
    PROVE  WalletsBounded'
<1>0. TypeOK
  BY DEF IsolationInv
<1>1. PICK b \in Nat : \A h \in Handlers : pc[h] # "idle" =>
        \A w \in Needed(req[h]) : w <= b
  BY DEF WalletsBounded
<1>2. ASSUME NEW h \in Handlers, Action(h)
      PROVE  \E c \in Nat : \A g \in Handlers : pc'[g] # "idle" =>
               \A w \in Needed(req'[g]) : w <= c
  <2>1. PICK c \in Nat : /\ b <= c
                         /\ pc'[h] # "idle" => \A w \in Needed(req'[h]) : w <= c
    <3>1. CASE pc'[h] # "idle" /\ req'[h] \in Requests
      <4> DEFINE r == req'[h]
                 x == WalletOf[r.user]
                 y == IF Destination(r) \in Wallets THEN Destination(r) ELSE 0
      <4>1. x \in Nat /\ y \in Nat
        BY <3>1, RequestFacts, WalletAssumption
      <4>2. \A w \in Needed(r) : w = x \/ w = y
        BY DEF Needed
      <4> HIDE DEF x, y
      <4>3. b + x + y \in Nat /\ b <= b + x + y /\ x <= b + x + y /\ y <= b + x + y
        BY <4>1
      <4> QED
        BY <4>2, <4>3
    <3>2. CASE pc'[h] # "idle" /\ pc[h] # "idle" /\ req'[h] = req[h]
      BY <1>1, <3>2
    <3>3. CASE pc'[h] = "idle"
      BY <3>3
    <3> QED
      BY <1>2, <3>1, <3>2, <3>3, RequestKept
  <2>2. ASSUME NEW g \in Handlers, pc'[g] # "idle", NEW w \in Needed(req'[g])
        PROVE  w <= c
    <3>1. CASE g = h
      BY <2>1, <2>2, <3>1
    <3>2. CASE g # h
      <4>1. pc'[g] = pc[g] /\ req'[g] = req[g]
        BY <1>0, <1>2, <3>2, OthersUntouched DEF Untouched
      <4>2. w <= b /\ w \in Nat
        BY <1>1, <2>2, <4>1, WalletAssumption DEF Needed
      <4> QED
        BY <2>1, <4>2
    <3> QED
      BY <3>1, <3>2
  <2> QED
    BY <2>2
<1>3. CASE Dequeue \/ UNCHANGED vars
  BY <1>1, <1>3 DEF Dequeue, vars, process, WalletsBounded, Needed
<1>4. CASE Crash
  BY <1>4 DEF Crash, WalletsBounded
<1> QED
  BY <1>2, <1>3, <1>4, StepKinds DEF WalletsBounded, Needed

\* A set whose members all wait for each other would need ever higher wallets.
LEMMA NoCircle ==
    ASSUME IsolationInv, LockOrder, WalletsBounded
    PROVE  NoDeadlock
<1> SUFFICES ASSUME NEW S \in SUBSET Handlers, S # {},
                    \A h \in S : \E g \in S : WaitsFor(h, g)
             PROVE  FALSE
  BY DEF NoDeadlock
<1>0. RequestInv /\ ReservationInv /\ LockInv
  BY DEF IsolationInv
\* The wallets of S that a member of S waits for.
<1> DEFINE T == {w \in Wallets : \E h \in S : /\ pc[h] = "lock" /\ w \in NextLock(h)
                                              /\ lock[w] \in S}
<1>1. ASSUME NEW h \in S, pc[h] \notin {"reserve", "lock"} PROVE FALSE
  BY <1>1 DEF WaitsFor
<1>2. ASSUME NEW h \in S, pc[h] = "lock"
      PROVE  \E w \in NextLock(h) : w \in T
  BY <1>2 DEF WaitsFor, NextLock, ToLock, Needed
<1>3. \E h \in S : pc[h] = "lock"
  <2>1. PICK h \in S : TRUE
    OBVIOUS
  <2>2. CASE pc[h] = "reserve"
    <3>1. PICK g \in S : owner[Slot(req[h])] = g
      BY <2>2 DEF WaitsFor
    <3>2. Slot(req[h]) \in Slots
      BY <1>0, <2>2, RequestFacts DEF RequestInv
    <3>3. pc[g] \in Reserved
      BY <1>0, <3>1, <3>2 DEF ReservationInv
    <3> QED
      BY <1>1, <3>3 DEF Reserved, Locked, Prepared
  <2> QED
    BY <1>1, <2>2
<1>4. T # {}
  <2> HIDE DEF T
  <2> QED
    BY <1>2, <1>3
<1>5. T \in SUBSET Nat
  BY WalletAssumption
<1>6. PICK b \in Nat : \A t \in T : t <= b
  <2>1. PICK b \in Nat : \A h \in Handlers : pc[h] # "idle" =>
          \A w \in Needed(req[h]) : w <= b
    BY DEF WalletsBounded
  <2>2. ASSUME NEW t \in T PROVE t <= b
    BY <2>1 DEF NextLock, ToLock
  <2> QED
    BY <2>2
<1>7. PICK m \in T : \A t \in T : t <= m
  <2> HIDE DEF T
  <2> QED
    BY <1>4, <1>5, <1>6, GreatestNatural
<1>8. PICK g \in S : lock[m] = g
  BY DEF T
<1>9. pc[g] = "lock" /\ m \in Needed(req[g])
  BY <1>0, <1>1, <1>8 DEF LockInv, Locked, Prepared
<1>10. PICK v \in NextLock(g) : v \in T
  BY <1>2, <1>9
<1>11. m < v
  BY <1>8, <1>9, <1>10 DEF LockOrder, NextLock
<1> QED
  BY <1>5, <1>7, <1>10, <1>11

\* In no reachable state do some handlers wait for each other's keys and wallets.
THEOREM DeadlockFree == Spec => []NoDeadlock
<1>1. Init => LockOrder /\ WalletsBounded
  BY DEF Init, LockOrder, WalletsBounded
<1> QED
  BY <1>1, Isolation, LockOrderStep, WalletsBoundedStep, NoCircle, PTL DEF Spec

-----------------------------------------------------------------------------
(* The worker is fed.                                                      *)

\* Handlers on the way to Enqueue have a 200 each, and an id of their own.
HandingInv ==
    \A h \in Handlers : pc[h] = "enqueue" =>
        /\ reply[h].status = 200
        /\ \A g \in Handlers :
             pc[g] = "enqueue" /\ reply[g].body.txn = reply[h].body.txn => g = h

\* A handler comes to Enqueue from the commit of a delivery, and leaves it in one step;
\* whatever else it does concerns neither the deliveries nor the channel.
LEMMA ToEnqueue ==
    ASSUME IsolationInv, NEW h \in Handlers, Action(h)
    PROVE  \/ /\ pc[h] # "enqueue" /\ pc'[h] # "enqueue"
              /\ UNCHANGED <<deliveries, queue>>
           \/ Commit(h) \/ CommitUnacknowledged(h)
           \/ Enqueue(h)
<1> DEFINE Apart == /\ pc[h] # "enqueue" /\ pc'[h] # "enqueue"
                    /\ UNCHANGED <<deliveries, queue>>
<1> USE DEF Goto, tables
<1>0. pc \in [Handlers -> Places]
  BY DEF IsolationInv, TypeOK
<1>1. ASSUME NEW status, Rollback(h, status), pc[h] \in InTx PROVE Apart
  BY <1>0, <1>1 DEF Rollback, InTx, Reserved, Locked, Prepared
<1>2. ASSUME NEW place \in InTx, NEW statement, NEW next \in InTx,
             Execute(h, place, statement, next)
      PROVE  Apart
  BY <1>0, <1>2 DEF Execute, InTx, Reserved, Locked, Prepared
<1>3. CASE ReceiveTopUp(h) \/ ReceiveTransfer(h)
  BY <1>0, <1>3 DEF ReceiveTopUp, ReceiveTransfer, Receive
<1>4. CASE Reserve(h) \/ LockWallet(h) \/ TopUpLookup(h) \/ TopUpCheck(h)
  BY <1>0, <1>4 DEF Reserve, LockWallet, TopUpLookup, TopUpCheck
<1>5. CASE Existing(h) \/ Return(h)
  BY <1>0, <1>5 DEF Existing, Return
<1>6. CASE CreateTransaction(h) \/ CreateEntries(h) \/ CreateAudit(h) \/ MarkCompleted(h)
           \/ UpdateSource(h)
  BY <1>2, <1>6 DEF CreateTransaction, CreateEntries, CreateAudit, MarkCompleted,
                    UpdateSource, InTx, Reserved, Locked, Prepared
<1>7. CASE UpdateDestination(h)
  BY <1>1, <1>2, <1>7 DEF UpdateDestination, InTx, Reserved, Locked, Prepared
<1>8. CASE CreateDelivery(h)
  <2>1. CASE WebhookEnabled
    BY <1>2, <1>8, <2>1 DEF CreateDelivery, InTx, Reserved, Locked, Prepared
  <2>2. CASE ~WebhookEnabled
    BY <1>0, <1>8, <2>2 DEF CreateDelivery
  <2> QED
    BY <2>1, <2>2
<1>9. CASE TransferLookup(h)
  BY <1>0, <1>1, <1>9 DEF TransferLookup, InTx, Reserved
<1>10. CASE TransferCheck(h)
  BY <1>0, <1>1, <1>10 DEF TransferCheck, InTx, Reserved, Locked
<1>11. CASE Fail(h)
  BY <1>1, <1>11 DEF Fail
<1>12. CASE pc[h] # "idle" /\ Steps(h)
  BY <1>4, <1>5, <1>6, <1>7, <1>8, <1>12 DEF Steps
<1> QED
  BY <1>3, <1>4, <1>5, <1>6, <1>9, <1>10, <1>11, <1>12 DEF Action

\* What a commit does to the feed: with webhooks on, the next row, which only an
\* acknowledged commit hands over.
LEMMA CommitFeeds ==
    ASSUME IsolationInv, JournalComplete, NEW h \in Handlers,
           Commit(h) \/ CommitUnacknowledged(h)
    PROVE  /\ pc[h] # "enqueue" /\ UNCHANGED queue
           /\ WebhookEnabled => Len(deliveries') = Len(deliveries) + 1
           /\ ~WebhookEnabled => Len(deliveries') = Len(deliveries)
           /\ pc'[h] = "enqueue" =>
                /\ WebhookEnabled
                /\ reply'[h].status = 200
                /\ reply'[h].body.txn = Len(deliveries) + 1
                /\ reply'[h].body.txn = Len(transactions) + 1
<1>0. /\ pc \in [Handlers -> Places] /\ deliveries \in Seq(Nat)
      /\ reply \in [Handlers -> [status : Nat, body : Body]]
  BY DEF IsolationInv, TypeOK
<1>1. pc[h] = "commit" /\ Publish(h) /\ UNCHANGED queue
  BY DEF Commit, CommitUnacknowledged
<1>2. /\ deliveries' = IF WebhookEnabled THEN Append(deliveries, NextId) ELSE deliveries
      /\ NextId \in Nat
  BY <1>1, PublishEffect, CommitEntryTypes
<1>3. "delivery" \in staged[h] <=> WebhookEnabled
  BY <1>1, CommitFacts
<1>4. ASSUME pc'[h] = "enqueue"
      PROVE  /\ WebhookEnabled
             /\ reply'[h] = [status |-> 200, body |-> ResponseBody(h, NextId)]
  BY <1>0, <1>3, <1>4 DEF Commit, CommitUnacknowledged, Goto, Answer
<1>5. ResponseBody(h, NextId).txn = Len(transactions) + 1
  BY DEF ResponseBody, NextId
<1>6. WebhookEnabled => Len(deliveries) = Len(transactions)
  BY DEF JournalComplete
<1>7. /\ WebhookEnabled => Len(deliveries') = Len(deliveries) + 1
      /\ ~WebhookEnabled => Len(deliveries') = Len(deliveries)
  BY <1>0, <1>2, AppendFacts
<1> QED
  BY <1>1, <1>4, <1>5, <1>6, <1>7

\* The ids on the way to Enqueue stay distinct: a new one is greater than all others.
LEMMA HandingStep ==
    ASSUME IsolationInv, JournalComplete, AnswerInv, HandingInv, [Next]_vars
    PROVE  HandingInv'
<1>0. /\ TypeOK /\ transactions \in Seq(Transaction)
  BY DEF IsolationInv, TypeOK
<1>1. ASSUME NEW g \in Handlers, pc[g] = "enqueue"
      PROVE  reply[g].body.txn \in Nat /\ reply[g].body.txn <= Len(transactions)
  <2>1. reply[g].body.txn \in DOMAIN transactions
    BY <1>1 DEF HandingInv, AnswerInv, Shows
  <2> QED
    BY <1>0, <2>1
<1>2. ASSUME NEW h \in Handlers, Action(h)
      PROVE  HandingInv'
  <2>1. \A g \in Handlers : g # h => pc'[g] = pc[g] /\ reply'[g] = reply[g]
    BY <1>0, <1>2, OthersUntouched DEF Untouched
  <2>2. CASE pc'[h] # "enqueue"
    BY <2>1, <2>2 DEF HandingInv
  <2>3. CASE pc'[h] = "enqueue"
    <3>1. Commit(h) \/ CommitUnacknowledged(h)
      <4>1. ~Enqueue(h)
        BY <1>0, <2>3 DEF Enqueue, Goto, TypeOK
      <4> QED
        BY <1>2, <2>3, <4>1, ToEnqueue
    <3>2. reply'[h].status = 200 /\ reply'[h].body.txn = Len(transactions) + 1
      BY <2>3, <3>1, CommitFeeds
    <3>3. ASSUME NEW g \in Handlers, g # h, pc'[g] = "enqueue"
          PROVE  reply'[g].body.txn # reply'[h].body.txn
      <4>1. reply[g].body.txn \in Nat /\ reply[g].body.txn <= Len(transactions)
        BY <1>1, <2>1, <3>3
      <4>2. Len(transactions) \in Nat
        BY <1>0
      <4> QED
        BY <2>1, <3>2, <3>3, <4>1, <4>2
    <3> QED
      BY <2>1, <3>2, <3>3 DEF HandingInv
  <2> QED
    BY <2>2, <2>3
<1>3. CASE Dequeue \/ UNCHANGED vars
  BY <1>3 DEF Dequeue, vars, process, HandingInv
<1>4. CASE Crash
  BY <1>4 DEF Crash, HandingInv
<1> QED
  BY <1>2, <1>3, <1>4, StepKinds

\* A step is a step of WebhookFeed or leaves its variables unchanged.
LEMMA FeedStep ==
    ASSUME IsolationInv, JournalComplete, AnswerInv, HandingInv, [Next]_vars
    PROVE  [Feed!Next]_(Feed!feed)
<1>0. TypeOK
  BY DEF IsolationInv
<1> DEFINE rows == Len(deliveries)
<1>1. ASSUME NEW h \in Handlers, Action(h)
      PROVE  [Feed!Next]_(Feed!feed)
  <2>1. \A g \in Handlers : g # h => pc'[g] = pc[g] /\ reply'[g] = reply[g]
    BY <1>0, <1>1, OthersUntouched DEF Untouched
  <2>2. ASSUME pc[h] # "enqueue", pc'[h] # "enqueue" PROVE Handing' = Handing
    BY <2>1, <2>2 DEF Handing
  <2>3. ASSUME pc[h] # "enqueue", pc'[h] = "enqueue"
        PROVE  Handing' = Handing \cup {reply'[h].body.txn}
    BY <2>1, <2>3 DEF Handing
  <2>4. CASE /\ pc[h] # "enqueue" /\ pc'[h] # "enqueue"
             /\ UNCHANGED <<deliveries, queue>>
    BY <2>2, <2>4 DEF Feed!feed
  <2>5. CASE Commit(h) \/ CommitUnacknowledged(h)
    <3>1. /\ pc[h] # "enqueue" /\ UNCHANGED queue
          /\ WebhookEnabled => rows' = rows + 1
          /\ ~WebhookEnabled => rows' = rows
          /\ pc'[h] = "enqueue" => WebhookEnabled /\ reply'[h].body.txn = rows + 1
      BY <2>5, CommitFeeds
    <3>2. CASE WebhookEnabled
      <4>1. Handing' \in {Handing, Handing \cup {rows + 1}}
        BY <2>2, <2>3, <3>1
      <4> QED
        BY <3>1, <3>2, <4>1 DEF Feed!Next, Feed!CommitRow
    <3>3. CASE ~WebhookEnabled
      BY <2>2, <3>1, <3>3 DEF Feed!feed
    <3> QED
      BY <3>2, <3>3
  <2>6. CASE Enqueue(h)
    <3> DEFINE d == reply[h].body.txn
    <3>1. /\ pc[h] = "enqueue" /\ pc'[h] = "answered"
          /\ queue' = IF Len(queue) < QueueSize THEN Append(queue, d) ELSE queue
          /\ UNCHANGED <<deliveries, reply>>
      BY <1>0, <2>6 DEF Enqueue, Goto, TypeOK, tables
    <3>2. d \in Handing
      BY <3>1 DEF Handing
    <3>3. Handing' = Handing \ {d}
      <4>1. \A g \in Handlers : pc'[g] = "enqueue" <=> pc[g] = "enqueue" /\ g # h
        BY <2>1, <3>1
      <4>2. \A g \in Handlers : pc[g] = "enqueue" /\ reply[g].body.txn = d => g = h
        BY <3>1 DEF HandingInv
      <4> QED
        BY <3>1, <4>1, <4>2 DEF Handing
    <3> HIDE DEF d
    <3>4. Feed!Hand
      BY <3>1, <3>2, <3>3 DEF Feed!Hand
    <3> QED
      BY <3>4 DEF Feed!Next
  <2> QED
    BY <1>1, <2>4, <2>5, <2>6, ToEnqueue
<1>2. CASE Dequeue
  <2>1. Handing' = Handing /\ UNCHANGED deliveries
    BY <1>2 DEF Dequeue, Handing, tables
  <2> QED
    BY <1>2, <2>1 DEF Dequeue, Feed!Next, Feed!Take
<1>3. CASE Crash
  <2>1. Handing' = {} /\ queue' = <<>> /\ UNCHANGED deliveries
    BY <1>3 DEF Crash, Handing, tables
  <2> QED
    BY <2>1 DEF Feed!Next, Feed!Die
<1>4. CASE UNCHANGED vars
  BY <1>4 DEF vars, tables, process, Feed!feed, Handing
<1> QED
  BY <1>1, <1>2, <1>3, <1>4, StepKinds

\* The requests implement their side of WebhookFeed: an id is handed over after the
\* commit of its row, once at most, and nobody waits for room in the channel.
THEOREM WorkerFed == Spec => FeedsWorker
<1>1. Init => Feed!Init /\ HandingInv /\ RecordInv /\ AnswerInv
  <2>1. Init => Feed!Init
    BY DEF Init, Feed!Init, Handing
  <2> QED
    BY <2>1 DEF Init, HandingInv, RecordInv, AnswerInv, NoAnswer
<1> QED
  BY <1>1, Isolation, Idempotent, Journal, RecordStep, AnswerStep, HandingStep, FeedStep,
     PTL DEF Spec, FeedsWorker, Feed!Spec
=============================================================================
