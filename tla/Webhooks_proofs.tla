--------------------------- MODULE Webhooks_proofs ---------------------------
(***************************************************************************)
(* What the webhook table says, for any number of processes and of         *)
(* deliveries, any retry limit, interval and batch: statuses and attempts  *)
(* agree, a row says SUCCESS only if the target accepted it, and what      *)
(* workers undo by saving over each other is bounded.  With one process a  *)
(* settled row is final.                                                   *)
(***************************************************************************)
EXTENDS Webhooks, TLAPS

\* Where the worker has a copy of a row.
Holding == {"send", "record"}

\* A worker works with a copy of an open row that had an attempt left, and the answer it
\* is about to record was given.
CopyInv ==
    \A p \in Processes :
        /\ pc[p] \in Holding => copy[p].id \in Deliveries /\ copy[p].retry < MaxRetry
        /\ pc[p] = "record" /\ answer[p] => accepted[copy[p].id]

\* The inductive invariant of any number of workers.
WorkersInv ==
    /\ TypeOK
    /\ RetryBudget
    /\ SuccessWasAccepted
    /\ CopyInv

-----------------------------------------------------------------------------
(* The rows a worker saves.                                                *)

\* Backoffs are natural numbers that grow with the attempts.
LEMMA BackoffFacts ==
    ASSUME NEW n \in Nat
    PROVE  Interval * n \in Nat
  BY WebhookAssumption

\* A budgeted row: what RetryBudget says of one row.
Budgeted(r) ==
    /\ r \in Row
    /\ r.status \in {"NONE", "PENDING"} => r.retry = 0
    /\ r.status = "RETRYING" => r.retry \in 1 .. MaxRetry - 1
    /\ r.status = "FAILED" => r.retry = MaxRetry
    /\ r.status = "SUCCESS" => r.retry < MaxRetry
    /\ r.wait <= Interval * r.retry
    /\ r.wait > 0 => r.status = "RETRYING"

\* Type and budget of the table are those of its rows.
LEMMA TableFacts ==
    delivery \in [Deliveries -> Row] /\ RetryBudget
      <=> delivery \in [Deliveries -> Row] /\ \A d \in Deliveries : Budgeted(delivery[d])
  BY DEF RetryBudget, Budgeted

\* What is saved after an attempt is within the budget.
LEMMA SavedRows ==
    ASSUME NEW n \in 0 .. MaxRetry, n < MaxRetry
    PROVE  Budgeted(Delivered(n)) /\ Budgeted(MarkFailure(n))
<1>1. /\ n \in Nat /\ n + 1 \in Nat /\ n + 1 \in 0 .. MaxRetry /\ MaxRetry \in Nat
  BY WebhookAssumption
<1>2. /\ Interval * n \in Nat /\ Interval * (n + 1) \in Nat
  BY <1>1, BackoffFacts
<1>3. Budgeted(Delivered(n))
  BY <1>1, <1>2 DEF Delivered, Budgeted, Row, Statuses
<1>4. CASE n + 1 >= MaxRetry
  BY <1>1, <1>2, <1>3, <1>4 DEF MarkFailure, Budgeted, Row, Statuses
<1>5. CASE ~(n + 1 >= MaxRetry)
  <2>1. MarkFailure(n)
          = [status |-> "RETRYING", retry |-> n + 1, wait |-> Interval * (n + 1)]
    BY <1>5 DEF MarkFailure
  <2>2. n + 1 \in 1 .. MaxRetry - 1
    BY <1>1, <1>5
  <2> QED
    BY <1>1, <1>2, <1>3, <2>1, <2>2 DEF Budgeted, Row, Statuses
<1> QED
  BY <1>4, <1>5

\* Time leaves a row within the budget, and a settled row as it is.
LEMMA WaitingRows ==
    ASSUME NEW r, Budgeted(r)
    PROVE  LET s == [r EXCEPT !.wait = IF @ > 0 THEN @ - 1 ELSE 0] IN
           /\ Budgeted(s) /\ s.status = r.status /\ s.retry = r.retry
           /\ r.status \in Terminal => s = r
<1> DEFINE s == [r EXCEPT !.wait = IF @ > 0 THEN @ - 1 ELSE 0]
<1>1. /\ r \in Row /\ r.wait \in Nat /\ r.retry \in Nat
      /\ r = [status |-> r.status, retry |-> r.retry, wait |-> r.wait]
  BY WebhookAssumption DEF Budgeted, Row
<1>2. Interval * r.retry \in Nat
  BY <1>1, BackoffFacts
<1>3. s = [status |-> r.status, retry |-> r.retry,
           wait |-> IF r.wait > 0 THEN r.wait - 1 ELSE 0]
  BY <1>1
<1>4. (IF r.wait > 0 THEN r.wait - 1 ELSE 0) \in Nat
  BY <1>1
<1> HIDE DEF s
<1>5. s \in Row
  BY <1>1, <1>3, <1>4 DEF Row
<1>6. Budgeted(s)
  BY <1>1, <1>2, <1>3, <1>5 DEF Budgeted
<1>7. r.status \in Terminal => s = r
  BY <1>1, <1>3 DEF Budgeted, Terminal
<1> QED
  BY <1>3, <1>6, <1>7 DEF s

-----------------------------------------------------------------------------
(* The invariant, action by action.                                        *)

\* A step that changes no row and no copy, and takes no row to send.
LEMMA QuietStep ==
    ASSUME WorkersInv, TypeOK', UNCHANGED <<delivery, accepted>>,
           \A p \in Processes : pc'[p] \in Holding =>
               pc'[p] = pc[p] /\ copy'[p] = copy[p] /\ answer'[p] = answer[p]
    PROVE  WorkersInv'
<1>1. RetryBudget' /\ SuccessWasAccepted'
  BY DEF WorkersInv, RetryBudget, SuccessWasAccepted
<1>2. CopyInv'
  BY DEF WorkersInv, CopyInv, Holding
<1> QED
  BY <1>1, <1>2 DEF WorkersInv

\* The request side: a row is inserted, an id goes to the channel.
LEMMA RequestSide ==
    ASSUME WorkersInv, NEW p \in Processes, NEW d \in Deliveries,
           CreateDelivery(p, d) \/ Enqueue(p, d)
    PROVE  WorkersInv'
<1>0. TypeOK
  BY DEF WorkersInv
<1>1. CASE Enqueue(p, d)
  <2>1. queue' \in [Processes -> Seq(Deliveries)]
    BY <1>0, <1>1 DEF Enqueue, TypeOK
  <2>2. commits' \in [Processes -> SUBSET Deliveries]
    BY <1>0, <1>1 DEF Enqueue, TypeOK
  <2>3. TypeOK'
    BY <1>0, <1>1, <2>1, <2>2 DEF Enqueue, TypeOK
  <2> QED
    BY <1>1, <2>3, QuietStep DEF Enqueue
<1>2. CASE CreateDelivery(p, d)
  <2> DEFINE new == [delivery[d] EXCEPT !.status = "PENDING"]
  <2>1. delivery \in [Deliveries -> Row] /\ \A e \in Deliveries : Budgeted(delivery[e])
    BY <1>0, TableFacts DEF WorkersInv, TypeOK
  <2>2. Budgeted(new) /\ new.status = "PENDING"
    <3>1. /\ delivery[d].status = "NONE" /\ Budgeted(delivery[d])
          /\ delivery[d] \in Row
      BY <1>2, <2>1 DEF CreateDelivery
    <3>2. /\ new \in Row /\ new.retry = delivery[d].retry /\ new.wait = delivery[d].wait
          /\ new.status = "PENDING"
      BY <3>1 DEF Row, Statuses
    <3> HIDE DEF new
    <3> QED
      BY <3>1, <3>2 DEF Budgeted
  <2>3. delivery' = [delivery EXCEPT ![d] = new]
    BY <1>2 DEF CreateDelivery
  <2> HIDE DEF new
  <2>4. /\ delivery' \in [Deliveries -> Row]
        /\ \A e \in Deliveries : Budgeted(delivery'[e])
        /\ \A e \in Deliveries : delivery'[e].status = "SUCCESS"
             => delivery[e].status = "SUCCESS"
    BY <2>1, <2>2, <2>3 DEF Budgeted
  <2>5. commits' \in [Processes -> SUBSET Deliveries]
    <3>1. commits' = commits \/ commits' = [commits EXCEPT ![p] = @ \cup {d}]
      BY <1>2 DEF CreateDelivery
    <3>2. commits \in [Processes -> SUBSET Deliveries]
      BY <1>0 DEF TypeOK
    <3>3. [commits EXCEPT ![p] = @ \cup {d}] \in [Processes -> SUBSET Deliveries]
      BY <3>2
    <3> QED
      BY <3>1, <3>2, <3>3
  <2>6. TypeOK'
    BY <1>0, <1>2, <2>4, <2>5 DEF CreateDelivery, TypeOK
  <2>7. RetryBudget'
    BY <2>4 DEF RetryBudget, Budgeted
  <2>8. SuccessWasAccepted' /\ CopyInv'
    BY <1>2, <2>4 DEF CreateDelivery, WorkersInv, SuccessWasAccepted, CopyInv
  <2> QED
    BY <2>6, <2>7, <2>8 DEF WorkersInv
<1> QED
  BY <1>1, <1>2

\* ProcessDelivery is done with a row.
LEMMA FinishTypes ==
    ASSUME TypeOK, NEW p \in Processes, NEW d, Finish(p, d)
    PROVE  /\ todo' \in [Processes -> SUBSET Deliveries]
           /\ pc' \in [Processes -> {"select", "load", "send", "record"}]
           /\ copy' \in [Processes -> [id : Deliveries \cup {Nobody}, retry : 0 .. MaxRetry]]
           /\ answer' \in [Processes -> BOOLEAN]
           /\ pc'[p] \notin Holding
           /\ \A q \in Processes : q # p =>
                pc'[q] = pc[q] /\ copy'[q] = copy[q] /\ answer'[q] = answer[q]
<1>1. NoCopy \in [id : Deliveries \cup {Nobody}, retry : 0 .. MaxRetry]
  BY WebhookAssumption DEF NoCopy
<1> QED
  BY <1>1 DEF Finish, TypeOK, Holding

\* A step that ends with Finish and leaves the table alone.
LEMMA FinishStep ==
    ASSUME WorkersInv, NEW p \in Processes, NEW d, Finish(p, d),
           UNCHANGED <<delivery, accepted, commits, queue, tick, ticked, crashes>>
    PROVE  WorkersInv'
<1>0. TypeOK
  BY DEF WorkersInv
<1>1. /\ todo' \in [Processes -> SUBSET Deliveries]
      /\ pc' \in [Processes -> {"select", "load", "send", "record"}]
      /\ copy' \in [Processes -> [id : Deliveries \cup {Nobody}, retry : 0 .. MaxRetry]]
      /\ answer' \in [Processes -> BOOLEAN]
      /\ pc'[p] \notin Holding
      /\ \A q \in Processes : q # p =>
           pc'[q] = pc[q] /\ copy'[q] = copy[q] /\ answer'[q] = answer[q]
  BY <1>0, FinishTypes
<1>2. TypeOK'
  BY <1>0, <1>1 DEF TypeOK
<1> QED
  BY <1>1, <1>2, QuietStep

\* The select, and time.
LEMMA SelectStep ==
    ASSUME WorkersInv, NEW p \in Processes, TakeQueued(p) \/ TakeDue(p) \/ ScanFails(p)
    PROVE  WorkersInv'
<1>0. TypeOK
  BY DEF WorkersInv
<1>1. CASE TakeQueued(p)
  <2>1. /\ queue[p] \in Seq(Deliveries) /\ queue[p] # <<>>
        /\ Head(queue[p]) \in Deliveries /\ Tail(queue[p]) \in Seq(Deliveries)
    BY <1>0, <1>1 DEF TakeQueued, TypeOK
  <2>2. TypeOK'
    BY <1>0, <1>1, <2>1 DEF TakeQueued, TypeOK
  <2> QED
    BY <1>0, <1>1, <2>2, QuietStep DEF TakeQueued, TypeOK, Holding
<1>2. CASE TakeDue(p)
  <2>1. ListDue \subseteq Deliveries
    BY DEF ListDue, Due
  <2>2. TypeOK'
    BY <1>0, <1>2, <2>1 DEF TakeDue, TypeOK
  <2> QED
    BY <1>0, <1>2, <2>2, QuietStep DEF TakeDue, TypeOK, Holding
<1>3. CASE ScanFails(p)
  <2>1. TypeOK'
    BY <1>0, <1>3 DEF ScanFails, TypeOK
  <2> QED
    BY <1>3, <2>1, QuietStep DEF ScanFails
<1> QED
  BY <1>1, <1>2, <1>3

\* GetByID: the copy is of an open row, so an attempt is left.
LEMMA LoadStep ==
    ASSUME WorkersInv, NEW p \in Processes, Load(p)
    PROVE  WorkersInv'
<1>0. TypeOK
  BY DEF WorkersInv
<1>1. PICK d \in todo[p] :
        IF delivery[d].status \in Terminal
        THEN Finish(p, d)
        ELSE /\ copy' = [copy EXCEPT ![p] = [id |-> d, retry |-> delivery[d].retry]]
             /\ pc' = [pc EXCEPT ![p] = "send"]
             /\ UNCHANGED <<todo, answer>>
  BY DEF Load
<1>2. UNCHANGED <<delivery, accepted, commits, queue, tick, ticked, crashes>>
  BY DEF Load
<1>3. CASE delivery[d].status \in Terminal
  BY <1>1, <1>2, <1>3, FinishStep
<1>4. CASE delivery[d].status \notin Terminal
  <2>1. d \in Deliveries /\ delivery[d] \in Row
    BY <1>0 DEF TypeOK
  <2>2. delivery[d].retry \in 0 .. MaxRetry /\ delivery[d].retry < MaxRetry
    BY <1>4, <2>1, WebhookAssumption
       DEF WorkersInv, RetryBudget, Row, Statuses, Terminal
  <2>3. [id |-> d, retry |-> delivery[d].retry]
          \in [id : Deliveries \cup {Nobody}, retry : 0 .. MaxRetry]
    BY <2>1, <2>2
  <2>4. /\ copy' = [copy EXCEPT ![p] = [id |-> d, retry |-> delivery[d].retry]]
        /\ pc' = [pc EXCEPT ![p] = "send"]
        /\ UNCHANGED <<todo, answer>>
    BY <1>1, <1>4
  <2>5. TypeOK'
    <3>1. copy' \in [Processes -> [id : Deliveries \cup {Nobody}, retry : 0 .. MaxRetry]]
      BY <1>0, <2>3, <2>4 DEF TypeOK
    <3>2. pc' \in [Processes -> {"select", "load", "send", "record"}]
      BY <1>0, <2>4 DEF TypeOK
    <3> QED
      BY <1>0, <1>2, <2>4, <3>1, <3>2 DEF TypeOK
  <2>6. RetryBudget' /\ SuccessWasAccepted'
    BY <1>2 DEF WorkersInv, RetryBudget, SuccessWasAccepted
  <2>7. CopyInv'
    <3> SUFFICES ASSUME NEW q \in Processes
                 PROVE  /\ pc'[q] \in Holding =>
                             copy'[q].id \in Deliveries /\ copy'[q].retry < MaxRetry
                        /\ pc'[q] = "record" /\ answer'[q] => accepted'[copy'[q].id]
      BY DEF CopyInv
    <3>1. CASE q = p
      BY <1>0, <2>1, <2>2, <2>4, <3>1 DEF TypeOK
    <3>2. CASE q # p
      <4>1. /\ pc'[q] = pc[q] /\ copy'[q] = copy[q] /\ answer'[q] = answer[q]
            /\ accepted' = accepted
        BY <1>0, <1>2, <2>4, <3>2 DEF TypeOK
      <4> QED
        BY <4>1 DEF WorkersInv, CopyInv
    <3> QED
      BY <3>1, <3>2
  <2> QED
    BY <2>5, <2>6, <2>7 DEF WorkersInv
<1> QED
  BY <1>3, <1>4

\* client.Do: what it answers, the target has accepted.
LEMMA SendStep ==
    ASSUME WorkersInv, NEW p \in Processes, SendAccepted(p) \/ SendFails(p)
    PROVE  WorkersInv'
<1>0. TypeOK
  BY DEF WorkersInv
<1>1. copy[p].id \in Deliveries /\ copy[p].retry < MaxRetry
  BY DEF WorkersInv, CopyInv, SendAccepted, SendFails, Holding
<1>2. PICK a \in BOOLEAN, b \in BOOLEAN :
        /\ accepted' = [accepted EXCEPT ![copy[p].id] = a]
        /\ answer' = [answer EXCEPT ![p] = b]
        /\ accepted[copy[p].id] \/ b => a
  <2>1. CASE SendAccepted(p)
    <3>1. /\ accepted' = [accepted EXCEPT ![copy[p].id] = TRUE]
          /\ answer' = [answer EXCEPT ![p] = TRUE]
      BY <2>1 DEF SendAccepted
    <3> QED
      BY <3>1, Zenon
  <2>2. CASE SendFails(p)
    <3>1. PICK lost \in BOOLEAN :
            accepted' = [accepted EXCEPT ![copy[p].id] = @ \/ lost]
      BY <2>2 DEF SendFails
    <3>2. answer' = [answer EXCEPT ![p] = FALSE]
      BY <2>2 DEF SendFails
    <3>3. (accepted[copy[p].id] \/ lost) \in BOOLEAN
      OBVIOUS
    <3>4. accepted' = [accepted EXCEPT ![copy[p].id] = accepted[copy[p].id] \/ lost]
      BY <3>1
    <3> QED
      BY <3>2, <3>3, <3>4, Zenon
  <2> QED
    BY <2>1, <2>2
<1>3. /\ pc[p] = "send" /\ pc' = [pc EXCEPT ![p] = "record"]
      /\ UNCHANGED <<delivery, commits, queue, tick, ticked, todo, copy, crashes>>
  BY DEF SendAccepted, SendFails
<1>4. TypeOK'
  BY <1>0, <1>1, <1>2, <1>3 DEF TypeOK
<1>5. \A d \in Deliveries : accepted[d] => accepted'[d]
  BY <1>0, <1>1, <1>2 DEF TypeOK
<1>6. RetryBudget' /\ SuccessWasAccepted'
  BY <1>3, <1>5 DEF WorkersInv, RetryBudget, SuccessWasAccepted
<1>7. CopyInv'
  <2> SUFFICES ASSUME NEW q \in Processes
               PROVE  /\ pc'[q] \in Holding =>
                           copy'[q].id \in Deliveries /\ copy'[q].retry < MaxRetry
                      /\ pc'[q] = "record" /\ answer'[q] => accepted'[copy'[q].id]
    BY DEF CopyInv
  <2>1. CASE q = p
    BY <1>0, <1>1, <1>2, <1>3, <2>1 DEF TypeOK
  <2>2. CASE q # p
    <3>1. pc'[q] = pc[q] /\ answer'[q] = answer[q] /\ copy'[q] = copy[q]
      BY <1>0, <1>2, <1>3, <2>2 DEF TypeOK
    <3> QED
      BY <1>5, <3>1 DEF WorkersInv, CopyInv, Holding
  <2> QED
    BY <2>1, <2>2
<1> QED
  BY <1>4, <1>6, <1>7 DEF WorkersInv

\* repository.Update: whatever the row is by now, the copy is saved with its outcome.
LEMMA RecordStep ==
    ASSUME WorkersInv, NEW p \in Processes, Record(p)
    PROVE  WorkersInv'
<1> DEFINE d == copy[p].id
           new == IF answer[p] THEN Delivered(copy[p].retry) ELSE MarkFailure(copy[p].retry)
<1>0. TypeOK
  BY DEF WorkersInv
<1>1. /\ pc[p] = "record" /\ Finish(p, d)
      /\ delivery' = [delivery EXCEPT ![d] = new]
      /\ UNCHANGED <<accepted, commits, queue, tick, ticked, crashes>>
  BY DEF Record
<1>2. /\ d \in Deliveries /\ copy[p].retry \in 0 .. MaxRetry /\ copy[p].retry < MaxRetry
      /\ answer[p] => accepted[d]
  BY <1>0, <1>1 DEF WorkersInv, CopyInv, Holding, TypeOK
<1>3. Budgeted(new) /\ (new.status = "SUCCESS" => accepted[d])
  <2>1. Budgeted(Delivered(copy[p].retry)) /\ Budgeted(MarkFailure(copy[p].retry))
    BY <1>2, SavedRows
  <2>2. MarkFailure(copy[p].retry).status # "SUCCESS"
    BY DEF MarkFailure
  <2> QED
    BY <1>2, <2>1, <2>2
<1> HIDE DEF new, d
<1>4. delivery \in [Deliveries -> Row] /\ \A e \in Deliveries : Budgeted(delivery[e])
  BY <1>0, TableFacts DEF WorkersInv, TypeOK
<1>5. /\ delivery' \in [Deliveries -> Row]
      /\ \A e \in Deliveries : Budgeted(delivery'[e])
      /\ \A e \in Deliveries : delivery'[e].status = "SUCCESS" => accepted[e]
  BY <1>1, <1>2, <1>3, <1>4 DEF Budgeted, WorkersInv, SuccessWasAccepted
<1>6. /\ todo' \in [Processes -> SUBSET Deliveries]
      /\ pc' \in [Processes -> {"select", "load", "send", "record"}]
      /\ copy' \in [Processes -> [id : Deliveries \cup {Nobody}, retry : 0 .. MaxRetry]]
      /\ answer' \in [Processes -> BOOLEAN]
      /\ pc'[p] \notin Holding
      /\ \A q \in Processes : q # p =>
           pc'[q] = pc[q] /\ copy'[q] = copy[q] /\ answer'[q] = answer[q]
  BY <1>0, <1>1, FinishTypes
<1>7. TypeOK'
  BY <1>0, <1>1, <1>5, <1>6 DEF TypeOK
<1>8. RetryBudget' /\ SuccessWasAccepted'
  BY <1>1, <1>5 DEF RetryBudget, SuccessWasAccepted, Budgeted
<1>9. CopyInv'
  BY <1>1, <1>6 DEF WorkersInv, CopyInv, Holding
<1> QED
  BY <1>7, <1>8, <1>9 DEF WorkersInv

\* A failing read or update.
LEMMA DatabaseFailsStep ==
    ASSUME WorkersInv, NEW p \in Processes, DatabaseFails(p)
    PROVE  WorkersInv'
  BY FinishStep DEF DatabaseFails

\* Time passes.
LEMMA AdvanceStep ==
    ASSUME WorkersInv, Advance
    PROVE  WorkersInv'
<1>0. TypeOK
  BY DEF WorkersInv
<1>1. \A d \in Deliveries : Budgeted(delivery[d])
  BY <1>0, TableFacts DEF WorkersInv, TypeOK
<1>2. delivery' = [d \in Deliveries |->
        [delivery[d] EXCEPT !.wait = IF @ > 0 THEN @ - 1 ELSE 0]]
  BY DEF Advance
<1>3. \A d \in Deliveries :
        Budgeted(delivery'[d]) /\ delivery'[d].status = delivery[d].status
  BY <1>1, <1>2, WaitingRows
<1>4. delivery' \in [Deliveries -> Row]
  BY <1>2, <1>3 DEF Budgeted
<1>5. tick' \in [Processes -> 1 .. Interval] /\ ticked' \in [Processes -> BOOLEAN]
  BY <1>0, WebhookAssumption DEF Advance, TypeOK
<1>6. TypeOK'
  BY <1>0, <1>4, <1>5 DEF Advance, TypeOK
<1>7. RetryBudget'
  BY <1>3 DEF RetryBudget, Budgeted
<1>8. SuccessWasAccepted' /\ CopyInv'
  BY <1>3 DEF Advance, WorkersInv, SuccessWasAccepted, CopyInv
<1> QED
  BY <1>6, <1>7, <1>8 DEF WorkersInv

\* A process dies with its copy; the table stays.
LEMMA CrashStep ==
    ASSUME WorkersInv, NEW p \in Processes, Crash(p)
    PROVE  WorkersInv'
<1>0. TypeOK
  BY DEF WorkersInv
<1>1. NoCopy \in [id : Deliveries \cup {Nobody}, retry : 0 .. MaxRetry]
  BY WebhookAssumption DEF NoCopy
<1>2. <<>> \in Seq(Deliveries) /\ Interval \in 1 .. Interval
  BY WebhookAssumption
<1>3. /\ commits' \in [Processes -> SUBSET Deliveries]
      /\ queue' \in [Processes -> Seq(Deliveries)]
      /\ tick' \in [Processes -> 1 .. Interval]
      /\ ticked' \in [Processes -> BOOLEAN]
      /\ pc' \in [Processes -> {"select", "load", "send", "record"}]
      /\ todo' \in [Processes -> SUBSET Deliveries]
      /\ copy' \in [Processes -> [id : Deliveries \cup {Nobody}, retry : 0 .. MaxRetry]]
      /\ answer' \in [Processes -> BOOLEAN]
      /\ crashes' \in 0 .. MaxCrashes
  BY <1>0, <1>1, <1>2, WebhookAssumption DEF Crash, TypeOK
<1>4. TypeOK'
  BY <1>0, <1>3 DEF Crash, TypeOK
<1> QED
  BY <1>0, <1>4, QuietStep DEF Crash, TypeOK, Holding

\* The invariant is inductive.
LEMMA NextWorkers == WorkersInv /\ [Next]_vars => WorkersInv'
<1> SUFFICES ASSUME WorkersInv, [Next]_vars PROVE WorkersInv'
  OBVIOUS
<1>1. CASE UNCHANGED vars
  BY <1>1 DEF vars, WorkersInv, TypeOK, RetryBudget, SuccessWasAccepted, CopyInv
<1> QED
  BY <1>1, RequestSide, SelectStep, LoadStep, SendStep, RecordStep, DatabaseFailsStep,
     CrashStep, AdvanceStep DEF Next, Worker

\* It holds of the empty table with idle workers.
LEMMA InitWorkers == Init => WorkersInv
<1> SUFFICES ASSUME Init PROVE WorkersInv
  OBVIOUS
<1>1. [status |-> "NONE", retry |-> 0, wait |-> 0] \in Row
  BY WebhookAssumption DEF Row, Statuses
<1>2. NoCopy \in [id : Deliveries \cup {Nobody}, retry : 0 .. MaxRetry]
  BY WebhookAssumption DEF NoCopy
<1>3. <<>> \in Seq(Deliveries) /\ Interval \in 1 .. Interval
  BY WebhookAssumption
<1>4. TypeOK
  BY <1>1, <1>2, <1>3, WebhookAssumption DEF Init, TypeOK
<1>5. Interval * 0 = 0
  BY WebhookAssumption
<1>6. RetryBudget /\ SuccessWasAccepted
  BY <1>5 DEF Init, RetryBudget, SuccessWasAccepted
<1>7. CopyInv
  BY DEF Init, CopyInv, Holding
<1> QED
  BY <1>4, <1>6, <1>7 DEF WorkersInv

\* However many workers read, post and save the same rows, in whatever order, the
\* invariant of the workers holds.
THEOREM Workers == Spec => []WorkersInv
  BY InitWorkers, NextWorkers, PTL DEF Spec

\* The type invariant of the specification.
THEOREM TypeCorrect == Spec => []TypeOK
<1>1. WorkersInv => TypeOK
  BY DEF WorkersInv
<1> QED
  BY <1>1, Workers, PTL

\* Status, attempts and backoff of a row agree: no attempt beyond the budget is ever
\* counted, so the CHECK of the table never fires.
THEOREM Budget == Spec => []RetryBudget
<1>1. WorkersInv => RetryBudget
  BY DEF WorkersInv
<1> QED
  BY <1>1, Workers, PTL

\* No delivery is marked SUCCESS that its target did not accept.
THEOREM Success == Spec => []SuccessWasAccepted
<1>1. WorkersInv => SuccessWasAccepted
  BY DEF WorkersInv
<1> QED
  BY <1>1, Workers, PTL


-----------------------------------------------------------------------------
(* One worker: a settled delivery stays as it is.                          *)

\* The copy the worker holds is what the table says of an open row.
CurrentInv ==
    \A p \in Processes : pc[p] \in Holding =>
        /\ delivery[copy[p].id].status \notin Terminal
        /\ delivery[copy[p].id].retry = copy[p].retry

\* A step that leaves the rows' statuses and attempts alone where they matter, and takes
\* no new row to send.
LEMMA QuietCurrent ==
    ASSUME WorkersInv, CurrentInv,
           \A d \in Deliveries :
               /\ delivery'[d].retry = delivery[d].retry
               /\ delivery[d].status \notin Terminal => delivery'[d].status \notin Terminal
               /\ delivery[d].status \in Terminal => delivery'[d] = delivery[d],
           \A p \in Processes : pc'[p] \in Holding =>
               pc[p] \in Holding /\ copy'[p] = copy[p]
    PROVE  CurrentInv' /\ SettledStep
<1>1. \A d \in Deliveries : delivery[d].retry \in Nat
  BY WebhookAssumption DEF WorkersInv, TypeOK, Row
<1>2. SettledStep
  BY <1>1 DEF SettledStep
<1>3. CurrentInv'
  BY DEF CurrentInv, WorkersInv, CopyInv
<1> QED
  BY <1>2, <1>3

\* The only worker saves a copy of an open row that nobody has changed since.
LEMMA RecordCurrent ==
    ASSUME WorkersInv, CurrentInv, NEW p \in Processes, \A q \in Processes : q = p,
           Record(p)
    PROVE  CurrentInv' /\ SettledStep
<1> DEFINE d == copy[p].id
           new == IF answer[p] THEN Delivered(copy[p].retry) ELSE MarkFailure(copy[p].retry)
<1>0. TypeOK
  BY DEF WorkersInv
<1>1. /\ pc[p] = "record" /\ Finish(p, d)
      /\ delivery' = [delivery EXCEPT ![d] = new]
  BY DEF Record
<1>2. /\ d \in Deliveries /\ copy[p].retry \in 0 .. MaxRetry
      /\ delivery[d].status \notin Terminal /\ delivery[d].retry = copy[p].retry
  BY <1>0, <1>1 DEF WorkersInv, CopyInv, CurrentInv, Holding, TypeOK
<1>3. copy[p].retry <= new.retry
  BY <1>2, WebhookAssumption DEF Delivered, MarkFailure
<1> HIDE DEF d, new
<1>4. \A e \in Deliveries : e # d => delivery'[e] = delivery[e]
  BY <1>0, <1>1 DEF TypeOK
<1>5. delivery'[d] = new
  BY <1>0, <1>1, <1>2 DEF TypeOK
<1>6. \A e \in Deliveries : delivery[e].retry \in Nat
  BY <1>0, WebhookAssumption DEF TypeOK, Row
<1>7. SettledStep
  BY <1>2, <1>3, <1>4, <1>5, <1>6 DEF SettledStep
<1>8. pc'[p] \notin Holding
  BY <1>0, <1>1, FinishTypes
<1> QED
  BY <1>7, <1>8 DEF CurrentInv

\* Every other step of a worker.
LEMMA WorkerCurrent ==
    ASSUME WorkersInv, CurrentInv, NEW p \in Processes,
           \/ TakeQueued(p) \/ TakeDue(p) \/ ScanFails(p) \/ Load(p)
           \/ SendAccepted(p) \/ SendFails(p) \/ DatabaseFails(p) \/ Crash(p)
    PROVE  CurrentInv' /\ SettledStep
<1>0. TypeOK /\ delivery' = delivery
  BY DEF WorkersInv, TakeQueued, TakeDue, ScanFails, Load, SendAccepted, SendFails,
     DatabaseFails, Crash
<1>1. CASE TakeQueued(p) \/ TakeDue(p) \/ ScanFails(p) \/ Crash(p)
  <2>1. \A q \in Processes : pc'[q] \in Holding =>
          pc[q] \in Holding /\ copy'[q] = copy[q]
    BY <1>0, <1>1 DEF TakeQueued, TakeDue, ScanFails, Crash, TypeOK, Holding
  <2> QED
    BY <1>0, <2>1, QuietCurrent
<1>2. CASE SendAccepted(p) \/ SendFails(p)
  <2>1. \A q \in Processes : pc'[q] \in Holding =>
          pc[q] \in Holding /\ copy'[q] = copy[q]
    BY <1>0, <1>2 DEF SendAccepted, SendFails, TypeOK, Holding
  <2> QED
    BY <1>0, <2>1, QuietCurrent
<1>3. ASSUME NEW d, Finish(p, d) PROVE CurrentInv' /\ SettledStep
  <2>1. \A q \in Processes : pc'[q] \in Holding =>
          pc[q] \in Holding /\ copy'[q] = copy[q]
    BY <1>0, <1>3, FinishTypes
  <2> QED
    BY <1>0, <2>1, QuietCurrent
<1>4. CASE DatabaseFails(p)
  BY <1>3, <1>4 DEF DatabaseFails
<1>5. CASE Load(p)
  <2>1. PICK d \in todo[p] :
          IF delivery[d].status \in Terminal
          THEN Finish(p, d)
          ELSE /\ copy' = [copy EXCEPT ![p] = [id |-> d, retry |-> delivery[d].retry]]
               /\ pc' = [pc EXCEPT ![p] = "send"]
               /\ UNCHANGED <<todo, answer>>
    BY <1>5 DEF Load
  <2>2. CASE delivery[d].status \in Terminal
    BY <1>3, <2>1, <2>2
  <2>3. CASE delivery[d].status \notin Terminal
    <3>1. /\ copy' = [copy EXCEPT ![p] = [id |-> d, retry |-> delivery[d].retry]]
          /\ pc' = [pc EXCEPT ![p] = "send"]
      BY <2>1, <2>3
    <3>2. SettledStep
      BY <1>0, WebhookAssumption DEF SettledStep, TypeOK, Row
    <3>3. ASSUME NEW q \in Processes, pc'[q] \in Holding
          PROVE  /\ delivery'[copy'[q].id].status \notin Terminal
                 /\ delivery'[copy'[q].id].retry = copy'[q].retry
      <4>1. CASE q = p
        BY <1>0, <2>3, <3>1, <4>1 DEF TypeOK
      <4>2. CASE q # p
        <5>1. copy'[q] = copy[q] /\ pc'[q] = pc[q]
          BY <1>0, <3>1, <4>2 DEF TypeOK
        <5> QED
          BY <1>0, <3>3, <5>1 DEF CurrentInv
      <4> QED
        BY <4>1, <4>2
    <3> QED
      BY <3>2, <3>3 DEF CurrentInv
  <2> QED
    BY <2>2, <2>3
<1> QED
  BY <1>1, <1>2, <1>4, <1>5

\* Insertions and time.
LEMMA OthersCurrent ==
    ASSUME WorkersInv, CurrentInv,
           \/ \E p \in Processes, d \in Deliveries : CreateDelivery(p, d) \/ Enqueue(p, d)
           \/ Advance
    PROVE  CurrentInv' /\ SettledStep
<1>0. TypeOK
  BY DEF WorkersInv
<1>1. UNCHANGED <<pc, copy>>
  BY DEF CreateDelivery, Enqueue, Advance
<1>2. \A d \in Deliveries :
        /\ delivery'[d].retry = delivery[d].retry
        /\ delivery[d].status \notin Terminal => delivery'[d].status \notin Terminal
        /\ delivery[d].status \in Terminal => delivery'[d] = delivery[d]
  <2>1. CASE Advance
    <3>1. \A d \in Deliveries : Budgeted(delivery[d])
      BY <1>0, TableFacts DEF WorkersInv, TypeOK
    <3>2. \A d \in Deliveries :
            delivery'[d] = [delivery[d] EXCEPT !.wait = IF @ > 0 THEN @ - 1 ELSE 0]
      BY <2>1 DEF Advance
    <3>3. ASSUME NEW d \in Deliveries
          PROVE  /\ delivery'[d].retry = delivery[d].retry
                 /\ delivery'[d].status = delivery[d].status
                 /\ delivery[d].status \in Terminal => delivery'[d] = delivery[d]
      <4>1. LET s == [delivery[d] EXCEPT !.wait = IF @ > 0 THEN @ - 1 ELSE 0] IN
            /\ s.status = delivery[d].status /\ s.retry = delivery[d].retry
            /\ delivery[d].status \in Terminal => s = delivery[d]
        BY <3>1, WaitingRows
      <4> QED
        BY <3>2, <4>1
    <3> QED
      BY <3>3
  <2>2. ASSUME NEW p \in Processes, NEW d \in Deliveries, CreateDelivery(p, d)
        PROVE  \A e \in Deliveries :
                 /\ delivery'[e].retry = delivery[e].retry
                 /\ delivery[e].status \notin Terminal => delivery'[e].status \notin Terminal
                 /\ delivery[e].status \in Terminal => delivery'[e] = delivery[e]
    BY <1>0, <2>2 DEF CreateDelivery, TypeOK, Row, Terminal
  <2>3. ASSUME NEW p \in Processes, NEW d \in Deliveries, Enqueue(p, d)
        PROVE  delivery' = delivery
    BY <2>3 DEF Enqueue
  <2> QED
    BY <2>1, <2>2, <2>3
<1> QED
  BY <1>1, <1>2, QuietCurrent

\* With one process, hence one worker, a settled delivery is never reopened or rewritten
\* and the attempts counted never decrease, although every save writes the whole row that
\* was read before the POST.  (With two workers it does not hold.)
THEOREM SettledFinal ==
    ASSUME \A p, q \in Processes : p = q
    PROVE  Spec => SettledIsFinal
<1>1. Init => CurrentInv
  BY DEF Init, CurrentInv, Holding
<1>2. ASSUME WorkersInv, CurrentInv, [Next]_vars
      PROVE  CurrentInv' /\ (SettledStep \/ UNCHANGED vars)
  <2>1. CASE UNCHANGED vars
    BY <1>2, <2>1 DEF vars, CurrentInv
  <2>2. ASSUME NEW p \in Processes, Record(p) PROVE CurrentInv' /\ SettledStep
    BY <1>2, <2>2, RecordCurrent
  <2> QED
    BY <1>2, <2>1, <2>2, WorkerCurrent, OthersCurrent DEF Next, Worker
<1> QED
  BY <1>1, <1>2, Workers, PTL DEF Spec, SettledIsFinal

-----------------------------------------------------------------------------
(* Any number of workers: what saving over each other can undo.            *)

\* A step that changes a row only by saving a copy of it, and takes copies of open rows
\* only.
LEMMA Overwrite ==
    ASSUME WorkersInv, TypeOK',
           \A d \in Deliveries :
             \/ /\ delivery[d].status \in Terminal => delivery'[d] = delivery[d]
                /\ delivery[d].status \notin Terminal => delivery'[d].retry = delivery[d].retry
             \/ \E p \in Processes : copy[p].id = d /\ copy[p].retry <= delivery'[d].retry,
           \A q \in Processes :
             \/ copy'[q] = copy[q]
             \/ copy'[q].id = Nobody
             \/ /\ delivery[copy'[q].id].status \notin Terminal
                /\ copy'[q].retry = delivery[copy'[q].id].retry
    PROVE  OverwriteStep
<1>0. TypeOK
  BY DEF WorkersInv
<1> SUFFICES ASSUME NEW d \in Deliveries
             PROVE  /\ \A n \in 0 .. MaxRetry : Counted(d, n) => Counted(d, n)'
                    /\ delivery[d].status \in Terminal /\ ~ Held(d)
                         => delivery'[d] = delivery[d] /\ ~ Held(d)'
  BY DEF OverwriteStep
<1>1. /\ d # Nobody
      /\ delivery[d].retry \in Int /\ delivery'[d].retry \in Int
      /\ \A q \in Processes : copy[q].retry \in Int /\ copy'[q].retry \in Int
  BY <1>0, WebhookAssumption DEF TypeOK, Row
<1>2. ASSUME NEW n \in 0 .. MaxRetry, Counted(d, n) PROVE Counted(d, n)'
  <2>0. n \in Int
    BY WebhookAssumption
  <2>1. ASSUME NEW q \in Processes, copy'[q].id = d PROVE copy'[q].retry >= n
    BY <1>1, <1>2, <2>0, <2>1 DEF Counted
  <2>2. delivery'[d].status \notin Terminal => delivery'[d].retry >= n
    BY <1>1, <1>2, <2>0 DEF Counted
  <2> QED
    BY <2>1, <2>2 DEF Counted
<1>3. ASSUME delivery[d].status \in Terminal, ~ Held(d)
      PROVE  delivery'[d] = delivery[d] /\ ~ Held(d)'
  BY <1>1, <1>3 DEF Held
<1> QED
  BY <1>2, <1>3

\* Every step of the specification is such a step.
LEMMA OverwriteKinds ==
    ASSUME WorkersInv, WorkersInv', Next
    PROVE  OverwriteStep
<1>0. TypeOK /\ TypeOK'
  BY DEF WorkersInv
<1> DEFINE RowKept(d) ==
             /\ delivery[d].status \in Terminal => delivery'[d] = delivery[d]
             /\ delivery[d].status \notin Terminal => delivery'[d].retry = delivery[d].retry
           CopyKept(q) == copy'[q] = copy[q] \/ copy'[q].id = Nobody
<1>1. ASSUME \A d \in Deliveries : RowKept(d), \A q \in Processes : CopyKept(q)
      PROVE  OverwriteStep
  BY <1>0, <1>1, Overwrite
<1>2. ASSUME NEW p \in Processes, NEW d, Finish(p, d)
      PROVE  \A q \in Processes : CopyKept(q)
  BY <1>0, <1>2 DEF Finish, NoCopy, TypeOK
<1>3. CASE Advance
  <2>1. \A d \in Deliveries : Budgeted(delivery[d])
    BY <1>0, TableFacts DEF WorkersInv, TypeOK
  <2>2. \A d \in Deliveries :
          delivery'[d] = [delivery[d] EXCEPT !.wait = IF @ > 0 THEN @ - 1 ELSE 0]
    BY <1>3 DEF Advance
  <2>3. ASSUME NEW d \in Deliveries PROVE RowKept(d)
    <3>1. LET s == [delivery[d] EXCEPT !.wait = IF @ > 0 THEN @ - 1 ELSE 0] IN
          /\ s.retry = delivery[d].retry
          /\ delivery[d].status \in Terminal => s = delivery[d]
      BY <2>1, WaitingRows
    <3> QED
      BY <2>2, <3>1
  <2>4. copy' = copy
    BY <1>3 DEF Advance
  <2> QED
    BY <1>1, <2>3, <2>4
<1>4. ASSUME NEW p \in Processes, NEW d \in Deliveries, CreateDelivery(p, d)
      PROVE  OverwriteStep
  <2>1. \A e \in Deliveries : RowKept(e)
    BY <1>0, <1>4 DEF CreateDelivery, TypeOK, Row, Terminal
  <2> QED
    BY <1>1, <1>4, <2>1 DEF CreateDelivery
<1>5. ASSUME NEW p \in Processes, Record(p) PROVE OverwriteStep
  <2> DEFINE c == copy[p].id
             new == IF answer[p] THEN Delivered(copy[p].retry)
                    ELSE MarkFailure(copy[p].retry)
  <2>1. /\ delivery' = [delivery EXCEPT ![c] = new] /\ Finish(p, c) /\ c \in Deliveries
        /\ copy[p].retry \in Int
    BY <1>0, <1>5, WebhookAssumption DEF Record, WorkersInv, CopyInv, Holding, TypeOK
  <2>2. copy[p].retry <= new.retry
    BY <2>1 DEF Delivered, MarkFailure
  <2> HIDE DEF new
  <2>3. delivery'[c] = new /\ \A e \in Deliveries : e # c => delivery'[e] = delivery[e]
    BY <1>0, <2>1 DEF TypeOK
  <2>4. \A q \in Processes : CopyKept(q)
    BY <1>2, <2>1
  <2>5. \A e \in Deliveries :
          \/ RowKept(e)
          \/ \E q \in Processes : copy[q].id = e /\ copy[q].retry <= delivery'[e].retry
    BY <2>2, <2>3
  <2> QED
    BY <1>0, <2>4, <2>5, Overwrite
<1>6. ASSUME NEW p \in Processes, Load(p) PROVE OverwriteStep
  <2>0. delivery' = delivery
    BY <1>6 DEF Load
  <2>1. PICK d \in todo[p] :
          \/ Finish(p, d)
          \/ /\ delivery[d].status \notin Terminal
             /\ copy' = [copy EXCEPT ![p] = [id |-> d, retry |-> delivery[d].retry]]
    BY <1>6 DEF Load
  <2>2. CASE Finish(p, d)
    BY <1>1, <1>2, <2>0, <2>2
  <2>3. CASE /\ delivery[d].status \notin Terminal
             /\ copy' = [copy EXCEPT ![p] = [id |-> d, retry |-> delivery[d].retry]]
    <3>1. \A q \in Processes :
            \/ copy'[q] = copy[q]
            \/ /\ delivery[copy'[q].id].status \notin Terminal
               /\ copy'[q].retry = delivery[copy'[q].id].retry
      BY <1>0, <2>3 DEF TypeOK
    <3> QED
      BY <1>0, <2>0, <3>1, Overwrite
  <2> QED
    BY <2>1, <2>2, <2>3
<1>7. ASSUME NEW p \in Processes, DatabaseFails(p) PROVE OverwriteStep
  <2>1. delivery' = delivery /\ \E d : Finish(p, d)
    BY <1>7 DEF DatabaseFails
  <2> QED
    BY <1>1, <1>2, <2>1
<1>8. ASSUME NEW p \in Processes, Crash(p) PROVE OverwriteStep
  <2>1. delivery' = delivery /\ \A q \in Processes : CopyKept(q)
    BY <1>0, <1>8 DEF Crash, NoCopy, TypeOK
  <2> QED
    BY <1>1, <2>1
<1>9. CASE UNCHANGED <<delivery, copy>>
  BY <1>1, <1>9
<1> QED
  BY <1>3, <1>4, <1>5, <1>6, <1>7, <1>8, <1>9 DEF Next, Worker, Enqueue, TakeQueued, TakeDue,
     ScanFails, SendAccepted, SendFails

\* With any number of processes whose workers read, post and save the same rows: attempts
\* that the row and all copies of it count are never forgotten, and a settled row that no
\* worker has in hand is never touched again.
THEOREM Overwrites == Spec => OverwritesBounded
<1>1. WorkersInv /\ WorkersInv' /\ [Next]_vars => [OverwriteStep]_vars
  BY OverwriteKinds
<1> QED
  BY <1>1, Workers, PTL DEF Spec, OverwritesBounded
=============================================================================
