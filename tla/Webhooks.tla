------------------------------ MODULE Webhooks ------------------------------
(***************************************************************************)
(* Webhook delivery: WebhookService of internal/usecase/webhook.go over    *)
(* the table webhook_deliveries.                                           *)
(*                                                                         *)
(* A delivery row is committed together with its transaction (see          *)
(* MoneyMovement), then its id is put on the process's channel if there is *)
(* room.  One worker goroutine per process takes ids from the channel and, *)
(* on every tick, the due rows of the table; it reads the row, posts the   *)
(* payload, and saves the row it read with the outcome.                    *)
(*                                                                         *)
(* Time is relative: delivery[d].wait is what remains of next_retry_at     *)
(* (0 when it is NULL or has passed), so that no clock has to be bounded.  *)
(***************************************************************************)
EXTENDS Integers, Sequences, FiniteSets

CONSTANTS
    Processes,   \* API processes, each with its worker and its channel
    Deliveries,  \* ids of rows, in the order of created_at
    MaxRetry,    \* webhook_deliveries.max_retry
    Interval,    \* retryInterval(), in units of time
    BatchSize,   \* batchSize(), the LIMIT of ListDue
    MaxCrashes,  \* bound: crashes explored in a run
    Nobody       \* no delivery

ASSUME WebhookAssumption ==
    /\ Deliveries \subseteq Nat
    /\ MaxRetry \in Nat \ {0}
    /\ Interval \in Nat \ {0}
    /\ BatchSize \in Nat \ {0}
    /\ MaxCrashes \in Nat
    /\ Nobody \notin Deliveries

VARIABLES
    delivery,  \* delivery[d] : the row; status NONE before it is inserted
    accepted,  \* accepted[d] : the target answered d with a 2xx at least once
    commits,   \* commits[p] : rows committed by p's requests, not yet enqueued
    queue,     \* queue[p] : the channel of p
    tick,      \* tick[p] : time to p's next tick; ticked[p] : one is waiting
    ticked,
    pc,        \* pc[p] : where p's worker is
    todo,      \* todo[p] : ids still to process before the next select
    copy,      \* copy[p] : the row ProcessDelivery read, and its id
    answer,    \* answer[p] : whether the POST got a 2xx
    crashes

vars == <<delivery, accepted, commits, queue, tick, ticked, pc, todo, copy,
          answer, crashes>>

Statuses == {"NONE", "PENDING", "RETRYING", "SUCCESS", "FAILED"}
Terminal == {"SUCCESS", "FAILED"}
NoCopy   == [id |-> Nobody, retry |-> 0]

\* make(chan uuid.UUID, queueSize*2)
QueueSize == 2 * BatchSize

Init ==
    /\ delivery = [d \in Deliveries |-> [status |-> "NONE", retry |-> 0, wait |-> 0]]
    /\ accepted = [d \in Deliveries |-> FALSE]
    /\ commits = [p \in Processes |-> {}]
    /\ queue = [p \in Processes |-> <<>>]
    /\ tick = [p \in Processes |-> Interval]
    /\ ticked = [p \in Processes |-> FALSE]
    /\ pc = [p \in Processes |-> "select"]
    /\ todo = [p \in Processes |-> {}]
    /\ copy = [p \in Processes |-> NoCopy]
    /\ answer = [p \in Processes |-> FALSE]
    /\ crashes = 0

-----------------------------------------------------------------------------
(* The request side: the environment of the worker.  Every step that       *)
(* WebhookFeed allows the requests of a process (which MoneyMovement       *)
(* implements) is one of CreateDelivery, Enqueue and Crash.                *)

\* createDelivery, committed with the transaction it reports.  If the commit is not
\* acknowledged the request fails and does not come to Enqueue.
CreateDelivery(p, d) ==
    /\ delivery[d].status = "NONE"
    /\ \A e \in Deliveries : e < d => delivery[e].status # "NONE"
    /\ delivery' = [delivery EXCEPT ![d].status = "PENDING"]
    /\ commits' \in {commits, [commits EXCEPT ![p] = @ \cup {d}]}
    /\ UNCHANGED <<accepted, queue, tick, ticked, pc, todo, copy, answer, crashes>>

\* Enqueue: a full channel drops the id.
Enqueue(p, d) ==
    /\ d \in commits[p]
    /\ commits' = [commits EXCEPT ![p] = @ \ {d}]
    /\ queue' = [queue EXCEPT ![p] =
                    IF Len(@) < QueueSize THEN Append(@, d) ELSE @]
    /\ UNCHANGED <<delivery, accepted, tick, ticked, pc, todo, copy, answer, crashes>>

-----------------------------------------------------------------------------
(* The worker: the select of Start.                                        *)

\* case deliveryID := <-s.queue
TakeQueued(p) ==
    /\ pc[p] = "select"
    /\ queue[p] # <<>>
    /\ todo' = [todo EXCEPT ![p] = {Head(queue[p])}]
    /\ queue' = [queue EXCEPT ![p] = Tail(@)]
    /\ pc' = [pc EXCEPT ![p] = "load"]
    /\ UNCHANGED <<delivery, accepted, commits, tick, ticked, copy, answer, crashes>>

\* Mutant: rows that were never tried are not listed.
DueRetrying == {d \in Deliveries :
                  delivery[d].status = "RETRYING" /\ delivery[d].wait = 0}

\* ListDue: the oldest BatchSize rows that are open and whose time has come.
Due == {d \in Deliveries :
          delivery[d].status \in {"PENDING", "RETRYING"} /\ delivery[d].wait = 0}

ListDue == {d \in Due : Cardinality({e \in Due : e < d}) < BatchSize}

\* case <-ticker.C : ProcessDue
TakeDue(p) ==
    /\ pc[p] = "select"
    /\ ticked[p]
    /\ ticked' = [ticked EXCEPT ![p] = FALSE]
    /\ todo' = [todo EXCEPT ![p] = ListDue]
    /\ pc' = [pc EXCEPT ![p] = IF ListDue = {} THEN "select" ELSE "load"]
    /\ UNCHANGED <<delivery, accepted, commits, queue, tick, copy, answer, crashes>>

\* A failed ListDue: the scan is given up till the next tick.
ScanFails(p) ==
    /\ pc[p] = "select"
    /\ ticked[p]
    /\ ticked' = [ticked EXCEPT ![p] = FALSE]
    /\ UNCHANGED <<delivery, accepted, commits, queue, tick, pc, todo, copy, answer,
                   crashes>>

\* ProcessDelivery is done with d; the loop goes on.
Finish(p, d) ==
    /\ todo' = [todo EXCEPT ![p] = @ \ {d}]
    /\ pc' = [pc EXCEPT ![p] = IF todo[p] = {d} THEN "select" ELSE "load"]
    /\ copy' = [copy EXCEPT ![p] = NoCopy]
    /\ answer' = [answer EXCEPT ![p] = FALSE]

\* The id ProcessDue comes to next: ListDue is ordered by created_at.
NextToDo(p, d) == d \in todo[p] /\ \A e \in todo[p] : d <= e

\* Mutant: the status of the row is not looked at.
LoadAlways(p) ==
    /\ pc[p] = "load"
    /\ \E d \in todo[p] :
         /\ NextToDo(p, d)
         /\ copy' = [copy EXCEPT ![p] = [id |-> d, retry |-> delivery[d].retry]]
         /\ pc' = [pc EXCEPT ![p] = "send"]
    /\ UNCHANGED <<delivery, accepted, commits, queue, tick, ticked, todo, answer,
                   crashes>>

\* GetByID: a settled row is left alone.
Load(p) ==
    /\ pc[p] = "load"
    /\ \E d \in todo[p] :
         /\ NextToDo(p, d)
         /\ IF delivery[d].status \in Terminal
            THEN Finish(p, d)
            ELSE /\ copy' = [copy EXCEPT ![p] = [id |-> d, retry |-> delivery[d].retry]]
                 /\ pc' = [pc EXCEPT ![p] = "send"]
                 /\ UNCHANGED <<todo, answer>>
    /\ UNCHANGED <<delivery, accepted, commits, queue, tick, ticked, crashes>>

\* client.Do, answered with a 2xx.
SendAccepted(p) ==
    /\ pc[p] = "send"
    /\ accepted' = [accepted EXCEPT ![copy[p].id] = TRUE]
    /\ answer' = [answer EXCEPT ![p] = TRUE]
    /\ pc' = [pc EXCEPT ![p] = "record"]
    /\ UNCHANGED <<delivery, commits, queue, tick, ticked, todo, copy, crashes>>

\* client.Do fails, times out or gets another status; a lost answer may have
\* been a 2xx.
SendFails(p) ==
    /\ pc[p] = "send"
    /\ \E lost \in BOOLEAN :
         accepted' = [accepted EXCEPT ![copy[p].id] = @ \/ lost]
    /\ answer' = [answer EXCEPT ![p] = FALSE]
    /\ pc' = [pc EXCEPT ![p] = "record"]
    /\ UNCHANGED <<delivery, commits, queue, tick, ticked, todo, copy, crashes>>

\* The row ProcessDelivery saves after a 2xx.
Delivered(retry) == [status |-> "SUCCESS", retry |-> retry, wait |-> 0]

\* Mutant: one attempt too many.
MarkFailureOffByOne(retry) ==
    IF retry + 1 > MaxRetry
    THEN [status |-> "FAILED", retry |-> retry + 1, wait |-> 0]
    ELSE [status |-> "RETRYING", retry |-> retry + 1, wait |-> Interval * (retry + 1)]

\* Mutant: the failed attempt is not counted.
MarkFailureUncounted(retry) ==
    IF retry + 1 >= MaxRetry
    THEN [status |-> "FAILED", retry |-> retry + 1, wait |-> 0]
    ELSE [status |-> "RETRYING", retry |-> retry, wait |-> Interval * (retry + 1)]

\* The row markFailure saves.
MarkFailure(retry) ==
    IF retry + 1 >= MaxRetry
    THEN [status |-> "FAILED", retry |-> retry + 1, wait |-> 0]
    ELSE [status |-> "RETRYING", retry |-> retry + 1, wait |-> Interval * (retry + 1)]

\* Mutant: any answer of the target counts as success.
RecordAnyAnswer(p) ==
    LET d == copy[p].id IN
    /\ pc[p] = "record"
    /\ delivery' = [delivery EXCEPT ![d] = Delivered(copy[p].retry)]
    /\ Finish(p, d)
    /\ UNCHANGED <<accepted, commits, queue, tick, ticked, crashes>>

\* repository.Update saves every column of the copy.
Record(p) ==
    LET d == copy[p].id IN
    /\ pc[p] = "record"
    /\ delivery' = [delivery EXCEPT ![d] =
                       IF answer[p] THEN Delivered(copy[p].retry)
                                    ELSE MarkFailure(copy[p].retry)]
    /\ Finish(p, d)
    /\ UNCHANGED <<accepted, commits, queue, tick, ticked, crashes>>

\* GetByID or Update fails: the error is logged and the row is as it was.
DatabaseFails(p) ==
    /\ \/ pc[p] = "load" /\ \E d \in todo[p] : NextToDo(p, d) /\ Finish(p, d)
       \/ pc[p] = "record" /\ Finish(p, copy[p].id)
    /\ UNCHANGED <<delivery, accepted, commits, queue, tick, ticked, crashes>>

-----------------------------------------------------------------------------
(* The environment.                                                        *)

\* A unit of time passes.  A ticker holds at most one tick.
Advance ==
    /\ delivery' = [d \in Deliveries |->
          [delivery[d] EXCEPT !.wait = IF @ > 0 THEN @ - 1 ELSE 0]]
    /\ tick' = [p \in Processes |-> IF tick[p] > 1 THEN tick[p] - 1 ELSE Interval]
    /\ ticked' = [p \in Processes |-> ticked[p] \/ tick[p] = 1]
    /\ UNCHANGED <<accepted, commits, queue, pc, todo, copy, answer, crashes>>

\* p dies and is started again.
Crash(p) ==
    /\ crashes < MaxCrashes
    /\ crashes' = crashes + 1
    /\ commits' = [commits EXCEPT ![p] = {}]
    /\ queue' = [queue EXCEPT ![p] = <<>>]
    /\ tick' = [tick EXCEPT ![p] = Interval]
    /\ ticked' = [ticked EXCEPT ![p] = FALSE]
    /\ pc' = [pc EXCEPT ![p] = "select"]
    /\ todo' = [todo EXCEPT ![p] = {}]
    /\ copy' = [copy EXCEPT ![p] = NoCopy]
    /\ answer' = [answer EXCEPT ![p] = FALSE]
    /\ UNCHANGED <<delivery, accepted>>

Worker(p) ==
    TakeQueued(p) \/ TakeDue(p) \/ Load(p) \/ SendAccepted(p) \/ SendFails(p) \/ Record(p)

Next ==
    \/ \E p \in Processes :
         \/ \E d \in Deliveries : CreateDelivery(p, d) \/ Enqueue(p, d)
         \/ Worker(p)
         \/ ScanFails(p)
         \/ DatabaseFails(p)
         \/ Crash(p)
    \/ Advance

Spec == Init /\ [][Next]_vars

\* The worker goroutine is scheduled, time passes, requests that committed reach
\* Enqueue; the database answers now and then: a scan, a read and an update that
\* are attempted again and again do not fail for ever.
Fairness ==
    /\ WF_vars(Advance)
    /\ \A p \in Processes :
         /\ WF_vars(Worker(p))
         /\ SF_vars(TakeDue(p))
         /\ SF_vars(Load(p))
         /\ SF_vars(Record(p))
         /\ WF_vars(\E d \in Deliveries : Enqueue(p, d))

FairSpec == Spec /\ Fairness

-----------------------------------------------------------------------------
(* Properties.                                                             *)

Row == [status : Statuses, retry : 0 .. MaxRetry, wait : Nat]

TypeOK ==
    /\ delivery \in [Deliveries -> Row]
    /\ accepted \in [Deliveries -> BOOLEAN]
    /\ commits \in [Processes -> SUBSET Deliveries]
    /\ queue \in [Processes -> Seq(Deliveries)]
    /\ tick \in [Processes -> 1 .. Interval]
    /\ ticked \in [Processes -> BOOLEAN]
    /\ pc \in [Processes -> {"select", "load", "send", "record"}]
    /\ todo \in [Processes -> SUBSET Deliveries]
    /\ copy \in [Processes -> [id : Deliveries \cup {Nobody}, retry : 0 .. MaxRetry]]
    /\ answer \in [Processes -> BOOLEAN]
    /\ crashes \in 0 .. MaxCrashes

\* The status and the retry count of a row agree, whatever two workers do to the
\* same row: a pending row has no failed attempt, a retrying one has some left, a
\* failed one has none, and no success comes after the last (webhook.go:259-276;
\* the database's CHECK retry_count <= max_retry never fires).  A backoff never
\* exceeds Interval times the attempts that failed.
RetryBudget ==
    \A d \in Deliveries :
        LET r == delivery[d] IN
        /\ r.status \in {"NONE", "PENDING"} => r.retry = 0
        /\ r.status = "RETRYING" => r.retry \in 1 .. MaxRetry - 1
        /\ r.status = "FAILED" => r.retry = MaxRetry
        /\ r.status = "SUCCESS" => r.retry < MaxRetry
        /\ r.wait <= Interval * r.retry
        /\ r.wait > 0 => r.status = "RETRYING"

\* A row says SUCCESS only if the target did answer that delivery with a 2xx.
SuccessWasAccepted ==
    \A d \in Deliveries : delivery[d].status = "SUCCESS" => accepted[d]

\* With one worker, a settled delivery is never reopened or rewritten and the
\* attempts counted never decrease, although the worker saves whole rows it read
\* before the POST (webhook.go:197-236, 258-280).
SettledStep ==
    \A d \in Deliveries :
        /\ delivery[d].status \in Terminal => delivery'[d] = delivery[d]
        /\ delivery[d].retry <= delivery'[d].retry

SettledIsFinal == [][SettledStep]_vars

\* A worker of some process has read d and not yet saved it.
Held(d) == \E p \in Processes : copy[p].id = d

\* At least n attempts at d are counted, by the row while it is open and by every copy
\* a worker may still save over it.
Counted(d, n) ==
    /\ delivery[d].status \notin Terminal => delivery[d].retry >= n
    /\ \A p \in Processes : copy[p].id = d => copy[p].retry >= n

\* With any number of processes, what workers undo by saving over each other's rows
\* (webhook.go:197-280) is bounded by the copies in hand: attempts that the row and all
\* copies of it count are never forgotten, and a settled row that no worker has in hand
\* is never touched again.
OverwriteStep ==
    \A d \in Deliveries :
        /\ \A n \in 0 .. MaxRetry : Counted(d, n) => Counted(d, n)'
        /\ delivery[d].status \in Terminal /\ ~ Held(d)
             => delivery'[d] = delivery[d] /\ ~ Held(d)'

OverwritesBounded == [][OverwriteStep]_vars

\* Every committed delivery is settled in the end and stays so (every row is
\* inserted once, so from some time on no row is open), although its id may be
\* dropped by a full channel or lost in a crash and every step on it may fail: the
\* scan finds it in the table.  Two workers that post the same row and save over each
\* other do not keep each other from it.
EventuallySettled ==
    <>[](\A d \in Deliveries : delivery[d].status \notin {"PENDING", "RETRYING"})

\* With one worker, a retry is not sent before its next_retry_at.
RetryWaits ==
    \A p \in Processes : pc[p] = "send" => delivery[copy[p].id].wait = 0
=============================================================================
