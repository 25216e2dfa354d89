------------------------------ MODULE Listings ------------------------------
(***************************************************************************)
(* The paged queries: GET /transactions/me and /ledgers/me ("mine"),       *)
(* GET /admin/transactions and /admin/webhooks with or without its filters *)
(* ("admin"), and GET /admin/audit-logs ("audit").                         *)
(*                                                                         *)
(* A request counts the rows and then selects a page of them, newest       *)
(* first, by LIMIT and OFFSET, in two statements that share no             *)
(* transaction.  An administrator's read is itself recorded in the audit   *)
(* log.  Meanwhile other requests insert rows, whose created_at is taken   *)
(* at the INSERT and which become visible at the COMMIT; and the worker    *)
(* changes the status of deliveries, so that they leave a listing by       *)
(* status of an administrator.                                             *)
(*                                                                         *)
(* One client reads a listing page by page until a page is not full.  The  *)
(* clock is coarse, so rows may be created at the same instant; ORDER BY   *)
(* created_at leaves their order open, anew in each statement.             *)
(***************************************************************************)
EXTENDS Integers, FiniteSets

CONSTANTS
    Ids,           \* ids of the rows of the table, in order of insertion
    Pages, Limits, \* values of the query parameters page and limit
    DefaultLimit,  \* 10
    MaxLimit       \* 100

ASSUME ListingAssumption ==
    /\ Ids \subseteq Nat
    /\ Pages \subseteq Int /\ Limits \subseteq Int
    /\ MaxLimit \in Nat \ {0} /\ DefaultLimit \in 1 .. MaxLimit
    \* the client starts at the first page
    /\ \A page \in Pages : page <= 1

VARIABLES
    row,      \* row[i] : a row, "none" before it is inserted
    pc,       \* where the client's request is
    listing,  \* what it lists
    params,   \* pagination.Params
    total,    \* the result of COUNT
    items,    \* the rows of the page
    \* history of the client's sweep, for the properties:
    start,    \* rows in the listing when the sweep began
    seen,     \* rows on some page
    twice,    \* some row was on two pages
    own,      \* rows of the audit log that record this sweep's reads
    left,     \* rows that left the listing since the sweep began
    quiet,    \* nothing was added and nothing left since then
    \* and of its last request:
    gone      \* rows that left between its COUNT and its SELECT

request == <<pc, listing, params, total, items>>
history == <<start, seen, twice, own, left, quiet>>
vars == <<row, request, history, gone>>

NoRow == [state |-> "none", at |-> 0, match |-> FALSE]

Init ==
    /\ row = [i \in Ids |-> NoRow]
    /\ pc = "idle"
    /\ listing = "mine"
    /\ params = [page |-> 1, limit |-> DefaultLimit]
    /\ total = 0
    /\ items = {}
    /\ start = {} /\ seen = {} /\ own = {} /\ left = {} /\ gone = {}
    /\ twice = FALSE
    /\ quiet = TRUE

-----------------------------------------------------------------------------
(* The statements.                                                         *)

\* Where the query has a WHERE, match says that it holds of the row: the caller is the
\* initiator or the owner of a wallet of it, or it has the event type, the status and the
\* reference asked for.  Where it has none every row matches.
Committed == {i \in Ids : row[i].state = "committed"}
Visible   == {i \in Committed : row[i].match}

Newer(V, i) == {j \in V : row[j].at > row[i].at}
Tied(V, i)  == {j \in V : row[j].at = row[i].at}

\* ORDER BY created_at DESC OFFSET o LIMIT n: the rows created at one instant take
\* consecutive places, in any order, and those in the window are on the page.
PagesOf(V, o, n) ==
    {S \in SUBSET V :
        \A i \in V :
            LET before == Cardinality(Newer(V, i))
                places == (before + 1) .. (before + Cardinality(Tied(V, i)))
            IN  Cardinality(S \cap Tied(V, i)) = Cardinality(places \cap (o + 1 .. o + n))}

-----------------------------------------------------------------------------
(* The request.                                                            *)

\* pagination.New
New(page, limit) ==
    [page  |-> IF page < 1 THEN 1 ELSE page,
     limit |-> IF limit < 1 THEN DefaultLimit
               ELSE IF limit > MaxLimit THEN MaxLimit ELSE limit]

\* Mutant: pages counted from zero.
OffsetFromZero(p) == p.page * p.limit

\* Mutant: every page repeats the last row of the one before.
OffsetOverlapping(p) == (p.page - 1) * (p.limit - 1)

\* Params.Offset
Offset(p) == (p.page - 1) * p.limit

\* The first request of a sweep.
Begin(l, page, limit) ==
    /\ pc = "idle"
    /\ pc' = "count"
    /\ listing' = l
    /\ params' = New(page, limit)
    /\ start' = Visible
    /\ UNCHANGED <<row, total, items, seen, twice, own, left, quiet, gone>>

\* Mutant: all rows are counted.
CountAll ==
    /\ pc = "count"
    /\ total' = Cardinality(Committed)
    /\ pc' = "find"
    /\ gone' = {}
    /\ UNCHANGED <<row, listing, params, items, history>>

\* query.Count(&total)
Count ==
    /\ pc = "count"
    /\ total' = Cardinality(Visible)
    /\ pc' = "find"
    /\ gone' = {}
    /\ UNCHANGED <<row, listing, params, items, history>>

\* query.Order(...).Offset(...).Limit(...).Find(...); an administrator's read is
\* then recorded.
Find ==
    /\ pc = "find"
    /\ items' \in PagesOf(Visible, Offset(params), params.limit)
    /\ seen' = seen \cup items'
    /\ twice' = (twice \/ seen \cap items' # {})
    /\ pc' = IF listing = "mine" THEN "reply" ELSE "record"
    /\ UNCHANGED <<row, listing, params, total, start, own, left, quiet, gone>>

\* Either statement fails, the request answers 500 and the client repeats it.
ReadFails ==
    /\ pc \in {"count", "find"}
    /\ pc' = "count"
    /\ total' = 0
    /\ items' = {}
    /\ gone' = {}
    /\ UNCHANGED <<row, listing, params, history>>

\* A row inserted now: ids are used in order, and the clock shows the instant of the
\* latest row or a later one.
Stamp(i, state, match) ==
    /\ row[i].state = "none"
    /\ \A j \in Ids : j < i => row[j].state # "none"
    /\ \E latest \in {0} \cup {row[j].at : j \in Ids} :
         /\ \A j \in Ids : row[j].at <= latest
         /\ \E at \in {latest, latest + 1} \ {0} :
              row' = [row EXCEPT ![i] = [state |-> state, at |-> at, match |-> match]]

\* _ = u.audits.Create(...) of ListAuditLogs: the read adds a row to what is read.
RecordAuditRead ==
    /\ pc = "record" /\ listing = "audit"
    /\ pc' = "reply"
    /\ \E i \in Ids :
         /\ Stamp(i, "committed", TRUE)
         /\ own' = own \cup {i}
    /\ quiet' = FALSE
    /\ UNCHANGED <<listing, params, total, items, start, seen, twice, left, gone>>

\* The other listings are recorded in a table of their own; an error of Create is
\* ignored.
RecordOutside ==
    /\ pc = "record"
    /\ pc' = "reply"
    /\ UNCHANGED <<row, listing, params, total, items, history, gone>>

\* The answer: the client goes on to the next page if this one was full.
Reply ==
    /\ pc = "reply"
    /\ IF Cardinality(items) < params.limit
       THEN pc' = "done" /\ UNCHANGED <<params, total, items, gone>>
       ELSE /\ pc' = "count"
            /\ params' = New(params.page + 1, params.limit)
            /\ total' = 0
            /\ items' = {}
            /\ gone' = {}
    /\ UNCHANGED <<row, listing, history>>

\* The client is free for another sweep.
End ==
    /\ pc = "done"
    /\ pc' = "idle"
    /\ listing' = "mine"
    /\ params' = [page |-> 1, limit |-> DefaultLimit]
    /\ total' = 0
    /\ items' = {}
    /\ start' = {} /\ seen' = {} /\ own' = {} /\ left' = {} /\ gone' = {}
    /\ twice' = FALSE
    /\ quiet' = TRUE
    /\ UNCHANGED row

-----------------------------------------------------------------------------
(* The writers.                                                            *)

\* INSERT in an open transaction; a transaction that rolls back is one that never
\* commits.  When a row commits that does not match, nobody sees, so it may as well be
\* at once.
Insert(i, match) ==
    /\ Stamp(i, IF match THEN "open" ELSE "committed", match)
    /\ UNCHANGED <<request, history, gone>>

Commit(i) ==
    /\ row[i].state = "open"
    /\ row' = [row EXCEPT ![i].state = "committed"]
    /\ quiet' = (pc = "idle")
    /\ UNCHANGED <<request, start, seen, twice, own, left, gone>>

\* ProcessDelivery of the worker: the delivery has another status now, and no longer
\* the one the sweep asks for.
Settle(i) ==
    /\ listing = "admin" /\ pc # "idle"
    /\ i \in Visible
    /\ row' = [row EXCEPT ![i].match = FALSE]
    /\ left' = left \cup {i}
    /\ gone' = IF pc = "find" THEN gone \cup {i} ELSE gone
    /\ quiet' = FALSE
    /\ UNCHANGED <<request, start, seen, twice, own>>

Next ==
    \/ \E l \in {"mine", "admin", "audit"}, page \in Pages, limit \in Limits :
         Begin(l, page, limit)
    \/ Count \/ Find \/ ReadFails \/ RecordAuditRead \/ RecordOutside \/ Reply \/ End
    \/ \E i \in Ids :
         \/ \E match \in BOOLEAN : Insert(i, match)
         \/ Commit(i)
         \/ Settle(i)

Spec == Init /\ [][Next]_vars

-----------------------------------------------------------------------------
(* Properties.                                                             *)

Row == [state : {"none", "open", "committed"}, at : Nat, match : BOOLEAN]

TypeOK ==
    /\ row \in [Ids -> Row]
    /\ pc \in {"idle", "count", "find", "record", "reply", "done"}
    /\ listing \in {"mine", "admin", "audit"}
    /\ params \in [page : Nat \ {0}, limit : 1 .. MaxLimit]
    /\ total \in Nat
    /\ items \subseteq Ids /\ Cardinality(items) <= params.limit
    /\ start \subseteq Ids /\ seen \subseteq Ids /\ own \subseteq Ids /\ left \subseteq Ids
    /\ gone \subseteq Ids
    /\ twice \in BOOLEAN /\ quiet \in BOOLEAN

Untied == {i \in Visible : Tied(Visible \cup left, i) = {i}}

\* A client that reads to the first page that is not full has seen every row that
\* was there when it began, although rows committed meanwhile, above it or below it,
\* shift the pages and requests fail.  Where rows leave the listing while it is read
\* (by status, gorm.go:387), it misses at most one row that stayed for each that left.
\* (Rows created at the same instant are excepted: nothing fixes their order,
\* gorm.go:147.)
NothingMissed ==
    pc = "done" =>
        Cardinality((start \cap Untied) \ seen) <= Cardinality(left)

\* A page holds what COUNT promised of it, or more, less the rows that left between the
\* two statements: what left before is in neither, and otherwise a listing only grows
\* (gorm.go:140-150).
CountIsFloor ==
    pc \in {"record", "reply", "done"} =>
        \/ Cardinality(items) = params.limit
        \/ Cardinality(items) >= total - Offset(params) - Cardinality(gone)

\* If nothing is added or leaves meanwhile, every row is on exactly one page.
QuietSweepExact ==
    quiet /\ Untied = Visible =>
        /\ ~twice
        /\ pc = "done" => seen = Visible

\* Every full page brings the client params.limit rows further, or one less in the
\* audit log, where each read adds a row on top (admin_health.go:75-82): with a limit
\* of two or more a sweep ends once the others stop writing, with a limit of one the
\* audit log is never read to its end.
SweepAdvances ==
    params.page > 1 =>
        (params.page - 1) * params.limit <=
            Cardinality(Visible \ own) + Cardinality(left) + (IF listing = "audit" THEN params.page - 2 ELSE 0)
=============================================================================
