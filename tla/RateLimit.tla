----------------------------- MODULE RateLimit -----------------------------
(***************************************************************************)
(* The rate limiter of login, top-up and transfer: middleware.RateLimit    *)
(* over RedisLimiter.Allow or MemoryLimiter.Allow                          *)
(* (internal/pkg/ratelimit/limiter.go).                                    *)
(*                                                                         *)
(* Counters of different scopes and callers are independent keys, so one   *)
(* key is modelled.  A request increments it and reads its TTL in one      *)
(* MULTI/EXEC; if it created the key, or found it without a TTL, it sets   *)
(* one in a second round trip.  Between the two other requests run, time   *)
(* passes, the process may die and Redis may fail.  MemoryLimiter does all *)
(* of it under a mutex, in one step.                                       *)
(***************************************************************************)
EXTENDS Integers, Sums

CONSTANTS
    Backends,   \* "redis", "memory"
    Requests,   \* requests that may be in the limiter at once
    Limit,      \* cfg.RateLimit, positive (with 0 the limiter is off)
    Window,     \* cfg.RateLimit.WindowSeconds, in units of time
    MaxCount    \* bound: counts told apart

ASSUME LimitAssumption ==
    /\ Limit \in Nat \ {0}
    /\ Window \in Nat \ {0}
    /\ MaxCount \in Nat /\ MaxCount > Limit

NoExpiry == -1  \* what TTL answers for a key that never expires

VARIABLES
    backend,  \* the limiter the process was built with
    count,    \* the counter, 0 when there is no key
    ttl,      \* its time to live, or NoExpiry
    pc,       \* pc[r] : where request r is
    mine,     \* mine[r] : countCmd.Val(), the value r's INCR returned
    current,  \* current[r] : the key r incremented has not expired since
    granted,  \* requests this key let through on its count
    recent    \* recent[a] : requests counted a units of time ago, within the limit

vars == <<backend, count, ttl, pc, mine, current, granted, recent>>

Ages == 0 .. Window - 1

Init ==
    /\ backend \in Backends
    /\ count = 0
    /\ ttl = NoExpiry
    /\ pc = [r \in Requests |-> "idle"]
    /\ mine = [r \in Requests |-> 0]
    /\ current = [r \in Requests |-> FALSE]
    /\ granted = 0
    /\ recent = [a \in Ages |-> 0]

-----------------------------------------------------------------------------
\* INCR.  Above Limit all counts mean the same, so they are told apart only up to
\* MaxCount.
Increment(c) == IF c < MaxCount THEN c + 1 ELSE c

\* Mutant: the limit is off by one.
AllowedOffByOne(c) == c <= Limit + 1

\* Allowed: count <= limit
Allowed(c) == c <= Limit

\* The middleware passes the request on or answers 429.
Decide(r, c, alive) ==
    /\ pc' = [pc EXCEPT ![r] = IF Allowed(c) THEN "passed" ELSE "denied"]
    /\ granted' = IF Allowed(c) /\ alive THEN granted + 1 ELSE granted

Note(c) == recent' = IF Allowed(c) THEN [recent EXCEPT ![0] = @ + 1] ELSE recent

\* Mutant: only the request that creates the key gives it a TTL.
MustExpireFirst(c, seen) == c = 1

\* if count == 1 || ttl < 0
MustExpire(c, seen) == c = 1 \/ seen < 0

\* The pipeline: INCR and TTL, executed together.
Incr(r) ==
    LET c == Increment(count) IN
    /\ backend = "redis" /\ pc[r] = "idle"
    /\ count' = c
    /\ mine' = [mine EXCEPT ![r] = c]
    /\ current' = [current EXCEPT ![r] = TRUE]
    /\ Note(c)
    /\ IF MustExpire(c, ttl)
       THEN pc' = [pc EXCEPT ![r] = "expire"] /\ UNCHANGED granted
       ELSE Decide(r, c, TRUE)
    /\ UNCHANGED <<backend, ttl>>

\* Mutant: the window is cut to whole units of a coarser clock, and is zero: EXPIRE
\* deletes the key.
ExpireZero(r) ==
    /\ pc[r] = "expire"
    /\ count' = 0
    /\ ttl' = NoExpiry
    /\ pc' = [pc EXCEPT ![r] = "passed"]
    /\ granted' = 0
    /\ current' = [q \in Requests |-> FALSE]
    /\ UNCHANGED <<backend, mine, recent>>

\* EXPIRE key window, then the decision; on a key that is gone EXPIRE does
\* nothing and is no error.
Expire(r) ==
    /\ pc[r] = "expire"
    /\ ttl' = IF count = 0 THEN NoExpiry ELSE Window
    /\ Decide(r, mine[r], current[r])
    /\ UNCHANGED <<backend, count, mine, current, recent>>

\* The pipeline fails, before Redis executed it or after: the middleware fails
\* open.
IncrFails(r) ==
    /\ backend = "redis" /\ pc[r] = "idle"
    /\ count' \in {count, Increment(count)}
    /\ pc' = [pc EXCEPT ![r] = "failedOpen"]
    /\ UNCHANGED <<backend, ttl, mine, current, granted, recent>>

\* EXPIRE fails, executed or not: the middleware fails open.
ExpireFails(r) ==
    /\ pc[r] = "expire"
    /\ ttl' \in {ttl, IF count = 0 THEN NoExpiry ELSE Window}
    /\ pc' = [pc EXCEPT ![r] = "failedOpen"]
    /\ UNCHANGED <<backend, count, mine, current, granted, recent>>

\* now.After(entry.ResetAt): the entry still counts at ResetAt itself.
Life(c) == IF c = 1 THEN Window + 1 ELSE ttl

\* MemoryLimiter.Allow; an entry that is past its time is replaced.
AllowInMemory(r) ==
    LET c == Increment(count) IN
    /\ backend = "memory" /\ pc[r] = "idle"
    /\ count' = c
    /\ ttl' = Life(c)
    /\ mine' = [mine EXCEPT ![r] = c]
    /\ current' = [current EXCEPT ![r] = TRUE]
    /\ Note(c)
    /\ Decide(r, c, TRUE)
    /\ UNCHANGED backend

\* The request leaves the middleware, or its process dies anywhere in it.
Leave(r) ==
    /\ pc[r] # "idle"
    /\ pc' = [pc EXCEPT ![r] = "idle"]
    /\ mine' = [mine EXCEPT ![r] = 0]
    /\ current' = [current EXCEPT ![r] = FALSE]
    /\ UNCHANGED <<backend, count, ttl, granted, recent>>

\* A unit of time passes; a key whose TTL runs out is deleted.
Advance ==
    /\ recent' = [a \in Ages |-> IF a = 0 THEN 0 ELSE recent[a - 1]]
    /\ IF ttl = 1
       THEN /\ count' = 0
            /\ ttl' = NoExpiry
            /\ granted' = 0
            /\ current' = [r \in Requests |-> FALSE]
       ELSE /\ ttl' = IF ttl > 1 THEN ttl - 1 ELSE ttl
            /\ UNCHANGED <<count, granted, current>>
    /\ UNCHANGED <<backend, pc, mine>>

Next ==
    \/ \E r \in Requests :
         \/ Incr(r)
         \/ Expire(r)
         \/ IncrFails(r)
         \/ ExpireFails(r)
         \/ AllowInMemory(r)
         \/ Leave(r)
    \/ Advance

Spec == Init /\ [][Next]_vars

\* Time passes, and a request in the limiter goes on.
Fairness ==
    /\ WF_vars(Advance)
    /\ \A r \in Requests : WF_vars(Expire(r)) /\ WF_vars(Leave(r))

FairSpec == Spec /\ Fairness

-----------------------------------------------------------------------------
(* Properties.                                                             *)

TypeOK ==
    /\ backend \in Backends
    /\ count \in 0 .. MaxCount
    /\ ttl \in {NoExpiry} \cup 1 .. Window + 1
    /\ pc \in [Requests -> {"idle", "expire", "passed", "denied", "failedOpen"}]
    /\ mine \in [Requests -> 0 .. MaxCount]
    /\ current \in [Requests -> BOOLEAN]
    /\ granted \in Nat
    /\ recent \in [Ages -> Nat]
    /\ count = 0 => ttl = NoExpiry

\* One key lets through at most Limit requests on its count, however the
\* increments, expiries and failures of many requests interleave.  (A request
\* that meets a Redis failure passes uncounted: fail_open.)
WithinLimit == granted <= Limit

\* In no stretch of time as long as the window are more than twice Limit requests counted
\* and let through: a key lives for a whole window at least, whichever requests create it,
\* prolong it or die on the way, so such a stretch meets two keys at most.
AtMostTwiceTheLimit == Total(recent, Ages) <= 2 * Limit

\* The key that turned a caller away is deleted in the end, although a late EXPIRE of an
\* earlier request may prolong its life.
DenialEnds ==
    \A r \in Requests : pc[r] = "denied" /\ current[r] ~> count = 0
=============================================================================
