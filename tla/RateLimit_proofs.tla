-------------------------- MODULE RateLimit_proofs --------------------------
(***************************************************************************)
(* Proofs about module RateLimit, for any limit, window and number of      *)
(* requests.                                                               *)
(*                                                                         *)
(* A request that the key let through on its count raised the count by     *)
(* one, before any other request saw it.  So the requests let through,     *)
(* together with those that will be once their EXPIRE returns, are never   *)
(* more than the count, nor more than the limit.                           *)
(***************************************************************************)
EXTENDS RateLimit, Sums_proofs

\* The requests the present key has counted within the limit and has not let through
\* yet: their EXPIRE is under way.
Pending == {r \in Requests : pc[r] = "expire" /\ current[r] /\ Allowed(mine[r])}

\* Whoever is let through, or is about to be, has been counted within the limit.
CountedInv ==
    /\ IsFiniteSet(Pending)
    /\ granted + Cardinality(Pending) <= count
    /\ granted + Cardinality(Pending) <= Limit

\* The inductive invariant.
LimitInv == TypeOK /\ CountedInv

-----------------------------------------------------------------------------
\* What a count may be after one more request.
LEMMA IncrementFacts ==
    ASSUME NEW c \in 0 .. MaxCount
    PROVE  /\ Increment(c) \in 1 .. MaxCount
           /\ c <= Increment(c)
           /\ Allowed(Increment(c)) => Increment(c) = c + 1
  BY LimitAssumption DEF Increment, Allowed

\* The outcome of a decision.
LEMMA DecideFacts ==
    ASSUME TypeOK, NEW r \in Requests, NEW c, NEW alive \in BOOLEAN, Decide(r, c, alive)
    PROVE  /\ pc' \in [Requests -> {"idle", "expire", "passed", "denied", "failedOpen"}]
           /\ pc'[r] # "expire"
           /\ \A q \in Requests : q # r => pc'[q] = pc[q]
           /\ granted' \in Nat
           /\ granted' = IF Allowed(c) /\ alive THEN granted + 1 ELSE granted
  BY DEF TypeOK, Decide

\* History: who was counted when.
LEMMA NoteTypes ==
    ASSUME TypeOK, NEW c, Note(c)
    PROVE  recent' \in [Ages -> Nat]
<1>1. 0 \in Ages
  BY LimitAssumption DEF Ages
<1> QED
  BY <1>1 DEF TypeOK, Note

\* A step that lets nobody through and adds nobody who will be.
LEMMA FewerPending ==
    ASSUME LimitInv, TypeOK', granted' = granted, count <= count', Pending' \subseteq Pending
    PROVE  LimitInv'
<1>1. IsFiniteSet(Pending') /\ Cardinality(Pending') <= Cardinality(Pending)
  BY FS_Subset DEF LimitInv, CountedInv
<1>2. Cardinality(Pending') \in Nat /\ Cardinality(Pending) \in Nat
  BY <1>1, FS_CardinalityType DEF LimitInv, CountedInv
<1>3. granted \in Nat /\ count \in Nat /\ count' \in Nat /\ Limit \in Nat
  BY LimitAssumption DEF LimitInv, TypeOK
<1>4. /\ granted + Cardinality(Pending) <= count
      /\ granted + Cardinality(Pending) <= Limit
  BY DEF LimitInv, CountedInv
<1>5. /\ granted' + Cardinality(Pending') <= count'
      /\ granted' + Cardinality(Pending') <= Limit
  BY <1>1, <1>2, <1>3, <1>4
<1> QED
  BY <1>1, <1>5 DEF LimitInv, CountedInv

\* A request is counted and let through at once, or will be when its EXPIRE returns, or
\* is not within the limit.
LEMMA OneMore ==
    ASSUME LimitInv, TypeOK', NEW r \in Requests, r \notin Pending,
           count' = Increment(count),
           \/ granted' = granted /\ Pending' \subseteq Pending \cup {r}
           \/ granted' = granted + 1 /\ Pending' \subseteq Pending,
           ~Allowed(count') => granted' = granted /\ Pending' \subseteq Pending
    PROVE  LimitInv'
<1>1. /\ granted \in Nat /\ count \in 0 .. MaxCount /\ count' \in Nat /\ Limit \in Nat
      /\ count <= count' /\ (Allowed(count') => count' = count + 1)
  BY LimitAssumption, IncrementFacts DEF LimitInv, TypeOK
<1>2. CASE ~Allowed(count')
  BY <1>1, <1>2, FewerPending
<1>3. CASE Allowed(count')
  <2>1. IsFiniteSet(Pending) /\ Cardinality(Pending) \in Nat
    BY FS_CardinalityType DEF LimitInv, CountedInv
  <2>2. IsFiniteSet(Pending \cup {r}) /\ Cardinality(Pending \cup {r}) = Cardinality(Pending) + 1
    BY <2>1, FS_AddElement
  <2>3. /\ granted + Cardinality(Pending) <= count
    BY DEF LimitInv, CountedInv
  <2>4. count' <= Limit /\ count' = count + 1
    BY <1>1, <1>3 DEF Allowed
  <2>5. IsFiniteSet(Pending') /\ granted' + Cardinality(Pending') <= granted + Cardinality(Pending) + 1
    <3>1. CASE granted' = granted /\ Pending' \subseteq Pending \cup {r}
      <4>1. IsFiniteSet(Pending') /\ Cardinality(Pending') <= Cardinality(Pending) + 1
        BY <2>2, <3>1, FS_Subset
      <4>2. Cardinality(Pending') \in Nat
        BY <4>1, FS_CardinalityType
      <4> QED
        BY <1>1, <2>1, <3>1, <4>1, <4>2
    <3>2. CASE granted' = granted + 1 /\ Pending' \subseteq Pending
      <4>1. IsFiniteSet(Pending') /\ Cardinality(Pending') <= Cardinality(Pending)
        BY <2>1, <3>2, FS_Subset
      <4>2. Cardinality(Pending') \in Nat
        BY <4>1, FS_CardinalityType
      <4> QED
        BY <1>1, <2>1, <3>2, <4>1, <4>2
    <3> QED
      BY <3>1, <3>2
  <2>6. Cardinality(Pending') \in Nat /\ granted' \in Nat
    BY <2>5, FS_CardinalityType DEF TypeOK
  <2>7. /\ granted' + Cardinality(Pending') <= count'
        /\ granted' + Cardinality(Pending') <= Limit
    BY <1>1, <2>1, <2>3, <2>4, <2>5, <2>6
  <2> QED
    BY <2>5, <2>7 DEF LimitInv, CountedInv
<1> QED
  BY <1>2, <1>3

-----------------------------------------------------------------------------
(* Action by action.                                                       *)

\* INCR and TTL.
LEMMA IncrStep ==
    ASSUME LimitInv, NEW r \in Requests, Incr(r)
    PROVE  LimitInv'
<1> DEFINE c == Increment(count)
<1>0. TypeOK /\ c \in 1 .. MaxCount
  BY IncrementFacts DEF LimitInv, TypeOK
<1>1. /\ pc[r] = "idle" /\ count' = c
      /\ mine' = [mine EXCEPT ![r] = c]
      /\ current' = [current EXCEPT ![r] = TRUE]
      /\ Note(c)
      /\ UNCHANGED <<backend, ttl>>
  BY DEF Incr
<1>2. r \notin Pending
  BY <1>1 DEF Pending
<1>3. /\ mine' \in [Requests -> 0 .. MaxCount] /\ mine'[r] = c
      /\ current' \in [Requests -> BOOLEAN]
      /\ \A q \in Requests : q # r => mine'[q] = mine[q] /\ current'[q] = current[q]
  BY <1>0, <1>1 DEF TypeOK
<1>4. recent' \in [Ages -> Nat] /\ count' \in 0 .. MaxCount /\ count' # 0
  BY <1>0, <1>1, NoteTypes DEF TypeOK
<1> HIDE DEF c
<1>5. CASE MustExpire(c, ttl)
  <2>1. pc' = [pc EXCEPT ![r] = "expire"] /\ granted' = granted
    BY <1>5 DEF Incr, c
  <2>2. TypeOK'
    BY <1>0, <1>1, <1>3, <1>4, <2>1 DEF TypeOK
  <2>3. Pending' \subseteq Pending \cup {r}
    BY <1>0, <1>3, <2>1 DEF Pending, TypeOK
  <2>4. ~Allowed(count') => Pending' \subseteq Pending
    BY <1>0, <1>1, <1>3, <2>1 DEF Pending, TypeOK
  <2> QED
    BY <1>1, <1>2, <2>1, <2>2, <2>3, <2>4, OneMore DEF c
<1>6. CASE ~MustExpire(c, ttl)
  <2>1. Decide(r, c, TRUE)
    BY <1>6 DEF Incr, c
  <2>2. /\ pc' \in [Requests -> {"idle", "expire", "passed", "denied", "failedOpen"}]
        /\ pc'[r] # "expire"
        /\ \A q \in Requests : q # r => pc'[q] = pc[q]
        /\ granted' \in Nat
        /\ granted' = IF Allowed(c) THEN granted + 1 ELSE granted
    BY <1>0, <2>1, DecideFacts
  <2>3. TypeOK'
    BY <1>0, <1>1, <1>3, <1>4, <2>2 DEF TypeOK
  <2>4. Pending' \subseteq Pending
    BY <1>3, <2>2 DEF Pending
  <2> QED
    BY <1>1, <1>2, <2>2, <2>3, <2>4, OneMore DEF c
<1> QED
  BY <1>5, <1>6

\* MemoryLimiter.Allow.
LEMMA MemoryStep ==
    ASSUME LimitInv, NEW r \in Requests, AllowInMemory(r)
    PROVE  LimitInv'
<1> DEFINE c == Increment(count)
<1>0. TypeOK /\ c \in 1 .. MaxCount
  BY IncrementFacts DEF LimitInv, TypeOK
<1>1. /\ pc[r] = "idle" /\ count' = c /\ ttl' = Life(c)
      /\ mine' = [mine EXCEPT ![r] = c]
      /\ current' = [current EXCEPT ![r] = TRUE]
      /\ Note(c) /\ Decide(r, c, TRUE)
      /\ UNCHANGED backend
  BY DEF AllowInMemory
<1>2. r \notin Pending
  BY <1>1 DEF Pending
<1>3. /\ mine' \in [Requests -> 0 .. MaxCount]
      /\ current' \in [Requests -> BOOLEAN]
      /\ \A q \in Requests : q # r => mine'[q] = mine[q] /\ current'[q] = current[q]
  BY <1>0, <1>1 DEF TypeOK
<1>4. recent' \in [Ages -> Nat] /\ count' \in 0 .. MaxCount /\ count' # 0
  BY <1>0, <1>1, NoteTypes DEF TypeOK
<1>5. /\ pc' \in [Requests -> {"idle", "expire", "passed", "denied", "failedOpen"}]
      /\ pc'[r] # "expire"
      /\ \A q \in Requests : q # r => pc'[q] = pc[q]
      /\ granted' \in Nat
      /\ granted' = IF Allowed(c) THEN granted + 1 ELSE granted
  BY <1>0, <1>1, DecideFacts
<1>6. ttl' \in {NoExpiry} \cup 1 .. Window + 1
  BY <1>0, <1>1, LimitAssumption DEF Life, TypeOK, NoExpiry
<1> HIDE DEF c
<1>7. TypeOK'
  BY <1>0, <1>1, <1>3, <1>4, <1>5, <1>6 DEF TypeOK
<1>8. Pending' \subseteq Pending
  BY <1>3, <1>5 DEF Pending
<1> QED
  BY <1>1, <1>2, <1>5, <1>7, <1>8, OneMore DEF c

\* EXPIRE, and the decision: a pending request is let through.
LEMMA ExpireStep ==
    ASSUME LimitInv, NEW r \in Requests, Expire(r)
    PROVE  LimitInv'
<1>0. TypeOK
  BY DEF LimitInv
<1>1. /\ pc[r] = "expire" /\ Decide(r, mine[r], current[r])
      /\ ttl' = IF count = 0 THEN NoExpiry ELSE Window
      /\ UNCHANGED <<backend, count, mine, current, recent>>
  BY DEF Expire
<1>2. current[r] \in BOOLEAN
  BY <1>0 DEF TypeOK
<1>3. /\ pc' \in [Requests -> {"idle", "expire", "passed", "denied", "failedOpen"}]
      /\ pc'[r] # "expire"
      /\ \A q \in Requests : q # r => pc'[q] = pc[q]
      /\ granted' = IF Allowed(mine[r]) /\ current[r] THEN granted + 1 ELSE granted
      /\ granted' \in Nat
  BY <1>0, <1>1, <1>2 DEF TypeOK, Decide
<1>4. ttl' \in {NoExpiry} \cup 1 .. Window + 1 /\ (count = 0 => ttl' = NoExpiry)
  BY <1>1, LimitAssumption DEF NoExpiry
<1>5. TypeOK'
  BY <1>0, <1>1, <1>3, <1>4 DEF TypeOK
<1>6. Pending' = Pending \ {r}
  BY <1>1, <1>3 DEF Pending
<1>7. CASE r \notin Pending
  <2>1. granted' = granted
    BY <1>1, <1>3, <1>7 DEF Pending
  <2>2. count <= count'
    BY <1>0, <1>1 DEF TypeOK
  <2> QED
    BY <1>5, <1>6, <2>1, <2>2, FewerPending
<1>8. CASE r \in Pending
  <2>1. granted' = granted + 1
    BY <1>3, <1>8 DEF Pending
  <2>2. IsFiniteSet(Pending) /\ Cardinality(Pending) \in Nat
    BY FS_CardinalityType DEF LimitInv, CountedInv
  <2>3. IsFiniteSet(Pending') /\ Cardinality(Pending') = Cardinality(Pending) - 1
    BY <1>6, <1>8, <2>2, FS_RemoveElement
  <2>4. granted \in Nat
    BY <1>0 DEF TypeOK
  <2>5. granted' + Cardinality(Pending') = granted + Cardinality(Pending)
    BY <2>1, <2>2, <2>3, <2>4
  <2> QED
    BY <1>1, <1>5, <2>3, <2>5 DEF LimitInv, CountedInv
<1> QED
  BY <1>7, <1>8

\* Redis fails, or the request leaves.
LEMMA FailureStep ==
    ASSUME LimitInv, NEW r \in Requests, IncrFails(r) \/ ExpireFails(r) \/ Leave(r)
    PROVE  LimitInv'
<1>0. TypeOK /\ Increment(count) \in 1 .. MaxCount /\ count <= Increment(count)
  BY IncrementFacts DEF LimitInv, TypeOK
<1>1. CASE IncrFails(r)
  <2>1. /\ count' = count \/ count' = Increment(count)
        /\ pc' = [pc EXCEPT ![r] = "failedOpen"]
        /\ UNCHANGED <<backend, ttl, mine, current, granted, recent>>
    BY <1>1 DEF IncrFails
  <2>2. TypeOK' /\ count <= count'
    BY <1>0, <2>1 DEF TypeOK
  <2>3. Pending' \subseteq Pending
    BY <1>0, <2>1 DEF Pending, TypeOK
  <2> QED
    BY <2>1, <2>2, <2>3, FewerPending
<1>2. CASE ExpireFails(r)
  <2>1. /\ ttl' = ttl \/ ttl' = IF count = 0 THEN NoExpiry ELSE Window
        /\ pc' = [pc EXCEPT ![r] = "failedOpen"]
        /\ UNCHANGED <<backend, count, mine, current, granted, recent>>
    BY <1>2 DEF ExpireFails
  <2>2. ttl' \in {NoExpiry} \cup 1 .. Window + 1 /\ (count = 0 => ttl' = NoExpiry)
    BY <1>0, <2>1, LimitAssumption DEF TypeOK, NoExpiry
  <2>3. TypeOK' /\ count <= count'
    BY <1>0, <2>1, <2>2 DEF TypeOK
  <2>4. Pending' \subseteq Pending
    BY <1>0, <2>1 DEF Pending, TypeOK
  <2> QED
    BY <2>1, <2>3, <2>4, FewerPending
<1>3. CASE Leave(r)
  <2>1. /\ pc' = [pc EXCEPT ![r] = "idle"]
        /\ mine' = [mine EXCEPT ![r] = 0]
        /\ current' = [current EXCEPT ![r] = FALSE]
        /\ UNCHANGED <<backend, count, ttl, granted, recent>>
    BY <1>3 DEF Leave
  <2>2. 0 \in 0 .. MaxCount
    BY LimitAssumption
  <2>3. TypeOK' /\ count <= count'
    BY <1>0, <2>1, <2>2 DEF TypeOK
  <2>4. Pending' \subseteq Pending
    BY <1>0, <2>1 DEF Pending, TypeOK
  <2> QED
    BY <2>1, <2>3, <2>4, FewerPending
<1> QED
  BY <1>1, <1>2, <1>3

\* Time passes: a key that expires takes its count and its requests with it.
LEMMA AdvanceStep ==
    ASSUME LimitInv, Advance
    PROVE  LimitInv'
<1>0. TypeOK
  BY DEF LimitInv
<1>1. recent' \in [Ages -> Nat]
  <2>1. \A a \in Ages : a # 0 => a - 1 \in Ages
    BY LimitAssumption DEF Ages
  <2> QED
    BY <1>0, <2>1 DEF Advance, TypeOK
<1>2. CASE ttl = 1
  <2>1. /\ count' = 0 /\ ttl' = NoExpiry /\ granted' = 0
        /\ current' = [r \in Requests |-> FALSE]
        /\ UNCHANGED <<backend, pc, mine>>
    BY <1>2 DEF Advance
  <2>2. TypeOK'
    BY <1>0, <1>1, <2>1, LimitAssumption DEF TypeOK
  <2>3. Pending' = {}
    BY <2>1 DEF Pending
  <2>4. IsFiniteSet({}) /\ Cardinality({}) = 0
    BY FS_EmptySet
  <2> QED
    BY <2>1, <2>2, <2>3, <2>4, LimitAssumption DEF LimitInv, CountedInv
<1>3. CASE ttl # 1
  <2>1. /\ ttl' = IF ttl > 1 THEN ttl - 1 ELSE ttl
        /\ UNCHANGED <<backend, pc, mine, count, granted, current>>
    BY <1>3 DEF Advance
  <2>2. ttl' \in {NoExpiry} \cup 1 .. Window + 1 /\ (count = 0 => ttl' = NoExpiry)
    BY <1>0, <1>3, <2>1, LimitAssumption DEF TypeOK, NoExpiry
  <2>3. TypeOK' /\ count <= count'
    BY <1>0, <1>1, <2>1, <2>2 DEF TypeOK
  <2>4. Pending' \subseteq Pending
    BY <2>1 DEF Pending
  <2> QED
    BY <2>1, <2>3, <2>4, FewerPending
<1> QED
  BY <1>2, <1>3

-----------------------------------------------------------------------------
\* The invariant is inductive.
LEMMA NextLimit == LimitInv /\ [Next]_vars => LimitInv'
<1> SUFFICES ASSUME LimitInv, [Next]_vars PROVE LimitInv'
  OBVIOUS
<1>1. CASE UNCHANGED vars
  BY <1>1 DEF vars, LimitInv, TypeOK, CountedInv, Pending
<1> QED
  BY <1>1, IncrStep, ExpireStep, FailureStep, MemoryStep, AdvanceStep DEF Next

\* It holds before the first request.
LEMMA InitLimit == Init => LimitInv
<1> SUFFICES ASSUME Init PROVE LimitInv
  OBVIOUS
<1>1. TypeOK
  BY LimitAssumption DEF Init, TypeOK
<1>2. Pending = {}
  BY DEF Init, Pending
<1>3. IsFiniteSet({}) /\ Cardinality({}) = 0
  BY FS_EmptySet
<1> QED
  BY <1>1, <1>2, <1>3, LimitAssumption DEF Init, LimitInv, CountedInv

\* The type invariant of the specification.
THEOREM TypeCorrect == Spec => []TypeOK
<1>1. LimitInv => TypeOK
  BY DEF LimitInv
<1> QED
  BY <1>1, InitLimit, NextLimit, PTL DEF Spec

\* One key lets through at most Limit requests on its count, whatever the number of
\* requests and however their round trips to Redis interleave and fail.
THEOREM LimitKept == Spec => []WithinLimit
<1>1. LimitInv => WithinLimit
  <2> SUFFICES ASSUME LimitInv PROVE granted <= Limit
    BY DEF WithinLimit
  <2>1. Cardinality(Pending) \in Nat
    BY FS_CardinalityType DEF LimitInv, CountedInv
  <2> QED
    BY <2>1, LimitAssumption DEF LimitInv, CountedInv, TypeOK
<1> QED
  BY <1>1, InitLimit, NextLimit, PTL DEF Spec

-----------------------------------------------------------------------------
(* Twice the limit in a window.                                            *)

\* The present key has counted requests for the last k units of time: not more than its
\* count says, nor than the limit.  All keys before it, and there is at most one that
\* the window still meets, counted no more than the limit; and when this key expires it
\* will fill the window alone.
Covers(k) ==
    /\ count = 0 <=> k = 0
    /\ ttl # NoExpiry => k + ttl > Window
    /\ Total(recent, 0 .. k - 1) <= count
    /\ Total(recent, 0 .. k - 1) <= Limit
    /\ Total(recent, Ages) <= Total(recent, 0 .. k - 1) + Limit

\* A key has covered some stretch of the window; where there is no key, nothing has been
\* counted since the last one expired.
KeyInv ==
    /\ \E k \in 0 .. Window : Covers(k)
    /\ count = 0 => recent[0] = 0

\* The sums over the window are integers.
LEMMA RecentFacts ==
    ASSUME TypeOK, NEW k \in 0 .. Window
    PROVE  /\ 0 .. k - 1 \subseteq Ages /\ IsFiniteSet(0 .. k - 1) /\ IsFiniteSet(Ages)
           /\ \A a \in Ages : recent[a] \in Int /\ recent[a] >= 0
           /\ Total(recent, 0 .. k - 1) \in Int
           /\ Total(recent, Ages) \in Int
<1>1. 0 .. k - 1 \subseteq Ages
  BY LimitAssumption DEF Ages
<1>2. IsFiniteSet(0 .. k - 1) /\ IsFiniteSet(Ages)
  BY LimitAssumption, FS_Interval DEF Ages
<1>3. \A a \in Ages : recent[a] \in Int /\ recent[a] >= 0
  BY DEF TypeOK
<1>4. \A a \in 0 .. k - 1 : recent[a] \in Int
  BY <1>1, <1>3
<1> QED
  BY <1>1, <1>2, <1>3, <1>4, TotalType

\* A step that counts nobody and at most sets the TTL of a key that is there.
LEMMA QuietKey ==
    ASSUME TypeOK, KeyInv, count' = count, recent' = recent,
           \/ ttl' = ttl
           \/ ttl' = NoExpiry
           \/ count # 0 /\ ttl' = Window
    PROVE  KeyInv'
<1>1. PICK k \in 0 .. Window : Covers(k)
  BY DEF KeyInv
<1>2. ttl' # NoExpiry => k + ttl' > Window
  BY <1>1, LimitAssumption DEF Covers
<1>3. Covers(k)'
  BY <1>1, <1>2 DEF Covers
<1>4. Window \in Nat
  BY LimitAssumption
<1> QED
  BY <1>1, <1>3 DEF KeyInv

\* A step that counts one more request, and notes it if it is within the limit.
LEMMA CountKey ==
    ASSUME TypeOK, KeyInv, count' = Increment(count),
           \/ recent' = recent
           \/ Allowed(count') /\ recent' = [recent EXCEPT ![0] = @ + 1],
           \/ ttl' = ttl
           \/ count = 0 /\ ttl' = Window + 1
    PROVE  KeyInv'
<1>1. PICK k \in 0 .. Window : Covers(k)
  BY DEF KeyInv
<1>2. /\ count \in 0 .. MaxCount /\ count' \in Nat /\ count' # 0 /\ count <= count'
      /\ Allowed(count') => count' = count + 1 /\ count' <= Limit
      /\ Limit \in Nat /\ Window \in Nat \ {0}
  BY LimitAssumption, IncrementFacts DEF TypeOK, Allowed
<1>3. PICK j \in 1 .. Window : j = IF count = 0 THEN 1 ELSE k
  BY <1>1, <1>2 DEF Covers
<1>4. ttl' # NoExpiry => j + ttl' > Window
  <2>1. CASE ttl' = ttl /\ count = 0
    BY <2>1 DEF TypeOK
  <2>2. CASE ttl' = ttl /\ count # 0
    BY <1>1, <1>3, <2>2 DEF Covers
  <2>3. CASE count = 0 /\ ttl' = Window + 1
    BY <1>2, <1>3, <2>3
  <2> QED
    BY <2>1, <2>2, <2>3
<1> DEFINE y == Total(recent, 0 .. j - 1)
           all == Total(recent, Ages)
<1>5. /\ 0 .. j - 1 \subseteq Ages /\ IsFiniteSet(0 .. j - 1) /\ IsFiniteSet(Ages)
      /\ \A a \in Ages : recent[a] \in Int
      /\ y \in Int /\ all \in Int
  BY <1>3, RecentFacts
<1>6. y = Total(recent, 0 .. k - 1)
  <2>1. CASE count # 0
    BY <1>3, <2>1
  <2>2. CASE count = 0
    <3>1. k = 0 /\ recent[0] = 0
      BY <1>1, <2>2 DEF Covers, KeyInv
    <3>2. 0 .. k - 1 = {} /\ 0 .. j - 1 = 0 .. 0
      BY <1>3, <2>2, <3>1
    <3>3. Total(recent, {}) = 0
      BY TotalEmpty
    <3>4. Total(recent, 0 .. 0) = recent[0] + Total(recent, 0 .. 0 - 1)
      <4>1. \A i \in 0 .. 0 : recent[i] \in Int
        BY <3>1
      <4> QED
        BY <4>1, TotalLast
    <3>5. 0 .. 0 - 1 = {}
      OBVIOUS
    <3>6. Total(recent, 0 .. 0) = 0
      BY <3>1, <3>3, <3>4, <3>5
    <3> QED
      BY <3>2, <3>3, <3>6
  <2> QED
    BY <2>1, <2>2
<1>7. y <= count /\ y <= Limit /\ all <= y + Limit
  BY <1>1, <1>6 DEF Covers
<1>8. /\ Total(recent', 0 .. j - 1) <= count'
      /\ Total(recent', 0 .. j - 1) <= Limit
      /\ Total(recent', Ages) <= Total(recent', 0 .. j - 1) + Limit
  <2>1. CASE recent' = recent
    <3> HIDE DEF y, all
    <3>1. y <= count' /\ y <= Limit /\ all <= y + Limit
      BY <1>2, <1>5, <1>7
    <3> QED
      BY <2>1, <3>1 DEF y, all
  <2>2. CASE Allowed(count') /\ recent' = [recent EXCEPT ![0] = @ + 1]
    <3>1. 0 \in 0 .. j - 1 /\ 0 \in Ages
      BY <1>3, LimitAssumption DEF Ages
    <3>2. /\ \A a \in Ages : recent'[a] \in Int
          /\ \A a \in Ages \ {0} : recent'[a] = recent[a]
          /\ recent'[0] - recent[0] = 1
      BY <1>5, <2>2, <3>1 DEF TypeOK
    <3>3. Total(recent', Ages) = all + (recent'[0] - recent[0])
      <4>1. \A a \in Ages : recent[a] \in Int
        BY <1>5
      <4>2. IsFiniteSet(Ages)
        BY <1>5
      <4> QED
        BY <3>1, <3>2, <4>1, <4>2, TotalUpdate
    <3>4. Total(recent', 0 .. j - 1) = y + (recent'[0] - recent[0])
      <4>1. /\ \A a \in 0 .. j - 1 : recent'[a] \in Int
            /\ \A a \in 0 .. j - 1 : recent[a] \in Int
            /\ \A a \in (0 .. j - 1) \ {0} : recent'[a] = recent[a]
        BY <1>5, <3>2
      <4> DEFINE S == 0 .. j - 1
      <4>2. IsFiniteSet(S) /\ 0 \in S
        BY <1>5, <3>1
      <4> HIDE DEF S
      <4>3. Total(recent', S) = Total(recent, S) + (recent'[0] - recent[0])
        BY <4>1, <4>2, TotalUpdate DEF S
      <4> QED
        BY <4>3 DEF S
    <3> HIDE DEF y, all
    <3>5. count \in Int /\ count' = count + 1 /\ count' <= Limit
      BY <1>2, <2>2
    <3>6. y + 1 <= count' /\ y + 1 <= Limit /\ all + 1 <= (y + 1) + Limit
      BY <1>2, <1>5, <1>7, <3>5
    <3> QED
      BY <3>2, <3>3, <3>4, <3>6
  <2> QED
    BY <2>1, <2>2
<1>9. Covers(j)'
  BY <1>2, <1>3, <1>4, <1>8 DEF Covers
<1>10. j \in 0 .. Window
  BY <1>3
<1> QED
  BY <1>2, <1>9, <1>10 DEF KeyInv

\* Time passes: the requests grow older, and the key covers one unit more or expires.
LEMMA AdvanceKey ==
    ASSUME TypeOK, KeyInv, Advance
    PROVE  KeyInv'
<1>1. PICK k \in 0 .. Window : Covers(k)
  BY DEF KeyInv
<1> DEFINE W == Window - 1
           y == Total(recent, 0 .. k - 1)
           all == Total(recent, Ages)
<1>2. W \in Nat /\ Window = W + 1 /\ Ages = 0 .. W /\ Window \in Nat /\ Limit \in Nat
      /\ count \in Nat
  BY LimitAssumption DEF Ages, TypeOK
<1>3. /\ \A a \in Ages : recent[a] \in Int /\ recent[a] >= 0
      /\ y \in Int /\ all \in Int
  BY RecentFacts
<1>4. y <= count /\ y <= Limit /\ all <= y + Limit
  BY <1>1 DEF Covers
<1>5. recent' = [a \in Ages |-> IF a = 0 THEN 0 ELSE recent[a - 1]]
  BY DEF Advance
<1> HIDE DEF W
<1>6. recent'[0] = 0
  BY <1>2, <1>5
<1>7. ASSUME NEW n \in 0 .. W PROVE Total(recent', 0 .. n) = Total(recent, 0 .. n - 1)
  <2>1. \A i \in 0 .. n - 1 : recent[i] \in Int
    BY <1>2, <1>3
  <2>2. \A i \in 1 .. n : recent'[i] = recent[i - 1]
    BY <1>2, <1>5
  <2>3. n \in Nat
    BY <1>2
  <2> QED
    BY <1>6, <2>1, <2>2, <2>3, TotalShift
<1>8. Total(recent', Ages) \in Int /\ Total(recent', Ages) <= all
  <2>1. all = recent[W] + Total(recent, 0 .. W - 1) /\ Total(recent, 0 .. W - 1) \in Int
    BY <1>2, <1>3, TotalLast
  <2>2. Total(recent', Ages) = Total(recent, 0 .. W - 1)
    BY <1>2, <1>7
  <2>3. recent[W] \in Int /\ recent[W] >= 0
    BY <1>2, <1>3
  <2> HIDE DEF all
  <2> QED
    BY <1>3, <2>1, <2>2, <2>3
<1>9. 0 .. 0 - 1 = {} /\ Total(recent, {}) = 0 /\ Total(recent', {}) = 0
  BY TotalEmpty
<1> DEFINE z == Total(recent', Ages)
<1>10. CASE ttl = 1
  <2>1. count' = 0 /\ ttl' = NoExpiry
    BY <1>10 DEF Advance
  <2>2. k = Window
    BY <1>1, <1>2, <1>10 DEF Covers, NoExpiry
  <2>3. y = all
    BY <1>2, <2>2
  <2>4. z <= Limit
    <3> HIDE DEF y, all, z
    <3>1. z \in Int /\ z <= all
      BY <1>8 DEF z, all
    <3> QED
      BY <1>2, <1>3, <1>4, <2>3, <3>1
  <2>5. Covers(0)'
    BY <1>2, <1>9, <2>1, <2>4 DEF Covers
  <2> QED
    BY <1>2, <1>6, <2>5 DEF KeyInv
<1>11. CASE ttl # 1 /\ count = 0
  <2>1. count' = 0 /\ ttl' = NoExpiry
    BY <1>11 DEF Advance, TypeOK, NoExpiry
  <2>2. k = 0
    BY <1>1, <1>11 DEF Covers
  <2>3. y = 0
    BY <1>9, <2>2
  <2>4. z <= Limit
    <3> HIDE DEF y, all, z
    <3>1. z \in Int /\ z <= all
      BY <1>8 DEF z, all
    <3> QED
      BY <1>2, <1>3, <1>4, <2>3, <3>1
  <2>5. Covers(0)'
    BY <1>2, <1>9, <2>1, <2>4 DEF Covers
  <2> QED
    BY <1>2, <1>6, <2>5 DEF KeyInv
<1>12. CASE ttl # 1 /\ count # 0
  <2>1. count' = count /\ ttl' = IF ttl > 1 THEN ttl - 1 ELSE ttl
    BY <1>12 DEF Advance
  <2>2. k # 0
    BY <1>1, <1>12 DEF Covers
  <2>3. ttl # NoExpiry => ttl \in Nat /\ ttl > 1 /\ k + ttl > Window
    BY <1>1, <1>12 DEF Covers, TypeOK
  <2>4. CASE k # Window
    <3> DEFINE m == k + 1
    <3>1. m \in 1 .. Window /\ k \in 0 .. W /\ m - 1 = k
      BY <1>2, <2>4
    <3> HIDE DEF m
    <3>2. Total(recent', 0 .. m - 1) = y
      BY <1>7, <3>1
    <3>3. ttl' # NoExpiry => m + ttl' > Window
      BY <1>2, <2>1, <2>3 DEF m, NoExpiry
    <3>4. z <= y + Limit
      <4> HIDE DEF y, all, z
      <4>1. z \in Int /\ z <= all
        BY <1>8 DEF z, all
      <4> QED
        BY <1>2, <1>3, <1>4, <4>1
    <3>5. Covers(m)'
      BY <1>4, <1>12, <2>1, <3>1, <3>2, <3>3, <3>4 DEF Covers
    <3>6. m \in 0 .. Window
      BY <1>2, <3>1
    <3> QED
      BY <1>6, <3>5, <3>6 DEF KeyInv
  <2>5. CASE k = Window
    <3>1. y = all /\ 0 .. Window - 1 = Ages
      BY <1>2, <2>5
    <3>2. z <= count /\ z <= Limit /\ z <= z + Limit
      <4> HIDE DEF y, all, z
      <4>1. z \in Int /\ z <= all
        BY <1>8 DEF z, all
      <4> QED
        BY <1>2, <1>3, <1>4, <3>1, <4>1
    <3>3. ttl' # NoExpiry => Window + ttl' > Window
      BY <1>2, <2>1, <2>3 DEF NoExpiry
    <3>4. Covers(Window)'
      BY <1>2, <1>12, <2>1, <2>2, <2>5, <3>1, <3>2, <3>3 DEF Covers
    <3>5. Window \in 0 .. Window
      BY <1>2
    <3> QED
      BY <1>6, <3>4, <3>5 DEF KeyInv
  <2> QED
    BY <2>4, <2>5
<1> QED
  BY <1>10, <1>11, <1>12

\* Every step keeps it.
LEMMA NextKey ==
    ASSUME TypeOK, KeyInv, [Next]_vars
    PROVE  KeyInv'
<1>1. ASSUME NEW r \in Requests, Incr(r) PROVE KeyInv'
  BY <1>1, CountKey DEF Incr, Note
<1>2. ASSUME NEW r \in Requests, AllowInMemory(r) PROVE KeyInv'
  <2>1. Increment(count) = 1 => count = 0
    BY LimitAssumption DEF Increment, TypeOK
  <2> QED
    BY <1>2, <2>1, CountKey DEF AllowInMemory, Note, Life
<1>3. ASSUME NEW r \in Requests, Expire(r) \/ Leave(r) PROVE KeyInv'
  BY <1>3, QuietKey DEF Expire, Leave
<1>4. ASSUME NEW r \in Requests, ExpireFails(r) PROVE KeyInv'
  BY <1>4, QuietKey DEF ExpireFails
<1>5. ASSUME NEW r \in Requests, IncrFails(r) PROVE KeyInv'
  <2>1. count' = count \/ count' = Increment(count)
    BY <1>5 DEF IncrFails
  <2>2. recent' = recent /\ ttl' = ttl
    BY <1>5 DEF IncrFails
  <2> QED
    BY <2>1, <2>2, QuietKey, CountKey
<1>6. CASE UNCHANGED vars
  BY <1>6, QuietKey DEF vars
<1> QED
  BY <1>1, <1>2, <1>3, <1>4, <1>5, <1>6, AdvanceKey DEF Next

\* In no stretch of time as long as the window does the limiter count more than twice
\* Limit requests and let them through, for any limit, window and number of requests.
THEOREM TwiceTheLimit == Spec => []AtMostTwiceTheLimit
<1>1. Init => KeyInv
  <2> SUFFICES ASSUME Init PROVE KeyInv
    OBVIOUS
  <2>1. TypeOK
    BY InitLimit DEF LimitInv
  <2>2. IsFiniteSet(Ages) /\ Window \in Nat /\ Limit \in Nat
    BY LimitAssumption, FS_Interval DEF Ages
  <2>3. \A a \in Ages : recent[a] = 0
    BY DEF Init
  <2>4. Total(recent, Ages) = 0
    BY <2>2, <2>3, TotalZero
  <2>5. 0 .. 0 - 1 = {} /\ Total(recent, {}) = 0
    BY TotalEmpty
  <2>6. Covers(0)
    BY <2>2, <2>4, <2>5 DEF Init, Covers
  <2>7. 0 \in Ages /\ 0 \in 0 .. Window
    BY LimitAssumption DEF Ages
  <2> QED
    BY <2>3, <2>6, <2>7 DEF KeyInv
<1>2. TypeOK /\ KeyInv => AtMostTwiceTheLimit
  <2> SUFFICES ASSUME TypeOK, KeyInv PROVE Total(recent, Ages) <= 2 * Limit
    BY DEF AtMostTwiceTheLimit
  <2>1. PICK k \in 0 .. Window : Covers(k)
    BY DEF KeyInv
  <2>2. Total(recent, 0 .. k - 1) \in Int /\ Total(recent, Ages) \in Int
    BY RecentFacts
  <2> QED
    BY <2>1, <2>2, LimitAssumption DEF Covers
<1> QED
  BY <1>1, <1>2, TypeCorrect, NextKey, PTL DEF Spec
=============================================================================
