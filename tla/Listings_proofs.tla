--------------------------- MODULE Listings_proofs ---------------------------
(***************************************************************************)
(* Proofs about the paged listings, for any table, any limit and any       *)
(* number of pages: what a page holds, and what a sweep over the pages     *)
(* sees while rows come and go.                                            *)
(***************************************************************************)
EXTENDS Listings, Sums_proofs

-----------------------------------------------------------------------------
(* What a page holds.                                                      *)

\* How many of the first m places are in the window of a page.
Window(m, o, n) == IF m <= o THEN 0 ELSE IF m <= o + n THEN m - o ELSE n

\* The rows of V created after c.
Above(V, c) == {j \in V : row[j].at > c}

\* The places of an interval in the window.
LEMMA WindowCount ==
    ASSUME NEW m \in Nat, NEW o \in Nat, NEW n \in Nat
    PROVE  Cardinality((1 .. m) \cap (o + 1 .. o + n)) = Window(m, o, n)
<1> DEFINE e == IF m <= o + n THEN m ELSE o + n
<1>1. e \in Int /\ o + 1 \in Int /\ (1 .. m) \cap (o + 1 .. o + n) = o + 1 .. e
  OBVIOUS
<1>2. Cardinality(o + 1 .. e) = IF o + 1 > e THEN 0 ELSE e - (o + 1) + 1
  BY <1>1, FS_Interval
<1>3. (IF o + 1 > e THEN 0 ELSE e - (o + 1) + 1) = Window(m, o, n)
  BY DEF Window
<1> HIDE DEF e
<1> QED
  BY <1>1, <1>2, <1>3

\* Disjoint finite sets add up.
LEMMA DisjointCount ==
    ASSUME NEW A, NEW B, IsFiniteSet(A), IsFiniteSet(B), A \cap B = {}
    PROVE  /\ IsFiniteSet(A \cup B)
           /\ Cardinality(A \cup B) = Cardinality(A) + Cardinality(B)
           /\ Cardinality(A) \in Nat /\ Cardinality(B) \in Nat
<1>1. Cardinality(A) \in Nat /\ Cardinality(B) \in Nat /\ Cardinality({}) = 0
  BY FS_CardinalityType, FS_EmptySet
<1>2. /\ IsFiniteSet(A \cup B)
      /\ Cardinality(A \cup B) = Cardinality(A) + Cardinality(B) - Cardinality(A \cap B)
  BY FS_Union
<1>3. Cardinality(A \cap B) = 0
  BY <1>1
<1> QED
  BY <1>1, <1>2, <1>3

\* One group of rows created at the same instant, on top of those created later.
LEMMA OneGroup ==
    ASSUME NEW V, IsFiniteSet(V), \A i \in V : row[i].at \in Nat,
           NEW o \in Nat, NEW n \in Nat, NEW S \in PagesOf(V, o, n), NEW k \in V,
           Cardinality(S \cap Newer(V, k)) = Window(Cardinality(Newer(V, k)), o, n)
    PROVE  LET U == Newer(V, k) \cup Tied(V, k) IN
           Cardinality(S \cap U) = Window(Cardinality(U), o, n)
<1> DEFINE N == Newer(V, k)
           T == Tied(V, k)
           W == o + 1 .. o + n
           b == Cardinality(N)
           t == Cardinality(T)
<1>1. /\ N \subseteq V /\ T \subseteq V /\ N \cap T = {} /\ S \subseteq V
      /\ Cardinality(S \cap T) = Cardinality((b + 1 .. b + t) \cap W)
  BY DEF Newer, Tied, PagesOf
<1>2. IsFiniteSet(N) /\ IsFiniteSet(T) /\ IsFiniteSet(S \cap N) /\ IsFiniteSet(S \cap T)
  BY <1>1, FS_Subset
<1>0. Cardinality(S \cap N) = Window(b, o, n)
  OBVIOUS
<1> HIDE DEF N, T
<1>3. b \in Nat /\ t \in Nat /\ Cardinality(N \cup T) = b + t
  BY <1>1, <1>2, DisjointCount
<1>4. Cardinality(S \cap (N \cup T)) = Cardinality(S \cap N) + Cardinality(S \cap T)
  <2>1. (S \cap N) \cap (S \cap T) = {} /\ (S \cap N) \cup (S \cap T) = S \cap (N \cup T)
    BY <1>1
  <2> QED
    BY <1>2, <2>1, DisjointCount
<1> HIDE DEF b, t
<1>5. Cardinality((1 .. b + t) \cap W) =
        Cardinality((1 .. b) \cap W) + Cardinality((b + 1 .. b + t) \cap W)
  <2> DEFINE X == (1 .. b) \cap W
             Y == (b + 1 .. b + t) \cap W
  <2>1. X \cap Y = {} /\ X \cup Y = (1 .. b + t) \cap W
    BY <1>3
  <2>2. IsFiniteSet(X) /\ IsFiniteSet(Y)
    <3>1. IsFiniteSet(W)
      BY FS_Interval
    <3> QED
      BY <3>1, FS_Subset
  <2> HIDE DEF X, Y
  <2>3. Cardinality(X \cup Y) = Cardinality(X) + Cardinality(Y)
    BY <2>1, <2>2, DisjointCount
  <2> QED
    BY <2>1, <2>3 DEF X, Y
<1>6. Cardinality((1 .. b) \cap W) = Window(b, o, n)
  BY <1>3, WindowCount
<1>7. Cardinality((1 .. b + t) \cap W) = Window(b + t, o, n)
  <2> DEFINE z == b + t
  <2>1. z \in Nat
    BY <1>3
  <2> HIDE DEF z
  <2>2. Cardinality((1 .. z) \cap (o + 1 .. o + n)) = Window(z, o, n)
    BY <2>1, WindowCount
  <2> QED
    BY <2>2 DEF z
<1> HIDE DEF W
<1>8. Cardinality(S \cap (N \cup T)) = Cardinality((1 .. b + t) \cap W)
  BY <1>0, <1>1, <1>4, <1>5, <1>6
<1>9. Cardinality(S \cap (N \cup T)) = Window(Cardinality(N \cup T), o, n)
  BY <1>3, <1>7, <1>8
<1> QED
  BY <1>9 DEF N, T

\* The rows created after any instant fill the places from the top, whatever the order
\* of those created together: a smallest set of such rows for which this fails would be
\* one more group than a smaller one.
LEMMA PageAbove ==
    ASSUME NEW V, IsFiniteSet(V), \A i \in V : row[i].at \in Nat,
           NEW o \in Nat, NEW n \in Nat, NEW S \in PagesOf(V, o, n), NEW c \in Int
    PROVE  Cardinality(S \cap Above(V, c)) = Window(Cardinality(Above(V, c)), o, n)
<1> DEFINE size(d) == Cardinality(Above(V, d))
           Right(d) == Cardinality(S \cap Above(V, d)) = Window(size(d), o, n)
           Wrong == {m \in Nat : \E d \in Int : m = size(d) /\ ~Right(d)}
<1>1. ASSUME NEW d \in Int PROVE IsFiniteSet(Above(V, d)) /\ size(d) \in Nat
  <2>1. Above(V, d) \subseteq V
    BY DEF Above
  <2> QED
    BY <2>1, FS_Subset, FS_CardinalityType
<1>2. SUFFICES ASSUME ~Right(c) PROVE FALSE
  OBVIOUS
<1>3. Wrong \in SUBSET Nat /\ Wrong # {}
  BY <1>1, <1>2
<1>4. PICK m \in Wrong : \A k \in Wrong : m <= k
  <2> HIDE DEF Wrong
  <2> QED
    BY <1>3, LeastNatural
<1>5. PICK d \in Int : m = size(d) /\ ~Right(d)
  BY <1>4
<1>6. ASSUME NEW a \in Int, size(a) < m PROVE Right(a)
  <2>1. ~Right(a) => size(a) \in Wrong
    BY <1>1
  <2>2. size(a) \in Nat /\ m \in Nat
    BY <1>1, <1>3
  <2> HIDE DEF size, Right, Wrong
  <2> QED
    BY <1>4, <1>6, <2>1, <2>2
<1>7. Above(V, d) # {}
  <2>1. ASSUME Above(V, d) = {} PROVE Right(d)
    <3>1. size(d) = 0 /\ Cardinality(S \cap Above(V, d)) = 0
      BY <2>1, FS_EmptySet
    <3> QED
      BY <3>1 DEF Window
  <2> QED
    BY <1>5, <2>1
<1>8. PICK k \in Above(V, d) : \A j \in Above(V, d) : row[k].at <= row[j].at
  <2> DEFINE A == {row[j].at : j \in Above(V, d)}
  <2>1. A \in SUBSET Nat /\ A # {}
    BY <1>7 DEF Above
  <2>2. PICK l \in A : \A a \in A : l <= a
    <3> HIDE DEF A
    <3> QED
      BY <2>1, LeastNatural
  <2> QED
    BY <2>2
<1>9. /\ k \in V /\ row[k].at \in Int
      /\ Newer(V, k) = Above(V, row[k].at)
      /\ Newer(V, k) \cup Tied(V, k) = Above(V, d)
      /\ k \in Above(V, d) /\ k \notin Newer(V, k) /\ Newer(V, k) \subseteq Above(V, d)
  <2>1. k \in V /\ row[k].at \in Nat /\ row[k].at > d
    BY <1>8 DEF Above
  <2>2. ASSUME NEW j \in V
        PROVE  j \in Above(V, d) <=> row[j].at > row[k].at \/ row[j].at = row[k].at
    <3>1. row[j].at \in Nat
      OBVIOUS
    <3>2. j \in Above(V, d) => row[k].at <= row[j].at
      BY <1>8
    <3> QED
      BY <2>1, <3>1, <3>2 DEF Above
  <2> QED
    BY <1>8, <2>1, <2>2 DEF Above, Newer, Tied
<1>10. size(row[k].at) < m
  <2> DEFINE A == Above(V, d)
             B == Newer(V, k)
  <2>1. IsFiniteSet(A) /\ m = Cardinality(A) /\ m \in Nat
    BY <1>1, <1>5
  <2>2. B \subseteq A /\ B # A
    BY <1>9
  <2> HIDE DEF A, B
  <2>3. Cardinality(B) <= Cardinality(A) /\ Cardinality(B) # Cardinality(A) /\ Cardinality(B) \in Nat
    BY <2>1, <2>2, FS_Subset, FS_CardinalityType
  <2>4. Cardinality(B) < m
    BY <2>1, <2>3
  <2> QED
    BY <1>9, <2>4 DEF B
<1>11. Right(row[k].at)
  BY <1>6, <1>9, <1>10
<1>12. Right(d)
  <2>1. Cardinality(S \cap Newer(V, k)) = Window(Cardinality(Newer(V, k)), o, n)
    BY <1>9, <1>11
  <2>2. Cardinality(S \cap (Newer(V, k) \cup Tied(V, k))) =
          Window(Cardinality(Newer(V, k) \cup Tied(V, k)), o, n)
    BY <1>9, <2>1, OneGroup
  <2> QED
    BY <1>9, <2>2
<1> QED
  BY <1>5, <1>12

\* A page is as full as the rows left for it allow.
LEMMA PageSize ==
    ASSUME NEW V, IsFiniteSet(V), \A i \in V : row[i].at \in Nat,
           NEW o \in Nat, NEW n \in Nat, NEW S \in PagesOf(V, o, n)
    PROVE  Cardinality(S) = Window(Cardinality(V), o, n)
<1>1. Above(V, -1) = V /\ S \cap V = S
  BY DEF Above, PagesOf
<1>2. Cardinality(S \cap Above(V, -1)) = Window(Cardinality(Above(V, -1)), o, n)
  <2>1. -1 \in Int
    OBVIOUS
  <2> QED
    BY <2>1, PageAbove
<1> QED
  BY <1>1, <1>2

\* A row that shares its instant with no other is on the page of its place.
LEMMA PagePlace ==
    ASSUME NEW V, IsFiniteSet(V), NEW o \in Nat, NEW n \in Nat,
           NEW S \in PagesOf(V, o, n), NEW i \in V, Tied(V, i) = {i}
    PROVE  LET r == Cardinality(Newer(V, i)) IN i \in S <=> o <= r /\ r < o + n
<1> DEFINE r == Cardinality(Newer(V, i))
           W == o + 1 .. o + n
<1>1. r \in Nat
  <2>1. Newer(V, i) \subseteq V
    BY DEF Newer
  <2> QED
    BY <2>1, FS_Subset, FS_CardinalityType
<1>2. Cardinality({i}) = 1 /\ Cardinality({r + 1}) = 1 /\ Cardinality({}) = 0
  BY FS_Singleton, FS_EmptySet
<1>3. Cardinality(S \cap Tied(V, i)) =
        Cardinality((r + 1 .. r + Cardinality(Tied(V, i))) \cap W)
  BY DEF PagesOf
<1>4. Cardinality(S \cap {i}) = Cardinality((r + 1 .. r + 1) \cap W)
  BY <1>2, <1>3
<1> HIDE DEF r
<1>5. i \in S => S \cap {i} = {i}
  OBVIOUS
<1>6. i \notin S => S \cap {i} = {}
  OBVIOUS
<1>7. r + 1 \in W => (r + 1 .. r + 1) \cap W = {r + 1}
  BY <1>1
<1>8. r + 1 \notin W => (r + 1 .. r + 1) \cap W = {}
  BY <1>1
<1>9. r + 1 \in W <=> o <= r /\ r < o + n
  BY <1>1
<1> HIDE DEF W
<1>10. i \in S <=> r + 1 \in W
  BY <1>2, <1>4, <1>5, <1>6, <1>7, <1>8
<1> QED
  BY <1>9, <1>10 DEF r

-----------------------------------------------------------------------------
(* How the rows move.                                                      *)

\* The rows there are, committed or not.
Written == {i \in Ids : row[i].state # "none"}

\* What the history says of the rows, and whose listing has which.
BaseInv ==
    /\ TypeOK
    /\ IsFiniteSet(Written)
    /\ items \subseteq Written
    /\ pc \in {"idle", "count"} => items = {}
    /\ start \subseteq Visible \cup left
    /\ own \subseteq Visible
    /\ \A i \in left : row[i].state = "committed" /\ ~row[i].match
    /\ own # {} => listing = "audit"
    /\ left # {} => listing = "admin"
    /\ quiet => left = {} /\ own = {}
    /\ pc = "idle" => /\ start = {} /\ seen = {} /\ own = {} /\ left = {}
                      /\ ~twice /\ quiet /\ params.page = 1

\* A row that is there stays, with its created_at.
Kept == \A i \in Written : i \in Written' /\ row'[i].at = row[i].at

\* Where the rows of the history are.
LEMMA BaseFacts ==
    ASSUME BaseInv
    PROVE  /\ row \in [Ids -> Row]
           /\ Visible \subseteq Written /\ left \subseteq Written /\ Visible \cap left = {}
           /\ \A i \in Written : row[i].at \in Nat
           /\ IsFiniteSet(Visible) /\ IsFiniteSet(left) /\ IsFiniteSet(own)
           /\ IsFiniteSet(start) /\ IsFiniteSet(items)
<1>1. row \in [Ids -> Row] /\ left \subseteq Ids
  BY DEF BaseInv, TypeOK
<1>2. \A i \in left : row[i].state = "committed" /\ ~row[i].match
  BY DEF BaseInv
<1>3. Visible \subseteq Written /\ left \subseteq Written /\ Visible \cap left = {}
  BY <1>1, <1>2 DEF Visible, Committed, Written
<1>4. \A i \in Written : row[i].at \in Nat
  BY <1>1 DEF Written, Row
<1>5. IsFiniteSet(Written) /\ items \subseteq Written /\ start \subseteq Visible \cup left
      /\ own \subseteq Visible
  BY DEF BaseInv
<1> QED
  BY <1>1, <1>3, <1>4, <1>5, FS_Subset

\* An insert.
LEMMA StampEffect ==
    ASSUME BaseInv, NEW i \in Ids, NEW state \in {"open", "committed"}, NEW match \in BOOLEAN,
           Stamp(i, state, match)
    PROVE  /\ row' \in [Ids -> Row] /\ i \notin Written /\ Kept
           /\ IsFiniteSet(Written') /\ i \in Written' /\ Written \subseteq Written'
           /\ \A j \in Written : row'[j] = row[j]
           /\ state = "committed" /\ match => Visible' = Visible \cup {i}
           /\ ~(state = "committed" /\ match) => Visible' = Visible
<1>1. row \in [Ids -> Row] /\ IsFiniteSet(Written) /\ row[i].state = "none"
  BY DEF BaseInv, TypeOK, Stamp
<1>2. PICK latest \in {0} \cup {row[j].at : j \in Ids} :
        \E at \in {latest, latest + 1} \ {0} :
            row' = [row EXCEPT ![i] = [state |-> state, at |-> at, match |-> match]]
  BY DEF Stamp
<1>3. PICK at \in {latest, latest + 1} :
        row' = [row EXCEPT ![i] = [state |-> state, at |-> at, match |-> match]]
  BY <1>2
<1>4. latest \in Nat /\ at \in Nat
  <2>1. \A j \in Ids : row[j].at \in Nat
    BY <1>1 DEF Row
  <2>2. latest \in Nat
    BY <1>2, <2>1
  <2> QED
    BY <1>3, <2>2
<1> DEFINE r == [state |-> state, at |-> at, match |-> match]
<1>5. r \in Row /\ r.state = state /\ r.match = match
  BY <1>4 DEF Row
<1>6. row' = [row EXCEPT ![i] = r]
  BY <1>3
<1> HIDE DEF r
<1>7. /\ row' \in [Ids -> Row] /\ row'[i] = r
      /\ \A j \in Ids : j # i => row'[j] = row[j]
  BY <1>1, <1>5, <1>6
<1>8. i \notin Written /\ \A j \in Written : row'[j] = row[j]
  BY <1>1, <1>7 DEF Written
<1>9. Written' = Written \cup {i}
  BY <1>1, <1>5, <1>7 DEF Written
<1>10. IsFiniteSet(Written')
  BY <1>1, <1>9, FS_AddElement
<1>11. Kept
  BY <1>8, <1>9 DEF Kept
<1>12. ASSUME NEW j \in Ids
       PROVE  j \in Visible' <=> IF j = i THEN state = "committed" /\ match ELSE j \in Visible
  BY <1>5, <1>7 DEF Visible, Committed
<1>13. Visible \subseteq Ids /\ Visible' \subseteq Ids /\ i \notin Visible
  BY <1>1 DEF Visible, Committed
<1> QED
  BY <1>7, <1>8, <1>9, <1>10, <1>11, <1>12, <1>13

\* A commit.
LEMMA CommitEffect ==
    ASSUME BaseInv, NEW i \in Ids, Commit(i)
    PROVE  /\ row' \in [Ids -> Row] /\ Kept /\ Written' = Written
           /\ i \notin Visible /\ i \notin left
           /\ \A j \in Ids : j # i => row'[j] = row[j]
           /\ Visible' = Visible \/ Visible' = Visible \cup {i}
<1>1. /\ row \in [Ids -> Row] /\ row[i].state = "open" /\ left \subseteq Ids
      /\ row' = [row EXCEPT ![i].state = "committed"]
      /\ \A j \in left : row[j].state = "committed"
  BY DEF BaseInv, TypeOK, Commit
<1>2. row[i] \in Row
  BY <1>1
<1>3. /\ row'[i] \in Row /\ row'[i].state = "committed" /\ row'[i].at = row[i].at
      /\ row'[i].match = row[i].match
  BY <1>1, <1>2 DEF Row
<1>4. /\ row' \in [Ids -> Row]
      /\ \A j \in Ids : j # i => row'[j] = row[j]
  BY <1>1, <1>3
<1>5. i \notin Visible /\ i \notin left
  BY <1>1 DEF Visible, Committed
<1>6. Written' = Written
  BY <1>1, <1>3, <1>4 DEF Written
<1>7. Kept
  BY <1>3, <1>4, <1>6 DEF Kept, Written
<1>8. ASSUME NEW j \in Ids, j # i PROVE j \in Visible' <=> j \in Visible
  BY <1>4, <1>8 DEF Visible, Committed
<1>9. Visible \subseteq Ids /\ Visible' \subseteq Ids
  BY DEF Visible, Committed
<1> QED
  BY <1>4, <1>5, <1>6, <1>7, <1>8, <1>9

\* A delivery gets another status.
LEMMA SettleEffect ==
    ASSUME BaseInv, NEW i \in Ids, Settle(i)
    PROVE  /\ row' \in [Ids -> Row] /\ Kept /\ Written' = Written
           /\ i \in Visible /\ i \notin left
           /\ \A j \in Ids : j # i => row'[j] = row[j]
           /\ row'[i].state = "committed" /\ ~row'[i].match
           /\ Visible' = Visible \ {i} /\ left' = left \cup {i}
<1>1. /\ row \in [Ids -> Row] /\ i \in Visible /\ left' = left \cup {i}
      /\ row' = [row EXCEPT ![i].match = FALSE]
  BY DEF BaseInv, TypeOK, Settle
<1>2. row[i] \in Row /\ row[i].state = "committed" /\ i \notin left
  BY <1>1, BaseFacts DEF Visible, Committed
<1>3. /\ row'[i] \in Row /\ row'[i].state = "committed" /\ row'[i].at = row[i].at
      /\ ~row'[i].match
  BY <1>1, <1>2 DEF Row
<1>4. /\ row' \in [Ids -> Row]
      /\ \A j \in Ids : j # i => row'[j] = row[j]
  BY <1>1, <1>3
<1>6. Written' = Written
  BY <1>2, <1>3, <1>4 DEF Written
<1>7. Kept
  BY <1>3, <1>4, <1>6 DEF Kept, Written
<1>8. ASSUME NEW j \in Ids PROVE j \in Visible' <=> j \in Visible /\ j # i
  BY <1>3, <1>4 DEF Visible, Committed
<1>9. Visible \subseteq Ids /\ Visible' \subseteq Ids
  BY DEF Visible, Committed
<1> QED
  BY <1>1, <1>2, <1>3, <1>4, <1>6, <1>7, <1>8, <1>9

\* A step that leaves the rows alone.
LEMMA RowsAlone ==
    ASSUME BaseInv, row' = row
    PROVE  Kept /\ Written' = Written /\ Visible' = Visible
  BY DEF Kept, Written, Visible, Committed

-----------------------------------------------------------------------------
(* The request.                                                            *)

\* What pagination.New makes of its arguments.
LEMMA NewFacts ==
    ASSUME NEW page \in Int, NEW limit \in Int
    PROVE  /\ New(page, limit) \in [page : Nat \ {0}, limit : 1 .. MaxLimit]
           /\ page <= 1 => New(page, limit).page = 1
           /\ page >= 1 /\ limit \in 1 .. MaxLimit =>
                New(page, limit).page = page /\ New(page, limit).limit = limit
<1> DEFINE p == IF page < 1 THEN 1 ELSE page
           l == IF limit < 1 THEN DefaultLimit ELSE IF limit > MaxLimit THEN MaxLimit ELSE limit
<1>1. p \in Nat \ {0} /\ l \in 1 .. MaxLimit
  BY ListingAssumption
<1>2. /\ page <= 1 => p = 1
      /\ page >= 1 /\ limit \in 1 .. MaxLimit => p = page /\ l = limit
  BY ListingAssumption
<1>3. New(page, limit) = [page |-> p, limit |-> l]
  BY DEF New
<1> HIDE DEF p, l
<1> QED
  BY <1>1, <1>2, <1>3

\* The parameters of a request are numbers.
LEMMA ParamFacts ==
    ASSUME BaseInv
    PROVE  /\ params.page \in Nat /\ params.page >= 1
           /\ params.limit \in Nat /\ params.limit >= 1 /\ params.limit \in 1 .. MaxLimit
           /\ Offset(params) \in Nat /\ params.page * params.limit \in Nat
           /\ Offset(params) + params.limit = params.page * params.limit
<1>1. params \in [page : Nat \ {0}, limit : 1 .. MaxLimit]
  BY DEF BaseInv, TypeOK
<1>2. params.page \in Nat \ {0} /\ params.limit \in 1 .. MaxLimit
  BY <1>1
<1>3. MaxLimit \in Nat
  BY ListingAssumption
<1>4. ASSUME NEW p \in Nat, NEW l \in Nat, p >= 1
      PROVE  /\ (p - 1) * l \in Nat /\ p * l \in Nat
             /\ (p - 1) * l + l = p * l
  <2>1. (p - 1) * l = p * l - l
    OBVIOUS
  <2>2. p - 1 \in Nat
    BY <1>4
  <2>3. (p - 1) * l \in Nat /\ p * l \in Nat
    BY <2>2
  <2> QED
    BY <2>1, <2>3
<1>5. params.page \in Nat /\ params.page >= 1 /\ params.limit \in Nat /\ params.limit >= 1
  BY <1>2, <1>3
<1> QED
  BY <1>2, <1>4, <1>5 DEF Offset

\* What Find returns.
LEMMA FindFacts ==
    ASSUME BaseInv, Find
    PROVE  /\ items' \in PagesOf(Visible, Offset(params), params.limit)
           /\ items' \subseteq Visible
           /\ Cardinality(items') = Window(Cardinality(Visible), Offset(params), params.limit)
           /\ Cardinality(items') <= params.limit /\ Cardinality(items') \in Nat
           /\ Cardinality(items') < params.limit =>
                Cardinality(Visible) < params.page * params.limit
           /\ Cardinality(items') >= params.limit =>
                Cardinality(Visible) >= params.page * params.limit
<1>1. items' \in PagesOf(Visible, Offset(params), params.limit)
  BY DEF Find
<1>2. items' \subseteq Visible
  BY <1>1 DEF PagesOf
<1>3. /\ Offset(params) \in Nat /\ params.limit \in Nat
      /\ Offset(params) + params.limit = params.page * params.limit
  BY ParamFacts
<1>4. IsFiniteSet(Visible) /\ \A i \in Visible : row[i].at \in Nat
  BY BaseFacts
<1>5. Cardinality(items') = Window(Cardinality(Visible), Offset(params), params.limit)
  BY <1>1, <1>3, <1>4, PageSize
<1>6. Cardinality(Visible) \in Nat
  BY <1>4, FS_CardinalityType
<1>8. params.limit # 0
  BY ParamFacts
<1> DEFINE m == Cardinality(Visible)
           o == Offset(params)
           n == params.limit
<1>9. m \in Nat /\ o \in Nat /\ n \in Nat /\ n # 0
  BY <1>3, <1>6, <1>8
<1>7. o + n = params.page * params.limit
  BY <1>3
<1>10. Cardinality(items') = Window(m, o, n)
  BY <1>5
<1> HIDE DEF m, o, n
<1>11. /\ Cardinality(items') \in Nat /\ Cardinality(items') <= n
       /\ Cardinality(items') < n => m < o + n
       /\ Cardinality(items') >= n => m >= o + n
  BY <1>9, <1>10 DEF Window
<1> QED
  BY <1>1, <1>2, <1>5, <1>9, <1>11, <1>7 DEF m, n

\* The next page, or the end.
LEMMA ReplyFacts ==
    ASSUME BaseInv, Reply
    PROVE  /\ UNCHANGED <<row, listing, history>> /\ pc = "reply"
           /\ \/ /\ Cardinality(items) < params.limit /\ pc' = "done"
                 /\ UNCHANGED <<params, total, items>>
              \/ /\ Cardinality(items) >= params.limit /\ pc' = "count"
                 /\ params' \in [page : Nat \ {0}, limit : 1 .. MaxLimit]
                 /\ params'.page = params.page + 1 /\ params'.limit = params.limit
                 /\ Offset(params)' = params.page * params.limit
                 /\ total' = 0 /\ items' = {}
<1>1. /\ params.page \in Nat /\ params.page >= 1 /\ params.limit \in Int
      /\ params.limit \in 1 .. MaxLimit /\ params.page + 1 \in Int
  BY ParamFacts
<1>2. Cardinality(items) \in Nat
  BY BaseFacts, FS_CardinalityType
<1>3. CASE Cardinality(items) < params.limit
  BY <1>3 DEF Reply
<1>4. CASE ~(Cardinality(items) < params.limit)
  <2>1. /\ pc' = "count" /\ params' = New(params.page + 1, params.limit)
        /\ total' = 0 /\ items' = {} /\ UNCHANGED <<row, listing, history>> /\ pc = "reply"
    BY <1>4 DEF Reply
  <2>2. /\ params' \in [page : Nat \ {0}, limit : 1 .. MaxLimit]
        /\ params'.page = params.page + 1 /\ params'.limit = params.limit
    <3> DEFINE p == params.page + 1
               l == params.limit
    <3>1. p \in Int /\ p >= 1 /\ l \in Int /\ l \in 1 .. MaxLimit /\ params' = New(p, l)
      BY <1>1, <2>1
    <3> HIDE DEF p, l
    <3>2. /\ params' \in [page : Nat \ {0}, limit : 1 .. MaxLimit]
          /\ params'.page = p /\ params'.limit = l
      BY <3>1, NewFacts
    <3> QED
      BY <3>2 DEF p, l
  <2>3. Offset(params)' = params.page * params.limit
    <3>1. Offset(params') = Offset(params)'
      BY DEF Offset
    <3>2. ASSUME NEW q, NEW p \in Nat, NEW l \in Nat, q.page = p + 1, q.limit = l
          PROVE  Offset(q) = p * l
      <4>1. p + 1 - 1 = p
        OBVIOUS
      <4>2. Offset(q) = (q.page - 1) * q.limit
        BY DEF Offset
      <4>3. q.page - 1 = p
        BY <3>2, <4>1
      <4> QED
        BY <3>2, <4>2, <4>3, Zenon
    <3>3. params.page \in Nat /\ params.limit \in Nat
      BY ParamFacts
    <3> QED
      BY <2>2, <3>1, <3>2, <3>3
  <2> QED
    BY <1>1, <1>2, <1>4, <2>1, <2>2, <2>3
<1> QED
  BY <1>3, <1>4

\* The steps of a sweep, and the others.
Writes == UNCHANGED <<request, start, seen, twice, own>> /\
          \/ \E i \in Ids : (\E match \in BOOLEAN : Insert(i, match)) \/ Commit(i) \/ Settle(i)
          \/ UNCHANGED vars

\* One of these is every step.
LEMMA Kinds ==
    ASSUME [Next]_vars
    PROVE  \/ \E l \in {"mine", "admin", "audit"}, page \in Pages, limit \in Limits :
                Begin(l, page, limit)
           \/ Count \/ Find \/ ReadFails \/ RecordAuditRead \/ RecordOutside \/ Reply \/ End
           \/ Writes
<1>1. ASSUME NEW i \in Ids, (\E match \in BOOLEAN : Insert(i, match)) \/ Commit(i) \/ Settle(i)
      PROVE  UNCHANGED <<request, start, seen, twice, own>>
  BY <1>1 DEF Insert, Commit, Settle, history
<1>2. CASE UNCHANGED vars
  BY <1>2 DEF vars, history, Writes
<1> QED
  BY <1>1, <1>2 DEF Next, Writes

-----------------------------------------------------------------------------
(* The history is about the rows.                                          *)

\* A step of the request that changes neither rows nor history.
LEMMA RequestBase ==
    ASSUME BaseInv, UNCHANGED <<row, listing, history>>, pc # "idle",
           pc' \in {"count", "find", "record", "reply", "done"},
           params' \in [page : Nat \ {0}, limit : 1 .. MaxLimit],
           total' \in Nat, gone' \subseteq Ids, pc' = "count" => items' = {},
           items' = {} \/ (items' = items /\ params' = params)
    PROVE  BaseInv'
<1>1. Kept /\ Written' = Written /\ Visible' = Visible
  BY RowsAlone
<1>2. UNCHANGED <<start, seen, twice, own, left, quiet>>
  BY DEF history
<1>3. items' \subseteq Written' /\ items' \subseteq Ids /\ Cardinality(items') <= params'.limit
  <2>1. CASE items' = items /\ params' = params
    BY <1>1, <2>1 DEF BaseInv, TypeOK
  <2>2. CASE items' = {}
    <3>1. Cardinality(items') = 0 /\ params'.limit \in 1 .. MaxLimit
      BY <2>2, FS_EmptySet
    <3> QED
      BY <2>2, <3>1
  <2> QED
    BY <2>1, <2>2
<1>4. TypeOK'
  BY <1>2, <1>3 DEF BaseInv, TypeOK
<1> QED
  BY <1>1, <1>2, <1>3, <1>4 DEF BaseInv

\* A sweep begins.
LEMMA BeginBase ==
    ASSUME BaseInv, NEW l \in {"mine", "admin", "audit"}, NEW page \in Pages,
           NEW limit \in Limits, Begin(l, page, limit)
    PROVE  BaseInv' /\ params'.page = 1
<1>1. /\ pc = "idle" /\ pc' = "count" /\ listing' = l /\ params' = New(page, limit)
      /\ start' = Visible /\ row' = row
      /\ UNCHANGED <<total, items, seen, twice, own, left, quiet, gone>>
  BY DEF Begin
<1>2. Kept /\ Written' = Written /\ Visible' = Visible
  BY <1>1, RowsAlone
<1>3. page \in Int /\ limit \in Int /\ page <= 1
  BY ListingAssumption
<1>4. params' \in [page : Nat \ {0}, limit : 1 .. MaxLimit] /\ params'.page = 1
  BY <1>1, <1>3, NewFacts
<1>5. own = {} /\ left = {} /\ quiet
  BY <1>1 DEF BaseInv
<1>6. items = {} => items' \subseteq Written'
  BY <1>1
<1>7. TypeOK'
  <2>1. Visible \subseteq Ids
    BY DEF Visible, Committed
  <2>2. Cardinality(items') <= params'.limit
    <3>1. items = {}
      BY <1>1 DEF BaseInv
    <3>2. Cardinality(items') = 0 /\ params'.limit \in 1 .. MaxLimit
      BY <1>1, <1>4, <3>1, FS_EmptySet
    <3> QED
      BY <3>2
  <2> QED
    BY <1>1, <1>4, <2>1, <2>2 DEF BaseInv, TypeOK
<1> QED
  BY <1>1, <1>2, <1>4, <1>5, <1>7 DEF BaseInv

\* A page is found.
LEMMA FindBase ==
    ASSUME BaseInv, Find
    PROVE  BaseInv'
<1>1. /\ pc = "find" /\ pc' \in {"record", "reply"} /\ row' = row
      /\ UNCHANGED <<listing, params, total, start, own, left, quiet, gone>>
      /\ seen' = seen \cup items' /\ twice' \in BOOLEAN
  BY DEF Find
<1>2. Kept /\ Written' = Written /\ Visible' = Visible
  BY <1>1, RowsAlone
<1>3. items' \subseteq Written /\ Cardinality(items') <= params.limit
  BY FindFacts, BaseFacts
<1>4. Written \subseteq Ids
  BY DEF Written
<1>5. TypeOK'
  BY <1>1, <1>3, <1>4 DEF BaseInv, TypeOK
<1> QED
  BY <1>1, <1>2, <1>3, <1>5 DEF BaseInv

\* The read of the audit log is recorded in it.
LEMMA RecordBase ==
    ASSUME BaseInv, RecordAuditRead
    PROVE  /\ BaseInv' /\ Kept
           /\ \E i \in Ids : /\ i \notin Written
                             /\ own' = own \cup {i} /\ Visible' = Visible \cup {i}
<1>1. /\ pc = "record" /\ listing = "audit" /\ pc' = "reply" /\ ~quiet'
      /\ UNCHANGED <<listing, params, total, items, start, seen, twice, left, gone>>
      /\ quiet' \in BOOLEAN
  BY DEF RecordAuditRead
<1>2. PICK i \in Ids : Stamp(i, "committed", TRUE) /\ own' = own \cup {i}
  BY DEF RecordAuditRead
<1>3. /\ row' \in [Ids -> Row] /\ i \notin Written /\ Kept
      /\ IsFiniteSet(Written') /\ i \in Written' /\ Written \subseteq Written'
      /\ \A j \in Written : row'[j] = row[j]
      /\ Visible' = Visible \cup {i}
  BY <1>2, StampEffect
<1>4. left = {}
  BY <1>1 DEF BaseInv
<1>5. TypeOK'
  BY <1>1, <1>2, <1>3 DEF BaseInv, TypeOK
<1>6. BaseInv'
  BY <1>1, <1>2, <1>3, <1>4, <1>5 DEF BaseInv
<1> QED
  BY <1>2, <1>3, <1>6

\* A sweep ends.
LEMMA EndBase ==
    ASSUME BaseInv, End
    PROVE  BaseInv'
<1>1. /\ pc' = "idle" /\ listing' = "mine" /\ params' = [page |-> 1, limit |-> DefaultLimit]
      /\ total' = 0 /\ items' = {} /\ start' = {} /\ seen' = {} /\ own' = {} /\ left' = {}
      /\ gone' = {} /\ ~twice' /\ quiet' /\ twice' \in BOOLEAN /\ quiet' \in BOOLEAN /\ row' = row
  BY DEF End
<1>2. Kept /\ Written' = Written /\ Visible' = Visible
  BY <1>1, RowsAlone
<1>3. /\ params' \in [page : Nat \ {0}, limit : 1 .. MaxLimit] /\ params'.page = 1
      /\ params'.limit >= 1 /\ Cardinality(items') = 0
  BY <1>1, ListingAssumption, FS_EmptySet
<1>4. TypeOK'
  <2>1. Cardinality(items') <= params'.limit
    BY <1>1, <1>3, ListingAssumption
  <2> QED
    BY <1>1, <1>3, <2>1 DEF BaseInv, TypeOK
<1> QED
  BY <1>1, <1>2, <1>3, <1>4 DEF BaseInv

\* What the writers do to the listing.
LEMMA WritesBase ==
    ASSUME BaseInv, Writes
    PROVE  /\ BaseInv' /\ Kept
           /\ \/ /\ Visible' = Visible /\ left' = left /\ (quiet' => quiet \/ pc = "idle")
              \/ /\ \E i \in Ids : i \notin Visible \cup left /\ Visible' = Visible \cup {i}
                 /\ left' = left /\ (quiet' => pc = "idle")
              \/ /\ \E i \in Visible :
                      i \notin left /\ Visible' = Visible \ {i} /\ left' = left \cup {i}
                 /\ listing = "admin" /\ pc # "idle" /\ ~quiet'
<1>0. /\ UNCHANGED <<pc, listing, params, total, items, start, seen, twice, own>>
  BY DEF Writes, request
<1>1. ASSUME NEW i \in Ids, NEW match \in BOOLEAN, Insert(i, match)
      PROVE  BaseInv' /\ Kept /\ Visible' = Visible /\ left' = left /\ quiet' = quiet
  <2> DEFINE state == IF match THEN "open" ELSE "committed"
  <2>1. Stamp(i, state, match) /\ left' = left /\ quiet' = quiet /\ gone' = gone
    BY <1>1 DEF Insert, history
  <2>2. state \in {"open", "committed"} /\ ~(state = "committed" /\ match)
    OBVIOUS
  <2> HIDE DEF state
  <2>3. /\ row' \in [Ids -> Row] /\ Kept
        /\ IsFiniteSet(Written') /\ Written \subseteq Written'
        /\ \A j \in Written : row'[j] = row[j]
        /\ Visible' = Visible
    BY <2>1, <2>2, StampEffect
  <2>4. TypeOK'
    BY <1>0, <2>1, <2>3 DEF BaseInv, TypeOK
  <2>5. \A j \in left' : row'[j].state = "committed" /\ ~row'[j].match
    BY <2>1, <2>3, BaseFacts DEF BaseInv
  <2> QED
    BY <1>0, <2>1, <2>3, <2>4, <2>5 DEF BaseInv
<1>2. ASSUME NEW i \in Ids, Commit(i)
      PROVE  /\ BaseInv' /\ Kept /\ left' = left /\ (quiet' => pc = "idle")
             /\ i \notin Visible \cup left
             /\ Visible' = Visible \/ Visible' = Visible \cup {i}
  <2>1. /\ row' \in [Ids -> Row] /\ Kept /\ Written' = Written
        /\ i \notin Visible /\ i \notin left
        /\ \A j \in Ids : j # i => row'[j] = row[j]
        /\ Visible' = Visible \/ Visible' = Visible \cup {i}
    BY <1>2, CommitEffect
  <2>2. left' = left /\ quiet' = (pc = "idle") /\ quiet' \in BOOLEAN /\ gone' = gone
    BY <1>2 DEF Commit
  <2>3. TypeOK'
    BY <1>0, <2>1, <2>2 DEF BaseInv, TypeOK
  <2>4. \A j \in left' : row'[j].state = "committed" /\ ~row'[j].match
    BY <2>1, <2>2 DEF BaseInv, TypeOK
  <2>5. quiet' => pc = "idle"
    BY <2>2
  <2>6. pc' = "idle" => quiet'
    BY <1>0, <2>2
  <2>7. BaseInv'
    BY <1>0, <2>1, <2>2, <2>3, <2>4, <2>5, <2>6 DEF BaseInv
  <2> QED
    BY <2>1, <2>2, <2>5, <2>7
<1>3. ASSUME NEW i \in Ids, Settle(i)
      PROVE  /\ BaseInv' /\ Kept /\ listing = "admin" /\ pc # "idle" /\ ~quiet'
             /\ i \in Visible /\ i \notin left
             /\ Visible' = Visible \ {i} /\ left' = left \cup {i}
  <2>1. /\ row' \in [Ids -> Row] /\ Kept /\ Written' = Written
        /\ i \in Visible /\ i \notin left
        /\ \A j \in Ids : j # i => row'[j] = row[j]
        /\ row'[i].state = "committed" /\ ~row'[i].match
        /\ Visible' = Visible \ {i} /\ left' = left \cup {i}
    BY <1>3, SettleEffect
  <2>2. /\ listing = "admin" /\ pc # "idle" /\ ~quiet' /\ quiet' \in BOOLEAN
        /\ gone' \subseteq gone \cup {i}
    BY <1>3 DEF Settle
  <2>3. TypeOK'
    BY <1>0, <2>1, <2>2 DEF BaseInv, TypeOK
  <2>4. \A j \in left' : row'[j].state = "committed" /\ ~row'[j].match
    BY <2>1 DEF BaseInv, TypeOK
  <2>5. own = {}
    BY <2>2 DEF BaseInv
  <2>6. BaseInv'
    BY <1>0, <2>1, <2>2, <2>3, <2>4, <2>5 DEF BaseInv
  <2> QED
    BY <2>1, <2>2, <2>6
<1>4. ASSUME UNCHANGED vars
      PROVE  BaseInv' /\ Kept /\ Visible' = Visible /\ left' = left /\ quiet' = quiet
  <2>1. row' = row /\ left' = left /\ quiet' = quiet /\ gone' = gone
    BY <1>4 DEF vars, history
  <2>2. Kept /\ Written' = Written /\ Visible' = Visible
    BY <2>1, RowsAlone
  <2>3. TypeOK'
    BY <1>0, <2>1 DEF BaseInv, TypeOK
  <2> QED
    BY <1>0, <2>1, <2>2, <2>3 DEF BaseInv
<1>5. ASSUME NEW i \in Ids, (\E match \in BOOLEAN : Insert(i, match)) \/ Commit(i) \/ Settle(i)
      PROVE  /\ BaseInv' /\ Kept
             /\ \/ /\ Visible' = Visible /\ left' = left /\ (quiet' => quiet \/ pc = "idle")
                \/ /\ i \notin Visible \cup left /\ Visible' = Visible \cup {i}
                   /\ left' = left /\ (quiet' => pc = "idle")
                \/ /\ i \in Visible
                   /\ i \notin left /\ Visible' = Visible \ {i} /\ left' = left \cup {i}
                   /\ listing = "admin" /\ pc # "idle" /\ ~quiet'
  BY <1>1, <1>2, <1>3, <1>5
<1>6. CASE UNCHANGED vars
  <2>1. quiet' = quiet /\ quiet \in BOOLEAN
    BY <1>4, <1>6 DEF BaseInv, TypeOK
  <2>2. quiet' => quiet
    BY <2>1
  <2> QED
    BY <1>4, <1>6, <2>2
<1>7. CASE \E i \in Ids : (\E match \in BOOLEAN : Insert(i, match)) \/ Commit(i) \/ Settle(i)
  <2>1. PICK i \in Ids : (\E match \in BOOLEAN : Insert(i, match)) \/ Commit(i) \/ Settle(i)
    BY <1>7
  <2> QED
    BY <1>5, <2>1
<1> QED
  BY <1>6, <1>7, Zenon DEF Writes

\* Every step keeps it.
LEMMA BaseStep ==
    ASSUME BaseInv, [Next]_vars
    PROVE  BaseInv'
<1>1. CASE Count
  <2>1. IsFiniteSet(Visible)
    BY BaseFacts
  <2>2. Cardinality(Visible) \in Nat
    BY <2>1, FS_CardinalityType
  <2>3. /\ UNCHANGED <<row, listing, history>> /\ pc = "count" /\ pc' = "find"
        /\ params' = params /\ items' = items /\ total' = Cardinality(Visible)
        /\ gone' = {}
    BY <1>1 DEF Count
  <2>4. params' \in [page : Nat \ {0}, limit : 1 .. MaxLimit]
    BY <2>3 DEF BaseInv, TypeOK
  <2> QED
    BY <2>2, <2>3, <2>4, RequestBase
<1>2. CASE ReadFails \/ RecordOutside
  <2>1. /\ UNCHANGED <<row, listing, params, history>> /\ pc # "idle"
        /\ pc' \in {"count", "reply"}
        /\ \/ total' = 0 /\ items' = {}
           \/ total' = total /\ items' = items /\ pc' = "reply"
        /\ gone' \in {{}, gone}
    BY <1>2 DEF ReadFails, RecordOutside
  <2>2. /\ params' \in [page : Nat \ {0}, limit : 1 .. MaxLimit] /\ total' \in Nat
        /\ gone' \subseteq Ids
    BY <2>1 DEF BaseInv, TypeOK
  <2> QED
    BY <2>1, <2>2, RequestBase
<1>3. CASE Reply
  <2>1. /\ UNCHANGED <<row, listing, history>> /\ pc # "idle" /\ pc' \in {"count", "done"}
        /\ params' \in [page : Nat \ {0}, limit : 1 .. MaxLimit] /\ total' \in Nat
        /\ items' = {} \/ (items' = items /\ params' = params)
        /\ pc' = "count" => items' = {}
        /\ gone' \subseteq Ids
    <3>1. /\ params \in [page : Nat \ {0}, limit : 1 .. MaxLimit] /\ total \in Nat
          /\ gone \subseteq Ids
      BY DEF BaseInv, TypeOK
    <3>2. gone' \in {{}, gone}
      BY <1>3 DEF Reply
    <3> QED
      BY <1>3, <3>1, <3>2, ReplyFacts
  <2> QED
    BY <2>1, RequestBase
<1> QED
  BY <1>1, <1>2, <1>3, Kinds, BeginBase, FindBase, RecordBase, EndBase, WritesBase

-----------------------------------------------------------------------------
(* In a sweep the rows that are or were listed only become more.           *)

\* The rows that are listed, or were in this sweep; and those the sweep did not add.
Ever   == Visible \cup left
Others == (Visible \ own) \cup left

\* Their numbers.
LEMMA EverCount ==
    ASSUME BaseInv
    PROVE  /\ IsFiniteSet(Ever) /\ IsFiniteSet(Others)
           /\ Cardinality(Visible) \in Nat /\ Cardinality(left) \in Nat
           /\ Cardinality(own) \in Nat /\ Cardinality(Visible \ own) \in Nat
           /\ Cardinality(Ever) = Cardinality(Visible) + Cardinality(left)
           /\ Cardinality(Others) = Cardinality(Visible \ own) + Cardinality(left)
           /\ Cardinality(Visible) = Cardinality(Visible \ own) + Cardinality(own)
<1>1. /\ IsFiniteSet(Visible) /\ IsFiniteSet(left) /\ IsFiniteSet(own)
      /\ Visible \cap left = {} /\ own \subseteq Visible
  BY BaseFacts DEF BaseInv
<1> DEFINE V == Visible
           Z == Visible \ own
<1>2. /\ IsFiniteSet(Z) /\ Z \cap left = {} /\ Z \cap own = {} /\ Z \cup own = V
  BY <1>1, FS_Subset
<1>3. Others = Z \cup left /\ Ever = V \cup left
  BY DEF Others, Ever
<1> HIDE DEF V, Z
<1>4. IsFiniteSet(V) /\ V \cap left = {}
  BY <1>1 DEF V
<1>5. /\ IsFiniteSet(V \cup left) /\ Cardinality(V \cup left) = Cardinality(V) + Cardinality(left)
      /\ Cardinality(V) \in Nat /\ Cardinality(left) \in Nat
  BY <1>1, <1>4, DisjointCount
<1>6. /\ IsFiniteSet(Z \cup left) /\ Cardinality(Z \cup left) = Cardinality(Z) + Cardinality(left)
      /\ Cardinality(Z) \in Nat
  BY <1>1, <1>2, DisjointCount
<1>7. Cardinality(Z \cup own) = Cardinality(Z) + Cardinality(own) /\ Cardinality(own) \in Nat
  BY <1>1, <1>2, DisjointCount
<1> QED
  BY <1>2, <1>3, <1>5, <1>6, <1>7 DEF V, Z

\* What the numbers of rows come to, in any state.
Numbers ==
    /\ IsFiniteSet(Ever) /\ IsFiniteSet(Others)
    /\ IsFiniteSet(Visible) /\ IsFiniteSet(left)
    /\ Cardinality(Ever) = Cardinality(Visible) + Cardinality(left)
    /\ Cardinality(Others) = Cardinality(Visible \ own) + Cardinality(left)
    /\ Cardinality(Visible) \in Nat /\ Cardinality(left) \in Nat
    /\ Cardinality(Visible \ own) \in Nat /\ Cardinality(own) \in Nat

\* So they do before and after a step.
LEMMA NumbersAlways == BaseInv => Numbers
  BY EverCount, BaseFacts DEF Numbers

\* No step but the last of a sweep takes from them.
LEMMA Growth ==
    ASSUME BaseInv, [Next]_vars, ~End
    PROVE  /\ BaseInv' /\ Kept
           /\ Ever \subseteq Ever' /\ Others \subseteq Others' /\ left \subseteq left'
<1> USE DEF Ever, Others
<1>0. BaseInv'
  BY BaseStep
<1>1. ASSUME row' = row, own' = own, left' = left
      PROVE  Kept /\ Ever \subseteq Ever' /\ Others \subseteq Others' /\ left \subseteq left'
  BY <1>1, RowsAlone
<1>2. CASE \E l \in {"mine", "admin", "audit"}, page \in Pages, limit \in Limits :
             Begin(l, page, limit)
  BY <1>0, <1>1, <1>2 DEF Begin
<1>3. CASE Count \/ Find \/ ReadFails \/ RecordOutside
  BY <1>0, <1>1, <1>3 DEF Count, Find, ReadFails, RecordOutside, history
<1>4. CASE Reply
  BY <1>0, <1>1, <1>4 DEF Reply, history
<1>5. CASE RecordAuditRead
  <2>1. PICK i \in Ids : i \notin Written /\ own' = own \cup {i} /\ Visible' = Visible \cup {i}
    BY <1>5, RecordBase
  <2>2. left' = left /\ i \notin Visible /\ Kept
    BY <1>5, <2>1, BaseFacts, RecordBase DEF RecordAuditRead
  <2> QED
    BY <1>0, <2>1, <2>2
<1>6. CASE Writes
  <2>1. own' = own
    BY <1>6 DEF Writes
  <2>2. Kept
    BY <1>6, WritesBase
  <2>3. \/ Visible' = Visible /\ left' = left
        \/ \E i \in Ids : Visible' = Visible \cup {i} /\ left' = left
        \/ \E i \in Visible : Visible' = Visible \ {i} /\ left' = left \cup {i}
    BY <1>6, WritesBase
  <2> QED
    BY <1>0, <2>1, <2>2, <2>3
<1> QED
  BY <1>2, <1>3, <1>4, <1>5, <1>6, Kinds

\* The same in numbers.
LEMMA GrowthCount ==
    ASSUME BaseInv, [Next]_vars, ~End
    PROVE  /\ Cardinality(Visible) + Cardinality(left) <=
                Cardinality(Visible') + Cardinality(left')
           /\ Cardinality(Visible \ own) + Cardinality(left) <=
                Cardinality(Visible' \ own') + Cardinality(left')
           /\ Cardinality(left) <= Cardinality(left')
           /\ Cardinality(Visible') \in Nat /\ Cardinality(left') \in Nat
           /\ Cardinality(Visible' \ own') \in Nat /\ Cardinality(own') \in Nat
<1>1. /\ BaseInv' /\ Ever \subseteq Ever' /\ Others \subseteq Others' /\ left \subseteq left'
  BY Growth
<1>2. /\ IsFiniteSet(Ever') /\ IsFiniteSet(Others') /\ IsFiniteSet(left')
      /\ Cardinality(Ever') = Cardinality(Visible') + Cardinality(left')
      /\ Cardinality(Others') = Cardinality(Visible' \ own') + Cardinality(left')
      /\ Cardinality(Visible') \in Nat /\ Cardinality(left') \in Nat
      /\ Cardinality(Visible' \ own') \in Nat /\ Cardinality(own') \in Nat
  <2>1. Numbers'
    BY <1>1, NumbersAlways, PTL
  <2> QED
    BY <2>1 DEF Numbers
<1>3. /\ Cardinality(Ever) <= Cardinality(Ever')
      /\ Cardinality(Others) <= Cardinality(Others')
      /\ Cardinality(left) <= Cardinality(left')
  BY <1>1, <1>2, FS_Subset
<1>4. /\ Cardinality(Ever) = Cardinality(Visible) + Cardinality(left)
      /\ Cardinality(Others) = Cardinality(Visible \ own) + Cardinality(left)
  BY EverCount
<1> QED
  BY <1>1, <1>2, <1>3, <1>4

-----------------------------------------------------------------------------
(* COUNT is a floor.                                                       *)

\* Where the page has been found.
Found == pc \in {"record", "reply", "done"}

\* What COUNT found is still listed or has left since, till the page is found.
CountInv ==
    /\ gone \subseteq left
    /\ pc = "find" => total <= Cardinality(Visible \cup gone)
    /\ CountIsFloor

\* The initial state.
LEMMA InitBase == Init => BaseInv
<1> SUFFICES ASSUME Init PROVE BaseInv
  OBVIOUS
<1>1. /\ row = [i \in Ids |-> NoRow] /\ pc = "idle" /\ listing = "mine"
      /\ params = [page |-> 1, limit |-> DefaultLimit] /\ total = 0 /\ items = {}
      /\ start = {} /\ seen = {} /\ own = {} /\ left = {} /\ gone = {}
      /\ twice = FALSE /\ quiet = TRUE
  BY DEF Init
<1>2. NoRow \in Row /\ NoRow.state = "none"
  BY DEF NoRow, Row
<1>3. row \in [Ids -> Row] /\ Written = {}
  BY <1>1, <1>2 DEF Written
<1>4. /\ params \in [page : Nat \ {0}, limit : 1 .. MaxLimit] /\ params.page = 1
      /\ params.limit = DefaultLimit
  BY <1>1, ListingAssumption
<1>5. Cardinality(items) = 0 /\ IsFiniteSet(Written) /\ 0 <= params.limit
  BY <1>1, <1>3, <1>4, FS_EmptySet, ListingAssumption
<1>6. TypeOK
  BY <1>1, <1>3, <1>4, <1>5 DEF TypeOK
<1> QED
  BY <1>1, <1>3, <1>4, <1>5, <1>6 DEF BaseInv

\* A step of a writer takes nothing from what is listed or has left since COUNT.
LEMMA GoneGrows ==
    ASSUME BaseInv, gone \subseteq left, Writes
    PROVE  /\ gone' \subseteq left'
           /\ pc = "find" => Visible \cup gone \subseteq Visible' \cup gone'
           /\ pc # "find" => gone' = gone
<1>1. ASSUME NEW i \in Ids, NEW match \in BOOLEAN, Insert(i, match)
      PROVE  gone' = gone /\ left' = left /\ Visible' = Visible
  <2> DEFINE state == IF match THEN "open" ELSE "committed"
  <2>1. /\ Stamp(i, state, match) /\ state \in {"open", "committed"}
        /\ ~(state = "committed" /\ match) /\ gone' = gone /\ left' = left
    BY <1>1 DEF Insert, history
  <2> HIDE DEF state
  <2> QED
    BY <2>1, StampEffect
<1>2. ASSUME NEW i \in Ids, Commit(i)
      PROVE  gone' = gone /\ left' = left /\ Visible \subseteq Visible'
  <2>1. Visible' = Visible \/ Visible' = Visible \cup {i}
    BY <1>2, CommitEffect
  <2> QED
    BY <1>2, <2>1 DEF Commit
<1>3. ASSUME NEW i \in Ids, Settle(i)
      PROVE  /\ gone' = IF pc = "find" THEN gone \cup {i} ELSE gone
             /\ left' = left \cup {i} /\ Visible' = Visible \ {i}
  BY <1>3, SettleEffect DEF Settle
<1>4. ASSUME UNCHANGED vars
      PROVE  gone' = gone /\ left' = left /\ Visible' = Visible
  BY <1>4 DEF vars, history, Visible, Committed
<1>5. ASSUME NEW i \in Ids, (\E match \in BOOLEAN : Insert(i, match)) \/ Commit(i) \/ Settle(i)
      PROVE  /\ gone' \subseteq left'
             /\ pc = "find" => Visible \cup gone \subseteq Visible' \cup gone'
             /\ pc # "find" => gone' = gone
  BY <1>1, <1>2, <1>3, <1>5
<1> QED
  BY <1>4, <1>5 DEF Writes

\* Every step keeps it.
LEMMA CountStep ==
    ASSUME BaseInv, CountInv, [Next]_vars
    PROVE  CountInv'
<1>0. /\ gone \subseteq left /\ IsFiniteSet(Visible) /\ IsFiniteSet(left) /\ IsFiniteSet(gone)
      /\ Visible \cap gone = {}
      /\ Cardinality(Visible) \in Nat /\ Cardinality(gone) \in Nat /\ total \in Nat
      /\ Offset(params) \in Nat /\ params.limit \in Nat
  <2>1. gone \subseteq left /\ total \in Nat
    BY DEF CountInv, BaseInv, TypeOK
  <2>2. IsFiniteSet(gone) /\ IsFiniteSet(Visible) /\ IsFiniteSet(left) /\ Visible \cap left = {}
    BY <2>1, BaseFacts, FS_Subset
  <2> QED
    BY <2>1, <2>2, FS_CardinalityType, ParamFacts
<1>1. CASE End
  BY <1>1 DEF End, CountInv, CountIsFloor
<1>2. ASSUME UNCHANGED <<total, items, params, gone>>, gone' \subseteq left', Found,
             pc' # "find"
      PROVE  CountInv'
  <2>1. \/ Cardinality(items) = params.limit
        \/ Cardinality(items) >= total - Offset(params) - Cardinality(gone)
    BY <1>2 DEF CountInv, CountIsFloor, Found
  <2>2. Offset(params)' = Offset(params)
    BY <1>2 DEF Offset
  <2> QED
    BY <1>2, <2>1, <2>2 DEF CountInv, CountIsFloor
<1>3. CASE \E l \in {"mine", "admin", "audit"}, page \in Pages, limit \in Limits :
             Begin(l, page, limit)
  BY <1>0, <1>3 DEF Begin, CountInv, CountIsFloor
<1>4. CASE Count
  <2>1. pc' = "find" /\ total' = Cardinality(Visible) /\ row' = row /\ gone' = {}
    BY <1>4 DEF Count
  <2>2. Visible' \cup gone' = Visible
    BY <2>1, RowsAlone
  <2> QED
    BY <1>0, <2>1, <2>2 DEF CountInv, CountIsFloor
<1>5. CASE Find
  <2>1. /\ pc = "find" /\ pc' \in {"record", "reply"} /\ UNCHANGED <<params, total, left, gone>>
    BY <1>5 DEF Find
  <2>2. total <= Cardinality(Visible) + Cardinality(gone)
    <3>1. total <= Cardinality(Visible \cup gone)
      BY <2>1 DEF CountInv
    <3>2. Cardinality(Visible \cup gone) = Cardinality(Visible) + Cardinality(gone)
      BY <1>0, DisjointCount
    <3> QED
      BY <3>1, <3>2
  <2>3. Cardinality(items') = Window(Cardinality(Visible), Offset(params), params.limit)
    BY <1>5, FindFacts
  <2>4. \/ Cardinality(items') = params.limit
        \/ Cardinality(items') >= total - Offset(params) - Cardinality(gone)
    BY <1>0, <2>2, <2>3 DEF Window
  <2>5. Offset(params)' = Offset(params)
    BY <2>1 DEF Offset
  <2> QED
    BY <1>0, <2>1, <2>4, <2>5 DEF CountInv, CountIsFloor
<1>6. CASE ReadFails
  BY <1>6 DEF ReadFails, CountInv, CountIsFloor
<1>7. CASE RecordAuditRead \/ RecordOutside
  <2>1. UNCHANGED <<total, items, params, gone, left>> /\ Found /\ pc' # "find"
    BY <1>7 DEF RecordAuditRead, RecordOutside, Found, history
  <2> QED
    BY <1>0, <1>2, <2>1
<1>8. CASE Reply
  <2>1. CASE pc' = "count"
    <3>1. gone' = {}
      BY <1>8, <2>1 DEF Reply
    <3> QED
      BY <2>1, <3>1 DEF CountInv, CountIsFloor
  <2>2. CASE pc' # "count"
    <3>1. UNCHANGED <<total, items, params, gone, left>> /\ Found /\ pc' # "find"
      BY <1>8, <2>2 DEF Reply, Found, history
    <3> QED
      BY <1>0, <1>2, <3>1
  <2> QED
    BY <2>1, <2>2
<1>9. CASE Writes
  <2>1. UNCHANGED <<pc, total, items, params>>
    BY <1>9 DEF Writes, request
  <2>2. /\ gone' \subseteq left'
        /\ pc = "find" => Visible \cup gone \subseteq Visible' \cup gone'
        /\ pc # "find" => gone' = gone
    BY <1>0, <1>9, GoneGrows
  <2>3. CASE pc = "find"
    <3>1. IsFiniteSet(Visible' \cup gone')
      <4>1. BaseInv'
        BY <1>9, WritesBase
      <4>2. Numbers'
        BY <4>1, NumbersAlways, PTL
      <4>3. IsFiniteSet(Visible') /\ IsFiniteSet(left')
        BY <4>2 DEF Numbers
      <4>4. IsFiniteSet(gone')
        BY <2>2, <4>3, FS_Subset
      <4> QED
        BY <4>3, <4>4, FS_Union
    <3>2. Cardinality(Visible \cup gone) <= Cardinality(Visible' \cup gone')
      BY <2>2, <2>3, <3>1, FS_Subset
    <3>3. Cardinality(Visible \cup gone) \in Nat /\ Cardinality(Visible' \cup gone') \in Nat
      BY <2>2, <2>3, <3>1, FS_Subset, FS_CardinalityType
    <3>4. total <= Cardinality(Visible \cup gone)
      BY <2>3 DEF CountInv
    <3>5. total <= Cardinality(Visible' \cup gone')
      BY <1>0, <3>2, <3>3, <3>4
    <3> QED
      BY <2>1, <2>2, <2>3, <3>5 DEF CountInv, CountIsFloor
  <2>4. CASE Found
    BY <1>2, <2>1, <2>2, <2>4 DEF Found
  <2>5. CASE pc # "find" /\ ~Found
    BY <2>1, <2>2, <2>5 DEF CountInv, CountIsFloor, Found
  <2> QED
    BY <2>3, <2>4, <2>5
<1> QED
  BY <1>1, <1>3, <1>4, <1>5, <1>6, <1>7, <1>8, <1>9, Kinds

\* The type invariant: no page is longer than its limit, and no limit above the greatest.
THEOREM TypeCorrect == Spec => []TypeOK
<1>1. BaseInv => TypeOK
  BY DEF BaseInv
<1> QED
  BY <1>1, InitBase, BaseStep, PTL DEF Spec

\* A page holds what COUNT promised of it, less the rows that left between the two
\* statements.
THEOREM CountHolds == Spec => []CountIsFloor
<1>1. Init => CountInv
  BY DEF Init, CountInv, CountIsFloor
<1>2. CountInv => CountIsFloor
  BY DEF CountInv
<1> QED
  BY <1>1, <1>2, InitBase, BaseStep, CountStep, PTL DEF Spec

-----------------------------------------------------------------------------
(* A sweep advances.                                                       *)

\* What a read of the audit log adds to it.
Added(n) == IF listing = "audit" THEN n ELSE 0

\* The reads so far have added a row each at most, and a full page had the rows for it.
SweepInv ==
    /\ Cardinality(own) <= IF pc \in {"reply", "done"} THEN params.page ELSE params.page - 1
    /\ pc \in {"record", "reply"} /\ Cardinality(items) >= params.limit =>
         params.page * params.limit <=
             Cardinality(Visible \ own) + Cardinality(left) + Added(params.page - 1)
    /\ SweepAdvances

\* Every step keeps it.
LEMMA SweepStep ==
    ASSUME BaseInv, SweepInv, [Next]_vars
    PROVE  SweepInv'
<1> DEFINE page == params.page
           full == params.page * params.limit
           before == (params.page - 1) * params.limit
           listed == Cardinality(Visible \ own) + Cardinality(left)
<1>0. /\ page \in Nat /\ page >= 1 /\ full \in Nat /\ params.limit \in Nat /\ params.limit >= 1
      /\ listed \in Nat /\ before \in Nat
      /\ Cardinality(own) \in Nat /\ Cardinality(Visible) \in Nat /\ Cardinality(left) \in Nat
      /\ Cardinality(Visible \ own) \in Nat
      /\ Cardinality(Visible) = Cardinality(Visible \ own) + Cardinality(own)
  BY EverCount, ParamFacts DEF Offset
<1>a. /\ Cardinality(own) <= IF pc \in {"reply", "done"} THEN page ELSE page - 1
      /\ pc \in {"record", "reply"} /\ Cardinality(items) >= params.limit =>
           full <= listed + Added(page - 1)
      /\ page > 1 => before <= listed + Added(page - 2)
  BY DEF SweepInv, SweepAdvances, Added
<1>1. CASE End
  <2>1. pc' = "idle" /\ own' = {} /\ params'.page = 1
    BY <1>1 DEF End
  <2>2. Cardinality(own') = 0
    BY <2>1, FS_EmptySet
  <2> QED
    BY <2>1, <2>2 DEF SweepInv, SweepAdvances
<1>2. CASE ~End
  <2> DEFINE listed1 == Cardinality(Visible' \ own') + Cardinality(left')
  <2>1. listed <= listed1 /\ listed1 \in Nat /\ Cardinality(own') \in Nat
    BY <1>2, GrowthCount
  <2>a. ASSUME Cardinality(own') <= IF pc' \in {"reply", "done"} THEN params'.page ELSE params'.page - 1,
               pc' \in {"record", "reply"} /\ Cardinality(items') >= params'.limit =>
                   params'.page * params'.limit <= listed1 + Added(params.page - 1)',
               params'.page > 1 =>
                   (params'.page - 1) * params'.limit <= listed1 + Added(params.page - 2)'
        PROVE  SweepInv'
    BY <2>a DEF SweepInv, SweepAdvances, Added
  <2> HIDE DEF listed1, listed, full, before, page
  <2>2. ASSUME UNCHANGED <<listing, params, own>>,
               pc' \in {"reply", "done"} \/ pc \notin {"reply", "done"},
               pc' \in {"record", "reply"} => pc \in {"record", "reply"} /\ items' = items
        PROVE  SweepInv'
    <3>1. Cardinality(own') <= IF pc' \in {"reply", "done"} THEN params'.page ELSE params'.page - 1
      BY <1>0, <1>a, <2>2 DEF page
    <3>2. /\ Added(params.page - 1)' = Added(page - 1) /\ Added(params.page - 2)' = Added(page - 2)
          /\ Added(page - 1) \in Int /\ Added(page - 2) \in Int
      BY <1>0, <2>2 DEF Added, page
    <3>3. pc' \in {"record", "reply"} /\ Cardinality(items') >= params'.limit =>
            full <= listed1 + Added(page - 1)
      BY <1>0, <1>a, <2>1, <2>2, <3>2
    <3>4. page > 1 => before <= listed1 + Added(page - 2)
      BY <1>0, <1>a, <2>1, <3>2
    <3> QED
      BY <2>2, <2>a, <3>1, <3>2, <3>3, <3>4 DEF full, before, page
  <2>3. ASSUME NEW l \in {"mine", "admin", "audit"}, NEW p \in Pages, NEW limit \in Limits,
               Begin(l, p, limit)
        PROVE  SweepInv'
    <3>1. pc' = "count" /\ own' = {} /\ params'.page = 1
      BY <2>3, BeginBase DEF Begin, BaseInv
    <3>2. Cardinality(own') = 0
      BY <3>1, FS_EmptySet
    <3> QED
      BY <3>1, <3>2 DEF SweepInv, SweepAdvances
  <2>4. CASE Count \/ ReadFails \/ RecordOutside
    BY <2>2, <2>4 DEF Count, ReadFails, RecordOutside, history
  <2>5. CASE Find
    <3>1. /\ pc = "find" /\ UNCHANGED <<row, listing, params, own, left>>
          /\ pc' = IF listing = "mine" THEN "reply" ELSE "record"
      BY <2>5 DEF Find
    <3>2. Visible' = Visible
      BY <3>1, RowsAlone
    <3>3. listed1 = listed
      BY <3>1, <3>2 DEF listed, listed1
    <3>4. Cardinality(own') <= IF pc' \in {"reply", "done"} THEN params'.page ELSE params'.page - 1
      BY <1>0, <1>a, <3>1 DEF page
    <3>5. /\ Added(params.page - 1)' = Added(page - 1) /\ Added(params.page - 2)' = Added(page - 2)
      BY <3>1 DEF Added, page
    <3>6. Cardinality(own) <= Added(page - 1)
      <4>1. CASE listing = "audit"
        BY <1>a, <3>1, <4>1 DEF Added
      <4>2. CASE listing # "audit"
        <5>1. own = {}
          BY <4>2 DEF BaseInv
        <5> QED
          BY <4>2, <5>1, FS_EmptySet DEF Added
      <4> QED
        BY <4>1, <4>2
    <3>7. Cardinality(items') >= params.limit => Cardinality(Visible) >= full
      BY <2>5, FindFacts DEF full
    <3>8. Cardinality(Visible) <= listed + Added(page - 1)
      <4>1. Added(page - 1) \in Int
        BY <1>0 DEF Added
      <4> QED
        BY <1>0, <3>6, <4>1 DEF listed
    <3>9. Cardinality(items') >= params.limit => full <= listed + Added(page - 1)
      <4>1. Added(page - 1) \in Int
        BY <1>0 DEF Added
      <4> QED
        BY <1>0, <3>7, <3>8, <4>1
    <3> QED
      BY <1>a, <2>a, <3>1, <3>3, <3>4, <3>5, <3>9 DEF full, before, page
  <2>6. CASE RecordAuditRead
    <3>1. PICK i \in Ids : i \notin Written /\ own' = own \cup {i}
      BY <2>6, RecordBase
    <3>2. pc = "record" /\ pc' = "reply" /\ UNCHANGED <<listing, params, items>>
      BY <2>6 DEF RecordAuditRead
    <3>3. Cardinality(own') <= Cardinality(own) + 1
      <4>1. IsFiniteSet(own)
        BY BaseFacts
      <4>2. Cardinality(own \cup {i}) = IF i \in own THEN Cardinality(own) ELSE Cardinality(own) + 1
        BY <4>1, FS_AddElement
      <4> QED
        BY <1>0, <3>1, <4>2
    <3>4. Cardinality(own') <= params'.page
      BY <1>0, <1>a, <2>1, <3>2, <3>3 DEF page
    <3>5. /\ Added(params.page - 1)' = Added(page - 1) /\ Added(params.page - 2)' = Added(page - 2)
          /\ Added(page - 1) \in Int /\ Added(page - 2) \in Int
      BY <1>0, <3>2 DEF Added, page
    <3>6. Cardinality(items') >= params'.limit => full <= listed1 + Added(page - 1)
      BY <1>0, <1>a, <2>1, <3>2, <3>5
    <3>7. page > 1 => before <= listed1 + Added(page - 2)
      BY <1>0, <1>a, <2>1, <3>5
    <3> QED
      BY <2>a, <3>2, <3>4, <3>5, <3>6, <3>7 DEF full, before, page
  <2>7. CASE Reply
    <3>1. CASE pc' = "count"
      <4>1. /\ pc = "reply" /\ Cardinality(items) >= params.limit
            /\ params'.page = page + 1 /\ params'.limit = params.limit
            /\ UNCHANGED <<row, listing, own, left>>
        BY <2>7, <3>1, ReplyFacts DEF page, history
      <4>2. Cardinality(own') <= params'.page - 1
        BY <1>0, <1>a, <4>1
      <4>3. Added(params.page - 2)' = Added(page - 1) /\ Added(page - 1) \in Int
        <5>1. params'.page - 2 = page - 1
          BY <1>0, <4>1
        <5> QED
          BY <1>0, <4>1, <5>1 DEF Added
      <4>4. full <= listed1 + Added(page - 1)
        BY <1>0, <1>a, <2>1, <4>1, <4>3
      <4>5. (params'.page - 1) * params'.limit = full
        <5>1. params'.page - 1 = page
          BY <1>0, <4>1
        <5> QED
          BY <4>1, <5>1 DEF full, page
      <4> QED
        BY <2>a, <3>1, <4>2, <4>3, <4>4, <4>5
    <3>2. CASE pc' # "count"
      <4>1. UNCHANGED <<listing, params, own, items>> /\ pc = "reply" /\ pc' = "done"
        BY <2>7, <3>2, ReplyFacts DEF history
      <4> QED
        BY <2>2, <4>1
    <3> QED
      BY <3>1, <3>2
  <2>8. CASE Writes
    BY <2>2, <2>8 DEF Writes, request
  <2> QED
    BY <1>2, <2>3, <2>4, <2>5, <2>6, <2>7, <2>8, Kinds
<1> QED
  BY <1>1, <1>2

\* Every full page brings the client a limit's worth of rows further, less in the audit
\* log the one that its own read adds.
THEOREM SweepMoves == Spec => []SweepAdvances
<1>1. Init => SweepInv
  <2> SUFFICES ASSUME Init PROVE SweepInv
    OBVIOUS
  <2>1. pc = "idle" /\ own = {} /\ params.page = 1 /\ Cardinality(own) = 0
    BY FS_EmptySet DEF Init
  <2> QED
    BY <2>1 DEF SweepInv, SweepAdvances
<1>2. SweepInv => SweepAdvances
  BY DEF SweepInv
<1> QED
  BY <1>1, <1>2, InitBase, BaseStep, SweepStep, PTL DEF Spec

-----------------------------------------------------------------------------
(* Places.                                                                 *)

\* How many rows come before a row.
Rank(i) == Cardinality(Newer(Visible, i))

\* How many places the pages found so far have had.
Passed == IF Found THEN params.page * params.limit ELSE Offset(params)

\* The last page was found.
Short == Found /\ Cardinality(items) < params.limit

\* A place is a number less than that of the rows.
LEMMA RankFacts ==
    ASSUME BaseInv, NEW i \in Visible
    PROVE  /\ IsFiniteSet(Newer(Visible, i)) /\ Rank(i) \in Nat
           /\ Rank(i) < Cardinality(Visible)
<1> DEFINE V == Visible
           N == Newer(Visible, i)
<1>1. IsFiniteSet(V) /\ i \in V /\ row[i].at \in Nat
  BY BaseFacts
<1>2. N \subseteq V /\ i \notin N
  BY <1>1 DEF Newer
<1> HIDE DEF V, N
<1>3. IsFiniteSet(N) /\ Cardinality(N) <= Cardinality(V) /\ Cardinality(V) # Cardinality(N)
  BY <1>1, <1>2, FS_Subset
<1>4. Cardinality(N) \in Nat /\ Cardinality(V) \in Nat
  BY <1>1, <1>3, FS_CardinalityType
<1> QED
  BY <1>3, <1>4 DEF Rank, N, V

\* Rows that share their instant with no other have places of their own.
LEMMA UntiedRanks ==
    ASSUME BaseInv, NEW i \in Untied, NEW j \in Untied, Rank(i) = Rank(j)
    PROVE  i = j
<1>1. ASSUME NEW a \in Untied, NEW b \in Untied, row[a].at > row[b].at
      PROVE  Rank(a) # Rank(b)
  <2>1. /\ a \in Visible /\ b \in Visible /\ row[a].at \in Nat /\ row[b].at \in Nat
        /\ \A k \in Visible : row[k].at \in Nat
    BY BaseFacts DEF Untied
  <2> DEFINE A == Newer(Visible, a)
             B == Newer(Visible, b)
  <2>2. A \subseteq B /\ a \in B /\ a \notin A
    BY <1>1, <2>1 DEF Newer
  <2>3. IsFiniteSet(B)
    BY <2>1, RankFacts
  <2> HIDE DEF A, B
  <2>4. Cardinality(A) # Cardinality(B)
    BY <2>2, <2>3, FS_Subset
  <2> QED
    BY <2>4 DEF A, B, Rank
<1>2. row[i].at \in Nat /\ row[j].at \in Nat
  BY BaseFacts DEF Untied
<1>3. row[i].at = row[j].at
  BY <1>1, <1>2
<1>4. j \in Tied(Visible \cup left, i) /\ Tied(Visible \cup left, i) = {i}
  BY <1>3 DEF Untied, Tied
<1> QED
  BY <1>4

\* A row that is untied in the listing and what left it is on the page of its place.
LEMMA FindPlace ==
    ASSUME BaseInv, Find, NEW i \in Untied
    PROVE  i \in items' <=> Offset(params) <= Rank(i) /\ Rank(i) < params.page * params.limit
<1>1. i \in Visible /\ Tied(Visible, i) = {i}
  BY DEF Untied, Tied
<1>2. /\ items' \in PagesOf(Visible, Offset(params), params.limit) /\ IsFiniteSet(Visible)
      /\ Offset(params) \in Nat /\ params.limit \in Nat
      /\ Offset(params) + params.limit = params.page * params.limit
  BY FindFacts, ParamFacts, BaseFacts
<1>3. i \in items' <=> /\ Offset(params) <= Rank(i)
                       /\ Rank(i) < Offset(params) + params.limit
  BY <1>1, <1>2, PagePlace DEF Rank
<1> QED
  BY <1>2, <1>3

\* Where the listing is as it was, so are the places.
LEMMA SameRanks ==
    ASSUME BaseInv, Kept, Visible' = Visible, left' = left
    PROVE  Untied' = Untied /\ \A i \in Visible : Rank(i)' = Rank(i)
<1>1. Visible \subseteq Written /\ left \subseteq Written
  BY BaseFacts
<1>2. \A i \in Visible \cup left : row'[i].at = row[i].at
  BY <1>1 DEF Kept
<1>3. ASSUME NEW i \in Visible PROVE Newer(Visible, i)' = Newer(Visible, i)
  BY <1>2 DEF Newer
<1>4. ASSUME NEW i \in Visible PROVE Tied(Visible \cup left, i)' = Tied(Visible \cup left, i)
  BY <1>2 DEF Tied
<1>5. Untied' = Untied
  BY <1>4 DEF Untied
<1>6. \A i \in Visible : Rank(i)' = Rank(i)
  BY <1>3 DEF Rank
<1> QED
  BY <1>5, <1>6

\* Between the pages nothing is passed or seen.
LEMMA BetweenPages ==
    ASSUME BaseInv, [Next]_vars, ~Find, ~End, pc # "idle"
    PROVE  /\ Passed' = Passed /\ UNCHANGED <<start, seen, twice>>
           /\ Short' => Short
           /\ pc' # "idle"
           /\ quiet' => quiet /\ Visible' = Visible /\ left' = left
<1>1. ASSUME UNCHANGED <<params, items, start, seen, twice>>,
             Found' <=> Found, pc' # "idle",
             quiet' => quiet /\ Visible' = Visible /\ left' = left
      PROVE  /\ Passed' = Passed /\ UNCHANGED <<start, seen, twice>>
             /\ Short' => Short
             /\ pc' # "idle"
             /\ quiet' => quiet /\ Visible' = Visible /\ left' = left
  <2>1. Offset(params)' = Offset(params)
    BY <1>1 DEF Offset
  <2>2. Passed' = Passed
    BY <1>1, <2>1 DEF Passed
  <2>3. Short' => Short
    BY <1>1 DEF Short
  <2> QED
    BY <1>1, <2>2, <2>3
<1>2. ASSUME row' = row, UNCHANGED history
      PROVE  /\ UNCHANGED <<start, seen, twice>>
             /\ quiet' => quiet /\ Visible' = Visible /\ left' = left
  <2>1. UNCHANGED <<start, seen, twice, quiet, left>> /\ quiet \in BOOLEAN
    BY <1>2 DEF history, BaseInv, TypeOK
  <2>2. Visible' = Visible
    BY <1>2, RowsAlone
  <2> QED
    BY <2>1, <2>2
<1>3. CASE Count
  <2>1. row' = row /\ UNCHANGED <<history, params, items>> /\ pc = "count" /\ pc' = "find"
    BY <1>3 DEF Count
  <2> QED
    BY <1>1, <1>2, <2>1 DEF Found
<1>4. CASE RecordOutside
  <2>1. row' = row /\ UNCHANGED <<history, params, items>> /\ pc = "record" /\ pc' = "reply"
    BY <1>4 DEF RecordOutside
  <2> QED
    BY <1>1, <1>2, <2>1 DEF Found
<1>5. CASE ReadFails
  <2>1. /\ row' = row /\ UNCHANGED <<history, params>>
        /\ pc \in {"count", "find"} /\ pc' = "count"
    BY <1>5 DEF ReadFails
  <2>2. ~Found /\ ~Found' /\ Offset(params)' = Offset(params)
    BY <2>1 DEF Found, Offset
  <2>3. Passed' = Passed /\ ~Short'
    BY <2>1, <2>2 DEF Passed, Short
  <2> QED
    BY <1>2, <2>1, <2>3
<1>6. CASE RecordAuditRead
  <2>1. /\ UNCHANGED <<params, items, start, seen, twice>> /\ ~quiet'
        /\ pc = "record" /\ pc' = "reply"
    BY <1>6 DEF RecordAuditRead
  <2> QED
    BY <1>1, <2>1 DEF Found
<1>7. CASE Reply
  <2>1. row' = row /\ UNCHANGED history /\ pc = "reply"
    BY <1>7, ReplyFacts
  <2>2. CASE pc' = "count"
    <3>1. Offset(params)' = params.page * params.limit
      BY <1>7, <2>2, ReplyFacts
    <3>2. Passed' = Passed /\ ~Short'
      BY <2>1, <2>2, <3>1 DEF Passed, Short, Found
    <3> QED
      BY <1>2, <2>1, <2>2, <3>2
  <2>3. CASE pc' # "count"
    <3>1. UNCHANGED <<params, items>> /\ pc' = "done"
      BY <1>7, <2>3, ReplyFacts
    <3> QED
      BY <1>1, <1>2, <2>1, <3>1 DEF Found
  <2> QED
    BY <2>2, <2>3
<1>8. CASE Writes
  <2>1. UNCHANGED <<pc, params, items, start, seen, twice>>
    BY <1>8 DEF Writes, request
  <2>2. quiet' => quiet /\ Visible' = Visible /\ left' = left
    BY <1>8, WritesBase
  <2> QED
    BY <1>1, <2>1, <2>2 DEF Found
<1>9. ~(\E l \in {"mine", "admin", "audit"}, page \in Pages, limit \in Limits :
          Begin(l, page, limit))
  BY DEF Begin
<1> QED
  BY <1>3, <1>4, <1>5, <1>6, <1>7, <1>8, <1>9, Kinds

\* A sweep begins with nothing passed.
LEMMA FirstPage ==
    ASSUME BaseInv, [Next]_vars, pc = "idle", pc' # "idle"
    PROVE  /\ Passed' = 0 /\ ~Short' /\ pc' = "count" /\ start' = Visible
           /\ Visible' = Visible /\ left' = left /\ Kept
           /\ seen' = {} /\ ~twice'
<1>1. PICK l \in {"mine", "admin", "audit"}, page \in Pages, limit \in Limits :
        Begin(l, page, limit)
  BY Kinds DEF Count, Find, ReadFails, RecordAuditRead, RecordOutside, Reply, End, Writes,
               request
<1>2. /\ pc' = "count" /\ start' = Visible /\ row' = row
      /\ UNCHANGED <<seen, twice, left>>
  BY <1>1 DEF Begin
<1>3. Kept /\ Visible' = Visible /\ seen = {} /\ ~twice /\ twice \in BOOLEAN
  BY <1>2, RowsAlone DEF BaseInv, TypeOK
<1>4. params'.page = 1 /\ BaseInv'
  BY <1>1, BeginBase
<1>5. params'.limit \in Nat
  <2>1. params' \in [page : Nat \ {0}, limit : 1 .. MaxLimit]
    BY <1>4 DEF BaseInv, TypeOK
  <2> QED
    BY <2>1, ListingAssumption
<1>6. Offset(params)' = 0
  <2>1. Offset(params)' = (params'.page - 1) * params'.limit
    BY DEF Offset
  <2> QED
    BY <1>4, <1>5, <2>1
<1> QED
  BY <1>2, <1>3, <1>6 DEF Passed, Short, Found

-----------------------------------------------------------------------------
(* A quiet sweep is exact.                                                 *)

\* A sweep that nothing disturbs has seen the rows whose places it has passed, once
\* each, and ends when it has passed them all.
QuietInv ==
    /\ pc # "idle" /\ quiet /\ Untied = Visible =>
         /\ ~twice
         /\ \A i \in Visible : i \in seen <=> Rank(i) < Passed
         /\ seen \subseteq Visible
         /\ Short => Cardinality(Visible) <= Passed
    /\ pc = "done" => Short

\* Every step keeps it.
LEMMA QuietStep ==
    ASSUME BaseInv, QuietInv, [Next]_vars
    PROVE  QuietInv'
<1>0. pc' = "done" => Short'
  <2>1. CASE Reply
    <3>1. ASSUME pc' = "done"
          PROVE  Cardinality(items') < params'.limit
      BY <2>1, <3>1, ReplyFacts
    <3> QED
      BY <3>1 DEF Short, Found
  <2>2. CASE Writes
    BY <2>2 DEF Writes, request, QuietInv, Short, Found
  <2> QED
    BY <2>1, <2>2, Kinds DEF Begin, Count, Find, ReadFails, RecordAuditRead, RecordOutside, End
<1> SUFFICES ASSUME pc' # "idle", quiet', Untied' = Visible'
             PROVE  /\ ~twice'
                    /\ \A i \in Visible' : i \in seen' <=> Rank(i)' < Passed'
                    /\ seen' \subseteq Visible'
                    /\ Short' => Cardinality(Visible') <= Passed'
  BY <1>0 DEF QuietInv
<1>1. CASE pc = "idle"
  <2>1. /\ Passed' = 0 /\ ~Short' /\ Visible' = Visible /\ left' = left /\ Kept
        /\ seen' = {} /\ ~twice'
    BY <1>1, FirstPage
  <2>2. ASSUME NEW i \in Visible PROVE Rank(i)' \in Nat
    BY <2>1, SameRanks, RankFacts
  <2> QED
    BY <2>1, <2>2
<1>2. CASE Find
  <2>1. /\ pc = "find" /\ row' = row /\ left' = left /\ params' = params /\ quiet
        /\ seen' = seen \cup items' /\ twice' = (twice \/ seen \cap items' # {})
        /\ pc' \in {"record", "reply"}
    <3>1. quiet' = quiet /\ quiet'
      BY <1>2 DEF Find
    <3>2. quiet
      BY <3>1, Zenon
    <3> QED
      BY <1>2, <3>2 DEF Find
  <2>2. Kept /\ Visible' = Visible
    BY <2>1, RowsAlone
  <2>3. Untied' = Untied /\ \A i \in Visible : Rank(i)' = Rank(i)
    BY <2>1, <2>2, SameRanks
  <2>4. Untied = Visible
    BY <2>2, <2>3
  <2>5. ~Found /\ Passed = Offset(params)
    BY <2>1 DEF Found, Passed
  <2>6. Found' /\ Passed' = params.page * params.limit
    BY <2>1 DEF Found, Passed
  <2>7. ~twice /\ seen \subseteq Visible /\ \A i \in Visible : i \in seen <=> Rank(i) < Offset(params)
    BY <2>1, <2>4, <2>5 DEF QuietInv
  <2>8. /\ Offset(params) \in Nat /\ params.limit \in Nat /\ params.page * params.limit \in Nat
        /\ Offset(params) + params.limit = params.page * params.limit
    BY ParamFacts
  <2>9. ASSUME NEW i \in Visible
        PROVE  /\ Rank(i) \in Nat
               /\ i \in items' <=> Offset(params) <= Rank(i) /\ Rank(i) < params.page * params.limit
    BY <1>2, <2>4, FindPlace, RankFacts
  <2>10. Short' => Cardinality(Visible) < params.page * params.limit
    BY <1>2, <2>1, FindFacts DEF Short
  <2>11. items' \subseteq Visible
    BY <1>2, FindFacts
  <2>12. seen \cap items' = {}
    BY <2>7, <2>8, <2>9, <2>11
  <2>13. ~twice'
    BY <2>1, <2>7, <2>12
  <2>14. ASSUME NEW i \in Visible
         PROVE  i \in seen' <=> Rank(i) < params.page * params.limit
    <3>1. Rank(i) < Offset(params) => Rank(i) < params.page * params.limit
      BY <2>8, <2>9
    <3>2. Rank(i) < Offset(params) \/ Offset(params) <= Rank(i)
      BY <2>8, <2>9
    <3>3. i \in seen' <=> i \in seen \/ i \in items'
      BY <2>1
    <3> QED
      BY <2>7, <2>9, <3>1, <3>2, <3>3
  <2>15. Short' => Cardinality(Visible) <= params.page * params.limit
    <3>1. Cardinality(Visible) \in Nat
      BY EverCount
    <3> QED
      BY <2>8, <2>10, <2>11, <3>1
  <2> QED
    BY <2>1, <2>2, <2>3, <2>6, <2>7, <2>11, <2>13, <2>14, <2>15
<1>3. CASE pc # "idle" /\ ~Find
  <2>0. ~End
    BY DEF End
  <2>1. /\ Passed' = Passed /\ UNCHANGED <<seen, twice>>
        /\ Short' => Short
        /\ quiet /\ Visible' = Visible /\ left' = left
    BY <1>3, <2>0, BetweenPages
  <2>2. Kept
    BY <2>0, Growth
  <2>3. Untied' = Untied /\ \A i \in Visible : Rank(i)' = Rank(i)
    BY <2>1, <2>2, SameRanks
  <2>4. Untied = Visible
    BY <2>1, <2>3
  <2>5. /\ ~twice
        /\ \A i \in Visible : i \in seen <=> Rank(i) < Passed
        /\ seen \subseteq Visible
        /\ Short => Cardinality(Visible) <= Passed
    BY <1>3, <2>1, <2>4 DEF QuietInv
  <2>6. ~twice'
    BY <2>1, <2>5
  <2> QED
    BY <2>1, <2>3, <2>5, <2>6
<1> QED
  BY <1>1, <1>2, <1>3

\* If nothing is added or leaves meanwhile, every row is on exactly one page.
THEOREM QuietExact == Spec => []QuietSweepExact
<1>1. Init => QuietInv
  BY DEF Init, QuietInv
<1>2. ASSUME BaseInv, QuietInv PROVE QuietSweepExact
  <2> SUFFICES ASSUME quiet, Untied = Visible
               PROVE  ~twice /\ (pc = "done" => seen = Visible)
    BY DEF QuietSweepExact
  <2>1. CASE pc = "idle"
    BY <1>2, <2>1 DEF BaseInv
  <2>2. CASE pc # "idle"
    <3>1. /\ ~twice
          /\ \A i \in Visible : i \in seen <=> Rank(i) < Passed
          /\ seen \subseteq Visible
          /\ Short => Cardinality(Visible) <= Passed
          /\ pc = "done" => Short
      BY <1>2, <2>2 DEF QuietInv
    <3>2. ASSUME pc = "done", NEW i \in Visible PROVE i \in seen
      <4>1. /\ Rank(i) \in Nat /\ Rank(i) < Cardinality(Visible) /\ Cardinality(Visible) \in Nat
            /\ Passed \in Nat
        BY <1>2, RankFacts, EverCount, ParamFacts DEF Passed
      <4>2. Rank(i) < Passed
        BY <3>1, <3>2, <4>1
      <4> QED
        BY <3>1, <4>2
    <3> QED
      BY <3>1, <3>2
  <2> QED
    BY <2>1, <2>2
<1> QED
  BY <1>1, <1>2, InitBase, BaseStep, QuietStep, PTL DEF Spec

-----------------------------------------------------------------------------
(* Nothing is missed.                                                      *)

\* The rows the sweep owes the client: there when it began, still there, at a place of
\* their own.  Those it has passed without showing them are missed.
Owed   == (start \cap Untied) \ seen
Missed == {i \in Owed : Rank(i) < Passed}

\* One row is missed for each that left, at most.
MissInv ==
    /\ Cardinality(Missed) <= Cardinality(left)
    /\ Short => Cardinality(Owed) <= Cardinality(left)

\* The sets are finite.
LEMMA OwedFinite ==
    ASSUME BaseInv
    PROVE  /\ IsFiniteSet(Owed) /\ IsFiniteSet(Missed)
           /\ Cardinality(Owed) \in Nat /\ Cardinality(Missed) \in Nat
           /\ Missed \subseteq Owed /\ Owed \subseteq Untied /\ Owed \subseteq start
           /\ Untied \subseteq Visible
<1>1. /\ Missed \subseteq Owed /\ Owed \subseteq start /\ Owed \subseteq Untied
      /\ Untied \subseteq Visible
  BY DEF Missed, Owed, Untied
<1>2. IsFiniteSet(start)
  BY BaseFacts
<1>3. IsFiniteSet(Owed) /\ IsFiniteSet(Missed)
  BY <1>1, <1>2, FS_Subset
<1> QED
  BY <1>1, <1>3, FS_CardinalityType

\* In a sweep a row stays untied only if it was so before.
LEMMA UntiedShrinks ==
    ASSUME BaseInv, [Next]_vars, ~End, NEW i \in start, i \in Untied'
    PROVE  i \in Untied
<1>1. /\ BaseInv' /\ Kept /\ Ever \subseteq Ever' /\ left \subseteq left'
  BY Growth
<1>2. i \in Ever /\ Ever \subseteq Written
  BY BaseFacts DEF BaseInv, Ever
<1>3. i \in Visible' /\ Tied(Visible \cup left, i)' = {i}
  BY DEF Untied
<1>4. Visible' \cap left' = {}
  <2>1. \A k \in left' : ~row'[k].match
    BY <1>1 DEF BaseInv
  <2>2. \A k \in Visible' : row'[k].match
    BY DEF Visible
  <2> QED
    BY <2>1, <2>2
<1>5. i \in Visible
  BY <1>1, <1>2, <1>3, <1>4 DEF Ever
<1>6. \A k \in Ever : row'[k].at = row[k].at /\ k \in Visible' \cup left'
  BY <1>1, <1>2 DEF Kept, Ever
<1>7. ASSUME NEW k \in Tied(Visible \cup left, i) PROVE k = i
  <2>1. k \in Ever /\ row[k].at = row[i].at
    BY <1>7 DEF Tied, Ever
  <2>2. row'[k].at = row'[i].at /\ k \in Visible' \cup left'
    BY <1>2, <1>6, <2>1
  <2>3. k \in Tied(Visible \cup left, i)'
    BY <2>2 DEF Tied
  <2> QED
    BY <1>3, <2>3
<1>8. i \in Tied(Visible \cup left, i)
  BY <1>5 DEF Tied
<1> QED
  BY <1>5, <1>7, <1>8 DEF Untied

\* A place moves down when rows come, and up by one when one leaves.
LEMMA RankMoves ==
    ASSUME BaseInv, [Next]_vars, ~End, NEW i \in Visible, i \in Visible'
    PROVE  /\ Visible \subseteq Visible' => Rank(i) <= Rank(i)'
           /\ \A k \in Visible : Visible' = Visible \ {k} => Rank(i) <= Rank(i)' + 1
           /\ Rank(i) \in Nat /\ Rank(i)' \in Nat
<1>1. BaseInv' /\ Kept
  BY Growth
<1>2. \A k \in Visible : row'[k].at = row[k].at
  BY <1>1, BaseFacts DEF Kept
<1>3. IsFiniteSet(Visible')
  <2>1. Numbers'
    BY <1>1, NumbersAlways, PTL
  <2> QED
    BY <2>1 DEF Numbers
<1> DEFINE N == Newer(Visible, i)
           M == Newer(Visible, i)'
<1>4. IsFiniteSet(N) /\ Cardinality(N) \in Nat /\ Rank(i) = Cardinality(N)
  BY RankFacts DEF Rank
<1>5. M \subseteq Visible'
  BY DEF Newer
<1>6. IsFiniteSet(M) /\ Cardinality(M) \in Nat
  BY <1>3, <1>5, FS_Subset, FS_CardinalityType
<1>7. Rank(i)' = Cardinality(M)
  BY DEF Rank
<1>8. ASSUME Visible \subseteq Visible' PROVE N \subseteq M
  BY <1>2, <1>8 DEF Newer
<1>9. ASSUME NEW k \in Visible, Visible' = Visible \ {k} PROVE N \subseteq M \cup {k}
  BY <1>2, <1>9 DEF Newer
<1> HIDE DEF N, M
<1>10. ASSUME Visible \subseteq Visible' PROVE Cardinality(N) <= Cardinality(M)
  BY <1>6, <1>8, <1>10, FS_Subset
<1>11. ASSUME NEW k \in Visible, Visible' = Visible \ {k}
       PROVE  Cardinality(N) <= Cardinality(M) + 1
  <2>1. /\ IsFiniteSet(M \cup {k})
        /\ Cardinality(M \cup {k}) = IF k \in M THEN Cardinality(M) ELSE Cardinality(M) + 1
    BY <1>6, FS_AddElement
  <2>2. Cardinality(N) <= Cardinality(M \cup {k})
    BY <1>9, <1>11, <2>1, FS_Subset
  <2> QED
    BY <1>4, <1>6, <2>1, <2>2
<1> QED
  BY <1>4, <1>6, <1>7, <1>10, <1>11

\* Between the pages a row becomes missed only where another leaves, and then one.
LEMMA MissBetween ==
    ASSUME BaseInv, MissInv, [Next]_vars, ~Find, ~End, pc # "idle"
    PROVE  MissInv'
<1>1. /\ Passed' = Passed /\ start' = start /\ seen' = seen /\ (Short' => Short)
  BY BetweenPages
<1>2. /\ BaseInv' /\ left \subseteq left' /\ Cardinality(left) <= Cardinality(left')
      /\ Cardinality(left) \in Nat /\ Cardinality(left') \in Nat
  BY Growth, GrowthCount, EverCount
<1>3. /\ IsFiniteSet(Owed) /\ IsFiniteSet(Missed)
      /\ Cardinality(Owed) \in Nat /\ Cardinality(Missed) \in Nat
      /\ Owed \subseteq Untied /\ Untied \subseteq Visible
  BY OwedFinite
<1>4. Owed' \subseteq Owed
  <2>1. ASSUME NEW i \in Owed' PROVE i \in Owed
    <3>1. i \in start /\ i \in Untied' /\ i \notin seen
      BY <1>1, <2>1 DEF Owed
    <3>2. i \in Untied
      BY <3>1, UntiedShrinks
    <3> QED
      BY <3>1, <3>2 DEF Owed
  <2> QED
    BY <2>1
<1>5. Short' => Cardinality(Owed') <= Cardinality(left')
  <2>1. Cardinality(Owed') <= Cardinality(Owed) /\ Cardinality(Owed') \in Nat
    BY <1>3, <1>4, FS_Subset, FS_CardinalityType
  <2> QED
    BY <1>1, <1>2, <1>3, <2>1 DEF MissInv
<1>6. ASSUME NEW i \in Missed'
      PROVE  i \in Owed /\ i \in Visible /\ i \in Visible' /\ Rank(i)' < Passed
  <2>1. i \in Owed' /\ Rank(i)' < Passed
    BY <1>1, <1>6 DEF Missed
  <2>2. i \in Visible'
    BY <2>1 DEF Owed, Untied
  <2> QED
    BY <1>3, <1>4, <2>1, <2>2
<1>p. Passed \in Nat
  BY ParamFacts DEF Passed
<1>7. ASSUME Visible \subseteq Visible' PROVE Cardinality(Missed') <= Cardinality(left')
  <2>1. ASSUME NEW i \in Missed' PROVE i \in Missed
    <3>1. /\ i \in Owed /\ i \in Visible /\ i \in Visible' /\ Rank(i)' < Passed
      BY <1>6, <2>1
    <3>2. Rank(i) <= Rank(i)' /\ Rank(i) \in Nat /\ Rank(i)' \in Nat
      BY <1>7, <3>1, RankMoves
    <3>3. Rank(i) < Passed
      BY <1>p, <3>1, <3>2
    <3> QED
      BY <3>1, <3>3 DEF Missed
  <2>2. Missed' \subseteq Missed
    BY <2>1
  <2>3. Cardinality(Missed') <= Cardinality(Missed) /\ Cardinality(Missed') \in Nat
    BY <1>3, <2>2, FS_Subset, FS_CardinalityType
  <2> QED
    BY <1>2, <1>3, <2>3 DEF MissInv
<1>8. ASSUME NEW k \in Visible, k \notin left, Visible' = Visible \ {k}, left' = left \cup {k}
      PROVE  Cardinality(Missed') <= Cardinality(left')
  <2> DEFINE Edge == {i \in Untied : Rank(i) = Passed}
  <2>1. ASSUME NEW i \in Missed' PROVE i \in Missed \cup Edge
    <3>1. /\ i \in Owed /\ i \in Untied /\ i \in Visible /\ i \in Visible' /\ Rank(i)' < Passed
      BY <1>3, <1>6, <2>1
    <3>2. Rank(i) <= Rank(i)' + 1 /\ Rank(i) \in Nat /\ Rank(i)' \in Nat
      BY <1>8, <3>1, RankMoves
    <3>3. Rank(i) < Passed \/ Rank(i) = Passed
      BY <1>p, <3>1, <3>2
    <3> QED
      BY <3>1, <3>3 DEF Missed
  <2>2. \E e : Edge \subseteq {e}
    <3>1. CASE Edge = {}
      BY <3>1
    <3>2. ASSUME NEW e \in Edge PROVE Edge \subseteq {e}
      BY <3>2, UntiedRanks
    <3> QED
      BY <3>1, <3>2
  <2>3. PICK e : Edge \subseteq {e}
    BY <2>2
  <2>4. Missed' \subseteq Missed \cup {e}
    BY <2>1, <2>3
  <2>5. /\ IsFiniteSet(Missed \cup {e})
        /\ Cardinality(Missed \cup {e}) =
             IF e \in Missed THEN Cardinality(Missed) ELSE Cardinality(Missed) + 1
    BY <1>3, FS_AddElement
  <2>6. /\ Cardinality(Missed') <= Cardinality(Missed \cup {e})
        /\ Cardinality(Missed') \in Nat
    BY <2>4, <2>5, FS_Subset, FS_CardinalityType
  <2>7. Cardinality(left') = Cardinality(left) + 1
    <3>1. IsFiniteSet(left)
      BY BaseFacts
    <3> QED
      BY <1>8, <3>1, FS_AddElement
  <2> QED
    BY <1>2, <1>3, <2>5, <2>6, <2>7 DEF MissInv
<1>9. \/ Visible \subseteq Visible'
      \/ \E k \in Visible : k \notin left /\ Visible' = Visible \ {k} /\ left' = left \cup {k}
  <2>1. CASE row' = row
    BY <2>1, RowsAlone
  <2>2. CASE RecordAuditRead
    BY <2>2, RecordBase
  <2>3. CASE Writes
    BY <2>3, WritesBase
  <2> QED
    BY <2>1, <2>2, <2>3, Kinds DEF Begin, Count, ReadFails, RecordOutside, Reply
<1> QED
  BY <1>5, <1>7, <1>8, <1>9 DEF MissInv

\* A page shows what is at its places, so finding it misses nothing more.
LEMMA MissFind ==
    ASSUME BaseInv, MissInv, Find
    PROVE  MissInv'
<1>1. /\ pc = "find" /\ row' = row /\ left' = left /\ params' = params /\ start' = start
      /\ seen' = seen \cup items' /\ pc' \in {"record", "reply"}
  BY DEF Find
<1>2. Kept /\ Visible' = Visible
  BY <1>1, RowsAlone
<1>3. Untied' = Untied /\ \A i \in Visible : Rank(i)' = Rank(i)
  BY <1>1, <1>2, SameRanks
<1>4. Passed = Offset(params) /\ Passed' = params.page * params.limit
  BY <1>1 DEF Passed, Found
<1>5. /\ Offset(params) \in Nat /\ params.page * params.limit \in Nat
  BY ParamFacts
<1>6. /\ IsFiniteSet(Missed) /\ Cardinality(Missed) \in Nat /\ Untied \subseteq Visible
  BY OwedFinite
<1>7. Cardinality(left) \in Nat /\ Cardinality(Visible) \in Nat
  BY EverCount
<1>8. ASSUME NEW i \in Owed', Rank(i) < params.page * params.limit PROVE i \in Missed
  <2>1. i \in start /\ i \in Untied /\ i \notin seen /\ i \notin items' /\ i \in Visible
    BY <1>1, <1>3, <1>6, <1>8 DEF Owed
  <2>2. Rank(i) \in Nat
    BY <2>1, RankFacts
  <2>3. ~(Offset(params) <= Rank(i) /\ Rank(i) < params.page * params.limit)
    BY <2>1, FindPlace
  <2>4. Rank(i) < Offset(params)
    BY <1>5, <1>8, <2>2, <2>3
  <2> QED
    BY <1>4, <2>1, <2>4 DEF Missed, Owed
<1>9. Missed' \subseteq Missed
  <2>1. ASSUME NEW i \in Missed' PROVE i \in Missed
    <3>1. i \in Owed' /\ Rank(i)' < params.page * params.limit
      BY <1>4, <2>1 DEF Missed
    <3>2. i \in Visible
      BY <1>2, <3>1 DEF Owed, Untied
    <3> QED
      BY <1>3, <1>8, <3>1, <3>2
  <2> QED
    BY <2>1
<1>10. ASSUME Short' PROVE Owed' \subseteq Missed
  <2>1. Cardinality(Visible) < params.page * params.limit
    BY <1>1, <1>10, FindFacts DEF Short
  <2>2. ASSUME NEW i \in Owed' PROVE Rank(i) < params.page * params.limit
    <3>1. i \in Visible
      BY <1>2, <2>2 DEF Owed, Untied
    <3>2. Rank(i) \in Nat /\ Rank(i) < Cardinality(Visible)
      BY <3>1, RankFacts
    <3> QED
      BY <1>5, <1>7, <2>1, <3>2
  <2> QED
    BY <1>8, <2>2
<1>11. /\ Cardinality(Missed') <= Cardinality(Missed) /\ Cardinality(Missed') \in Nat
       /\ Short' => Cardinality(Owed') <= Cardinality(Missed) /\ Cardinality(Owed') \in Nat
  BY <1>6, <1>9, <1>10, FS_Subset, FS_CardinalityType
<1> QED
  BY <1>1, <1>6, <1>7, <1>11 DEF MissInv

\* Every step keeps it.
LEMMA MissStep ==
    ASSUME BaseInv, MissInv, [Next]_vars
    PROVE  MissInv'
<1>1. CASE pc' = "idle"
  <2>1. BaseInv'
    BY BaseStep
  <2>2. start' = {} /\ left' = {}
    BY <1>1, <2>1 DEF BaseInv
  <2>3. Owed' = {} /\ Missed' = {}
    BY <2>2 DEF Owed, Missed
  <2>4. Cardinality({}) = 0
    BY FS_EmptySet
  <2> QED
    BY <2>2, <2>3, <2>4 DEF MissInv
<1>2. CASE pc = "idle" /\ pc' # "idle"
  <2>1. /\ Passed' = 0 /\ ~Short' /\ Visible' = Visible /\ left' = left /\ Kept
    BY <1>2, FirstPage
  <2>2. ASSUME NEW i \in Missed' PROVE FALSE
    <3>1. i \in Visible /\ Rank(i)' < 0
      BY <2>1, <2>2 DEF Missed, Owed, Untied
    <3>2. Rank(i)' \in Nat
      BY <2>1, <3>1, SameRanks, RankFacts
    <3> QED
      BY <3>1, <3>2
  <2>3. Missed' = {}
    BY <2>2
  <2>4. Cardinality({}) = 0 /\ Cardinality(left) \in Nat
    BY FS_EmptySet, EverCount
  <2> QED
    BY <2>1, <2>3, <2>4 DEF MissInv
<1>3. CASE Find
  BY <1>3, MissFind
<1>4. CASE pc # "idle" /\ pc' # "idle" /\ ~Find
  BY <1>4, MissBetween DEF End
<1> QED
  BY <1>1, <1>2, <1>3, <1>4

\* A client that reads to the first page that is not full has seen every row that was
\* there when it began, but for one for each row that left.
THEOREM SweepComplete == Spec => []NothingMissed
<1>1. Init => MissInv
  <2> SUFFICES ASSUME Init PROVE MissInv
    OBVIOUS
  <2>1. start = {} /\ left = {} /\ pc = "idle"
    BY DEF Init
  <2>2. Missed = {} /\ Cardinality({}) = 0 /\ ~Short
    BY <2>1, FS_EmptySet DEF Missed, Owed, Short, Found
  <2> QED
    BY <2>1, <2>2 DEF MissInv
<1>2. QuietInv /\ MissInv => NothingMissed
  BY DEF QuietInv, MissInv, NothingMissed, Owed
<1>3. Init => QuietInv
  BY DEF Init, QuietInv
<1> QED
  BY <1>1, <1>2, <1>3, InitBase, BaseStep, QuietStep, MissStep, PTL DEF Spec

=============================================================================
