----------------------------- MODULE Sums_proofs -----------------------------
(***************************************************************************)
(* What Total computes, for every finite set.  Total is a fold, that is a  *)
(* recursive function on the subsets of the set; facts about it are proved *)
(* by looking at a smallest subset for which they fail.                    *)
(***************************************************************************)
EXTENDS Sums, FiniteSetTheorems, WellFoundedInduction, TLAPS

\* A set of natural numbers has a least one.
LEMMA LeastNatural ==
    ASSUME NEW S \in SUBSET Nat, S # {}
    PROVE  \E m \in S : \A n \in S : m <= n
<1> DEFINE R == {ss \in Nat \X Nat : ss[1] < ss[2]}
<1>1. IsWellFoundedOn(R, Nat)
  BY NatLessThanWellFounded, Zenon DEF OpToRel
<1>2. \A x, y \in Nat : <<x, y>> \in R <=> x < y
  OBVIOUS
<1> HIDE DEF R
<1>3. PICK m \in S : \A y \in S : ~(<<y, m>> \in R)
  BY <1>1, WFMin, Zenon
<1>4. \A n \in S : ~(n < m)
  BY <1>2, <1>3
<1> QED
  BY <1>4

\* A bounded set of natural numbers has a greatest one.
LEMMA GreatestNatural ==
    ASSUME NEW T \in SUBSET Nat, T # {}, NEW b \in Nat, \A t \in T : t <= b
    PROVE  \E m \in T : \A t \in T : t <= m
<1> DEFINE S == {n \in Nat : \E t \in T : n = b - t}
<1>1. S \in SUBSET Nat /\ S # {}
  <2>1. PICK t \in T : TRUE
    OBVIOUS
  <2>2. b - t \in S
    BY <2>1
  <2> QED
    BY <2>2
<1>2. PICK n \in S : \A k \in S : n <= k
  <2> HIDE DEF S
  <2> QED
    BY <1>1, LeastNatural
<1>3. PICK m \in T : n = b - m
  BY <1>2
<1>4. ASSUME NEW t \in T PROVE t <= m
  <2>1. b - t \in S
    OBVIOUS
  <2> QED
    BY <1>2, <1>3, <2>1
<1> QED
  BY <1>4

-----------------------------------------------------------------------------
(* The recursion.                                                          *)

\* The member the fold takes first.
Pick(s) == CHOOSE x \in s : TRUE

\* g is the fold's function on the sets in D.
FoldOf(g, f, D) ==
    g = [s \in D |-> IF s = {} THEN 0 ELSE f[Pick(s)] + g[s \ {Pick(s)}]]

\* A set without one of its members is finite and smaller.
LEMMA Smaller ==
    ASSUME NEW s, IsFiniteSet(s), NEW x \in s
    PROVE  /\ IsFiniteSet(s \ {x})
           /\ Cardinality(s) \in Nat /\ Cardinality(s \ {x}) \in Nat
           /\ Cardinality(s \ {x}) = Cardinality(s) - 1
           /\ Cardinality(s \ {x}) < Cardinality(s)
<1>1. IsFiniteSet(s \ {x}) /\ Cardinality(s \ {x}) = Cardinality(s) - 1
  BY FS_RemoveElement
<1>2. Cardinality(s) \in Nat /\ Cardinality(s \ {x}) \in Nat
  BY <1>1, FS_CardinalityType
<1> QED
  BY <1>1, <1>2

\* The fold's function exists on the subsets of a finite set: if not, take the least
\* size up to which it does not; it is the one below, extended by one step.
LEMMA FoldsExists ==
    ASSUME NEW f, NEW S, IsFiniteSet(S)
    PROVE  \E g : FoldOf(g, f, SUBSET S)
<1> DEFINE Small(n) == {s \in SUBSET S : Cardinality(s) <= n}
           Bad == {n \in Nat : ~ \E g : FoldOf(g, f, Small(n))}
<1>0. \A s \in SUBSET S : /\ IsFiniteSet(s) /\ Cardinality(s) \in Nat
                          /\ Cardinality(s) <= Cardinality(S)
                          /\ (Cardinality(s) = 0 <=> s = {})
  BY FS_Subset, FS_CardinalityType, FS_EmptySet
<1>1. ASSUME Bad # {} PROVE FALSE
  <2>1. PICK n \in Bad : \A k \in Bad : n <= k
    <3>1. Bad \in SUBSET Nat
      OBVIOUS
    <3> QED
      BY <1>1, <3>1, LeastNatural
  <2>2. CASE n = 0
    <3> DEFINE g == [s \in Small(0) |-> 0]
    <3>1. \A s \in Small(0) : s = {}
      BY <1>0
    <3>2. FoldOf(g, f, Small(0))
      <4> HIDE DEF g
      <4>1. [s \in Small(0) |-> 0] =
              [s \in Small(0) |-> IF s = {} THEN 0 ELSE f[Pick(s)] + g[s \ {Pick(s)}]]
        <5> HIDE DEF Small
        <5> QED
          BY <3>1, Zenon
      <4> QED
        BY <4>1 DEF FoldOf, g
    <3> QED
      BY <2>1, <2>2, <3>2
  <2>3. CASE n # 0
    <3>0. n \in Nat
      OBVIOUS
    <3>1. n - 1 \in Nat /\ n - 1 \notin Bad
      <4> HIDE DEF Bad
      <4> QED
        BY <2>1, <2>3, <3>0
    <3>2. PICK g : FoldOf(g, f, Small(n - 1))
      BY <3>1
    <3> DEFINE h == [s \in Small(n) |->
                       IF s = {} THEN 0 ELSE f[Pick(s)] + g[s \ {Pick(s)}]]
    <3>3. ASSUME NEW s \in Small(n - 1) PROVE s \in Small(n) /\ h[s] = g[s]
      <4>1. s \in Small(n)
        BY <1>0, <2>1, <3>3
      <4>2. h[s] = IF s = {} THEN 0 ELSE f[Pick(s)] + g[s \ {Pick(s)}]
        BY <4>1
      <4>3. g[s] = IF s = {} THEN 0 ELSE f[Pick(s)] + g[s \ {Pick(s)}]
        BY <3>2, <3>3 DEF FoldOf
      <4> QED
        BY <4>1, <4>2, <4>3
    <3>4. ASSUME NEW s \in Small(n), s # {} PROVE s \ {Pick(s)} \in Small(n - 1)
      <4>1. Pick(s) \in s
        BY <3>4 DEF Pick
      <4>2. Cardinality(s \ {Pick(s)}) = Cardinality(s) - 1 /\ Cardinality(s) \in Nat
        BY <1>0, <4>1, Smaller
      <4> QED
        BY <2>1, <3>4, <4>2
    <3>5. \A s \in Small(n) : s # {} => h[s \ {Pick(s)}] = g[s \ {Pick(s)}]
      <4> HIDE DEF h, Small
      <4> QED
        BY <3>3, <3>4
    <3>6. FoldOf(h, f, Small(n))
      <4>1. h = [s \in Small(n) |->
                   IF s = {} THEN 0 ELSE f[Pick(s)] + h[s \ {Pick(s)}]]
        <5> DEFINE k == [s \in Small(n) |->
                   IF s = {} THEN 0 ELSE f[Pick(s)] + h[s \ {Pick(s)}]]
        <5>1. \A s \in Small(n) : h[s] = k[s]
          <6>1. \A s \in Small(n) : 
                  h[s] = IF s = {} THEN 0 ELSE f[Pick(s)] + g[s \ {Pick(s)}]
            OBVIOUS
          <6>2. \A s \in Small(n) : 
                  k[s] = IF s = {} THEN 0 ELSE f[Pick(s)] + h[s \ {Pick(s)}]
            <7> HIDE DEF h
            <7> QED OBVIOUS
          <6> HIDE DEF h, k, Small
          <6> QED
            BY <3>5, <6>1, <6>2
        <5>2. h = [s \in Small(n) |-> h[s]] /\ k = [s \in Small(n) |-> k[s]]
          <6>1. h = [s \in Small(n) |-> h[s]]
            OBVIOUS
          <6>2. k = [s \in Small(n) |-> k[s]]
            <7> HIDE DEF h
            <7> QED OBVIOUS
          <6> QED
            BY <6>1, <6>2
        <5>3. h = k
          <6> HIDE DEF h, k, Small
          <6> QED
            BY <5>1, <5>2
        <5> QED
          BY <5>3
      <4> HIDE DEF h
      <4> QED
        BY <4>1 DEF FoldOf
    <3> HIDE DEF h, Small
    <3> QED
      BY <2>1, <3>6 DEF Bad
  <2> QED
    BY <2>2, <2>3
<1>2. Cardinality(S) \in Nat /\ Small(Cardinality(S)) = SUBSET S
  BY <1>0
<1>3. \E g : FoldOf(g, f, Small(Cardinality(S)))
  BY <1>1, <1>2
<1> HIDE DEF Small
<1> QED
  BY <1>2, <1>3

\* The fold's function is the only one: for weights that agree, two of them agree on
\* every finite set both are defined on.  Look at a smallest set on which they differ.
LEMMA FoldOfUnique ==
    ASSUME NEW f, NEW e, NEW S, NEW T, NEW g, NEW h,
           FoldOf(g, f, SUBSET S), FoldOf(h, e, SUBSET T),
           NEW U \in SUBSET (S \cap T), IsFiniteSet(U),
           \A x \in U : f[x] = e[x]
    PROVE  g[U] = h[U]
<1> DEFINE Bad == {n \in Nat : \E u \in SUBSET U : Cardinality(u) = n /\ g[u] # h[u]}
<1>0. \A u \in SUBSET U : IsFiniteSet(u) /\ Cardinality(u) \in Nat
  BY FS_Subset, FS_CardinalityType
<1>1. ASSUME Bad # {} PROVE FALSE
  <2>1. PICK n \in Bad : \A k \in Bad : n <= k
    <3>1. Bad \in SUBSET Nat
      OBVIOUS
    <3> QED
      BY <1>1, <3>1, LeastNatural
  <2>2. PICK u \in SUBSET U : Cardinality(u) = n /\ g[u] # h[u]
    BY <2>1
  <2>3. /\ g[u] = IF u = {} THEN 0 ELSE f[Pick(u)] + g[u \ {Pick(u)}]
        /\ h[u] = IF u = {} THEN 0 ELSE e[Pick(u)] + h[u \ {Pick(u)}]
    <3>1. u \in SUBSET S /\ u \in SUBSET T
      OBVIOUS
    <3> QED
      BY <3>1 DEF FoldOf
  <2>4. u # {}
    BY <2>2, <2>3
  <2>5. Pick(u) \in u
    BY <2>4 DEF Pick
  <2>6. /\ u \ {Pick(u)} \in SUBSET U
        /\ Cardinality(u \ {Pick(u)}) \in Nat /\ Cardinality(u \ {Pick(u)}) < n
    BY <1>0, <2>2, <2>5, Smaller
  <2>7. g[u \ {Pick(u)}] = h[u \ {Pick(u)}]
    BY <2>1, <2>6
  <2>8. f[Pick(u)] = e[Pick(u)]
    BY <2>5
  <2> QED
    BY <2>2, <2>3, <2>4, <2>7, <2>8
<1> QED
  BY <1>0, <1>1

\* Total is the value of the fold's function.
LEMMA TotalIsFold ==
    ASSUME NEW f, NEW S, IsFiniteSet(S)
    PROVE  \E g : FoldOf(g, f, SUBSET S) /\ Total(f, S) = g[S]
<1>1. PICK g : FoldOf(g, f, SUBSET S)
  BY FoldsExists
<1> DEFINE c == CHOOSE iter : FoldOf(iter, f, SUBSET S)
<1>2. FoldOf(c, f, SUBSET S)
  BY <1>1
<1>3. Total(f, S) = c[S]
  BY DEF Total, MapThenSumSet, MapThenFoldSet, FoldOf, Pick
<1> HIDE DEF c
<1> QED
  BY <1>2, <1>3

-----------------------------------------------------------------------------
(* The laws of sums.                                                       *)

\* Weights that agree on the set have the same sum.
LEMMA TotalAgree ==
    ASSUME NEW f, NEW e, NEW S, IsFiniteSet(S), \A x \in S : f[x] = e[x]
    PROVE  Total(f, S) = Total(e, S)
<1>1. PICK g : FoldOf(g, f, SUBSET S) /\ Total(f, S) = g[S]
  BY TotalIsFold
<1>2. PICK h : FoldOf(h, e, SUBSET S) /\ Total(e, S) = h[S]
  BY TotalIsFold
<1>3. S \in SUBSET (S \cap S)
  OBVIOUS
<1>4. g[S] = h[S]
  BY <1>1, <1>2, <1>3, FoldOfUnique
<1> QED
  BY <1>1, <1>2, <1>4

\* The sum over no members is 0.
LEMMA TotalEmpty ==
    ASSUME NEW f
    PROVE  Total(f, {}) = 0
<1>1. IsFiniteSet({})
  BY FS_EmptySet
<1>2. PICK g : FoldOf(g, f, SUBSET {}) /\ Total(f, {}) = g[{}]
  BY <1>1, TotalIsFold
<1>3. {} \in SUBSET {}
  OBVIOUS
<1> QED
  BY <1>2, <1>3 DEF FoldOf

\* The sum is the picked member's weight and the sum over the others.
LEMMA TotalPick ==
    ASSUME NEW f, NEW S, IsFiniteSet(S), S # {}
    PROVE  Pick(S) \in S /\ Total(f, S) = f[Pick(S)] + Total(f, S \ {Pick(S)})
<1> DEFINE R == S \ {Pick(S)}
<1>0. Pick(S) \in S
  BY DEF Pick
<1>1. PICK g : FoldOf(g, f, SUBSET S) /\ Total(f, S) = g[S]
  BY TotalIsFold
<1>2. IsFiniteSet(R)
  BY <1>0, Smaller
<1>3. PICK h : FoldOf(h, f, SUBSET R) /\ Total(f, R) = h[R]
  BY <1>2, TotalIsFold
<1>4. R \in SUBSET (S \cap R)
  OBVIOUS
<1>5. g[R] = h[R]
  <2> HIDE DEF R
  <2> QED
    BY <1>1, <1>2, <1>3, <1>4, FoldOfUnique
<1>6. g[S] = f[Pick(S)] + g[R]
  <2>1. S \in SUBSET S
    OBVIOUS
  <2> QED
    BY <1>1, <2>1 DEF FoldOf
<1> QED
  BY <1>0, <1>1, <1>3, <1>5, <1>6

\* The sum of integers is an integer.
LEMMA TotalType ==
    ASSUME NEW f, NEW S, IsFiniteSet(S), \A x \in S : f[x] \in Int
    PROVE  Total(f, S) \in Int
<1> DEFINE Bad == {n \in Nat : \E u \in SUBSET S :
                                 Cardinality(u) = n /\ Total(f, u) \notin Int}
<1>0. \A u \in SUBSET S : IsFiniteSet(u) /\ Cardinality(u) \in Nat
  BY FS_Subset, FS_CardinalityType
<1>1. ASSUME Bad # {} PROVE FALSE
  <2>1. PICK n \in Bad : \A k \in Bad : n <= k
    <3>1. Bad \in SUBSET Nat
      OBVIOUS
    <3> QED
      BY <1>1, <3>1, LeastNatural
  <2>2. PICK u \in SUBSET S : Cardinality(u) = n /\ Total(f, u) \notin Int
    BY <2>1
  <2>3. u # {}
    BY <2>2, TotalEmpty
  <2>4. Pick(u) \in u /\ Total(f, u) = f[Pick(u)] + Total(f, u \ {Pick(u)})
    BY <1>0, <2>3, TotalPick
  <2>5. /\ u \ {Pick(u)} \in SUBSET S
        /\ Cardinality(u \ {Pick(u)}) \in Nat /\ Cardinality(u \ {Pick(u)}) < n
    BY <1>0, <2>2, <2>4, Smaller
  <2>6. Total(f, u \ {Pick(u)}) \in Int
    BY <2>1, <2>5
  <2>7. f[Pick(u)] \in Int
    BY <2>4
  <2> QED
    BY <2>2, <2>4, <2>6, <2>7
<1> QED
  BY <1>0, <1>1

\* The sum of zeros is 0.
LEMMA TotalZero ==
    ASSUME NEW f, NEW S, IsFiniteSet(S), \A x \in S : f[x] = 0
    PROVE  Total(f, S) = 0
<1> DEFINE Bad == {n \in Nat : \E u \in SUBSET S :
                                 Cardinality(u) = n /\ Total(f, u) # 0}
<1>0. \A u \in SUBSET S : IsFiniteSet(u) /\ Cardinality(u) \in Nat
  BY FS_Subset, FS_CardinalityType
<1>1. ASSUME Bad # {} PROVE FALSE
  <2>1. PICK n \in Bad : \A k \in Bad : n <= k
    <3>1. Bad \in SUBSET Nat
      OBVIOUS
    <3> QED
      BY <1>1, <3>1, LeastNatural
  <2>2. PICK u \in SUBSET S : Cardinality(u) = n /\ Total(f, u) # 0
    BY <2>1
  <2>3. u # {}
    BY <2>2, TotalEmpty
  <2>4. Pick(u) \in u /\ Total(f, u) = f[Pick(u)] + Total(f, u \ {Pick(u)})
    BY <1>0, <2>3, TotalPick
  <2>5. /\ u \ {Pick(u)} \in SUBSET S
        /\ Cardinality(u \ {Pick(u)}) \in Nat /\ Cardinality(u \ {Pick(u)}) < n
    BY <1>0, <2>2, <2>4, Smaller
  <2>6. Total(f, u \ {Pick(u)}) = 0
    BY <2>1, <2>5
  <2>7. f[Pick(u)] = 0
    BY <2>4
  <2> QED
    BY <2>2, <2>4, <2>6, <2>7
<1> QED
  BY <1>0, <1>1

\* Any member's weight can be split off, whichever the fold picks.  Look at a smallest
\* set with a member for which it cannot: it is not the one picked, and both can be
\* split off in either order.
LEMMA TotalSplit ==
    ASSUME NEW f, NEW S, IsFiniteSet(S), \A x \in S : f[x] \in Int, NEW y \in S
    PROVE  Total(f, S) = f[y] + Total(f, S \ {y})
<1> DEFINE Bad == {n \in Nat : \E u \in SUBSET S : /\ Cardinality(u) = n
                      /\ \E x \in u : Total(f, u) # f[x] + Total(f, u \ {x})}
<1>0. \A u \in SUBSET S : IsFiniteSet(u) /\ Cardinality(u) \in Nat
  BY FS_Subset, FS_CardinalityType
<1>1. ASSUME Bad # {} PROVE FALSE
  <2>1. PICK n \in Bad : \A k \in Bad : n <= k
    <3>1. Bad \in SUBSET Nat
      OBVIOUS
    <3> QED
      BY <1>1, <3>1, LeastNatural
  <2>2. PICK u \in SUBSET S : /\ Cardinality(u) = n
                             /\ \E x \in u : Total(f, u) # f[x] + Total(f, u \ {x})
    BY <2>1
  <2>3. PICK x \in u : Total(f, u) # f[x] + Total(f, u \ {x})
    BY <2>2
  <2> DEFINE p == Pick(u)
  <2>4. p \in u /\ Total(f, u) = f[p] + Total(f, u \ {p})
    BY <1>0, <2>3, TotalPick
  <2> HIDE DEF p
  <2>5. p # x
    BY <2>3, <2>4
  <2>6. ASSUME NEW z \in u, NEW v \in u \ {z}
        PROVE  Total(f, u \ {z}) = f[v] + Total(f, (u \ {z}) \ {v})
    <3>0. n \in Nat
      OBVIOUS
    <3>1. /\ u \ {z} \in SUBSET S
          /\ Cardinality(u \ {z}) \in Nat /\ Cardinality(u \ {z}) < n
      BY <1>0, <2>2, Smaller
    <3>2. Cardinality(u \ {z}) \notin Bad
      <4> HIDE DEF Bad
      <4> QED
        BY <2>1, <3>0, <3>1
    <3> QED
      BY <3>1, <3>2
  <2>7. Total(f, u \ {p}) = f[x] + Total(f, (u \ {p}) \ {x})
    BY <2>4, <2>5, <2>6
  <2>8. Total(f, u \ {x}) = f[p] + Total(f, (u \ {x}) \ {p})
    BY <2>4, <2>5, <2>6
  <2>9. (u \ {p}) \ {x} = (u \ {x}) \ {p}
    OBVIOUS
  <2>10. f[x] \in Int /\ f[p] \in Int /\ Total(f, (u \ {p}) \ {x}) \in Int
    <3>1. (u \ {p}) \ {x} \in SUBSET S
      OBVIOUS
    <3>2. IsFiniteSet((u \ {p}) \ {x}) /\ \A z \in (u \ {p}) \ {x} : f[z] \in Int
      BY <1>0, <3>1
    <3>3. f[x] \in Int /\ f[p] \in Int
      BY <2>4
    <3>4. Total(f, (u \ {p}) \ {x}) \in Int
      BY <3>2, TotalType
    <3> QED
      BY <3>3, <3>4
  <2>11. \A a, b, c \in Int : b + (a + c) = a + (b + c)
    OBVIOUS
  <2>12. Total(f, u) = f[p] + (f[x] + Total(f, (u \ {p}) \ {x}))
    BY <2>4, <2>7
  <2>13. f[x] + Total(f, u \ {x}) = f[x] + (f[p] + Total(f, (u \ {p}) \ {x}))
    BY <2>8, <2>9
  <2>14. Total(f, u) = f[x] + Total(f, u \ {x})
    BY <2>10, <2>11, <2>12, <2>13, Zenon
  <2> QED
    BY <2>3, <2>14
<1>2. S \in SUBSET S /\ Cardinality(S) \in Nat /\ Cardinality(S) \notin Bad
  BY <1>0, <1>1
<1> QED
  BY <1>2

\* A member that joins adds its weight.
LEMMA TotalJoin ==
    ASSUME NEW f, NEW S, IsFiniteSet(S), \A x \in S : f[x] \in Int,
           NEW y, y \notin S, f[y] \in Int
    PROVE  Total(f, S \cup {y}) = f[y] + Total(f, S)
<1> DEFINE T == S \cup {y}
<1>1. IsFiniteSet(T) /\ (\A x \in T : f[x] \in Int) /\ y \in T /\ T \ {y} = S
  BY FS_AddElement
<1> HIDE DEF T
<1>2. Total(f, T) = f[y] + Total(f, T \ {y})
  BY <1>1, TotalSplit
<1> QED
  BY <1>1, <1>2 DEF T

\* When one weight changes, the sum changes by as much.
LEMMA TotalUpdate ==
    ASSUME NEW f, NEW e, NEW S, IsFiniteSet(S), NEW y \in S,
           \A x \in S : f[x] \in Int, \A x \in S : e[x] \in Int,
           \A x \in S \ {y} : e[x] = f[x]
    PROVE  Total(e, S) = Total(f, S) + (e[y] - f[y])
<1>1. IsFiniteSet(S \ {y}) /\ \A x \in S \ {y} : f[x] \in Int
  BY Smaller
<1>2. Total(e, S \ {y}) = Total(f, S \ {y}) /\ Total(f, S \ {y}) \in Int
  BY <1>1, TotalAgree, TotalType
<1>3. Total(f, S) = f[y] + Total(f, S \ {y})
  BY TotalSplit
<1>4. Total(e, S) = e[y] + Total(e, S \ {y})
  BY TotalSplit
<1>5. f[y] \in Int /\ e[y] \in Int
  OBVIOUS
<1> QED
  BY <1>2, <1>3, <1>4, <1>5

-----------------------------------------------------------------------------
(* Sums over numbers.                                                      *)

\* The last weight can be split off.
LEMMA TotalLast ==
    ASSUME NEW f, NEW n \in Nat, \A i \in 0 .. n : f[i] \in Int
    PROVE  /\ Total(f, 0 .. n) = f[n] + Total(f, 0 .. n - 1)
           /\ Total(f, 0 .. n) \in Int /\ Total(f, 0 .. n - 1) \in Int
<1>1. (0 .. n) \ {n} = 0 .. n - 1 /\ n \in 0 .. n
  OBVIOUS
<1>2. IsFiniteSet(0 .. n) /\ IsFiniteSet(0 .. n - 1)
  BY FS_Interval
<1>3. Total(f, 0 .. n) = f[n] + Total(f, (0 .. n) \ {n})
  BY <1>1, <1>2, TotalSplit
<1>4. \A i \in 0 .. n - 1 : f[i] \in Int
  OBVIOUS
<1>5. Total(f, 0 .. n) \in Int /\ Total(f, 0 .. n - 1) \in Int
  BY <1>2, <1>4, TotalType
<1> QED
  BY <1>1, <1>3, <1>5

\* Weights that move up by one place keep their sum.  Look at a shortest stretch over
\* which they do not.
LEMMA TotalShift ==
    ASSUME NEW f, NEW e, NEW n \in Nat, \A i \in 0 .. n - 1 : f[i] \in Int,
           e[0] = 0, \A i \in 1 .. n : e[i] = f[i - 1]
    PROVE  Total(e, 0 .. n) = Total(f, 0 .. n - 1)
<1> DEFINE Bad == {m \in Nat : m <= n /\ Total(e, 0 .. m) # Total(f, 0 .. m - 1)}
<1>0. \A i \in 0 .. n : e[i] \in Int
  <2>1. ASSUME NEW i \in 1 .. n PROVE e[i] \in Int
    <3>1. i - 1 \in 0 .. n - 1
      OBVIOUS
    <3> QED
      BY <3>1
  <2>2. \A i \in 0 .. n : i = 0 \/ i \in 1 .. n
    OBVIOUS
  <2> QED
    BY <2>1, <2>2
<1>1. ASSUME Bad # {} PROVE FALSE
  <2>1. PICK m \in Bad : \A k \in Bad : m <= k
    <3>1. Bad \in SUBSET Nat
      OBVIOUS
    <3> QED
      BY <1>1, <3>1, LeastNatural
  <2>2. m \in Nat /\ m <= n /\ Total(e, 0 .. m) # Total(f, 0 .. m - 1)
    BY <2>1
  <2> HIDE DEF Bad
  <2>3. /\ Total(e, 0 .. m) = e[m] + Total(e, 0 .. m - 1)
    <3>1. \A i \in 0 .. m : e[i] \in Int
      BY <1>0, <2>2
    <3> QED
      BY <2>2, <3>1, TotalLast
  <2>4. CASE m = 0
    <3>1. 0 .. m - 1 = {}
      BY <2>4
    <3>2. Total(e, {}) = 0 /\ Total(f, {}) = 0
      BY TotalEmpty
    <3> QED
      BY <2>2, <2>3, <2>4, <3>1, <3>2
  <2>5. CASE m # 0
    <3> DEFINE l == m - 1
    <3>1. l \in Nat /\ l <= n /\ l < m /\ m \in 1 .. n
      BY <2>2, <2>5
    <3> HIDE DEF l
    <3>2. Total(e, 0 .. l) = Total(f, 0 .. l - 1)
      <4>1. l \notin Bad
        BY <2>1, <2>2, <3>1
      <4> QED
        BY <3>1, <4>1 DEF Bad
    <3>3. Total(f, 0 .. l) = f[l] + Total(f, 0 .. l - 1)
      <4>1. \A i \in 0 .. l : f[i] \in Int
        BY <2>2, <3>1 DEF l
      <4> QED
        BY <3>1, <4>1, TotalLast
    <3>4. e[m] = f[l]
      BY <3>1 DEF l
    <3> QED
      BY <2>2, <2>3, <3>2, <3>3, <3>4 DEF l
  <2> QED
    BY <2>4, <2>5
<1>2. n \notin Bad
  BY <1>1
<1> QED
  BY <1>2

\* A sum of differences: what a chain moves by adds up to where it ends.  Look at a
\* shortest piece of it that does not.
LEMMA TotalChain ==
    ASSUME NEW f, NEW e, NEW n \in Nat, \A i \in 0 .. n : e[i] \in Int, e[0] = 0,
           \A i \in 1 .. n : f[i] = e[i] - e[i - 1]
    PROVE  Total(f, 1 .. n) = e[n]
<1> DEFINE Bad == {m \in Nat : m <= n /\ Total(f, 1 .. m) # e[m]}
<1>0. ASSUME NEW i \in 1 .. n PROVE f[i] \in Int
  <2>1. i \in 0 .. n /\ i - 1 \in 0 .. n
    OBVIOUS
  <2> QED
    BY <2>1
<1>1. ASSUME Bad # {} PROVE FALSE
  <2>1. PICK m \in Bad : \A k \in Bad : m <= k
    <3>1. Bad \in SUBSET Nat
      OBVIOUS
    <3> QED
      BY <1>1, <3>1, LeastNatural
  <2>2. m \in Nat /\ m <= n /\ Total(f, 1 .. m) # e[m]
    BY <2>1
  <2> HIDE DEF Bad
  <2>3. CASE m = 0
    <3>1. 1 .. m = {}
      BY <2>3
    <3> QED
      BY <2>2, <2>3, <3>1, TotalEmpty
  <2>4. CASE m # 0
    <3> DEFINE l == m - 1
               S == 1 .. l
    <3>1. l \in Nat /\ l <= n /\ l < m /\ m \in 1 .. n
      BY <2>2, <2>4
    <3>2. Total(f, S) = e[l]
      <4> HIDE DEF l
      <4>1. l \notin Bad
        BY <2>1, <2>2, <3>1
      <4> QED
        BY <3>1, <4>1 DEF Bad
    <3>3. IsFiniteSet(S) /\ m \notin S /\ S \cup {m} = 1 .. m
      <4>1. m \notin S /\ S \cup {m} = 1 .. m
        BY <2>2, <3>1
      <4>2. IsFiniteSet(1 .. l)
        <5> HIDE DEF l
        <5> QED
          BY <3>1, FS_Interval
      <4> QED
        BY <4>1, <4>2
    <3>4. (\A x \in S : f[x] \in Int) /\ f[m] \in Int
      BY <1>0, <3>1
    <3>5. Total(f, 1 .. m) = f[m] + Total(f, S)
      <4> HIDE DEF S
      <4> QED
        BY <3>3, <3>4, TotalJoin
    <3>6. f[m] = e[m] - e[l] /\ e[m] \in Int /\ e[l] \in Int
      BY <3>1
    <3> HIDE DEF l, S
    <3> QED
      BY <2>2, <3>2, <3>5, <3>6
  <2> QED
    BY <2>3, <2>4
<1>2. n \notin Bad
  BY <1>1
<1> QED
  BY <1>2
=============================================================================
