-------------------------- MODULE RankFusionProofs --------------------------
(***************************************************************************)
(* Proofs about RankFusion for lists of any length: sets listed by         *)
(* counting, what normalize_ranked_list makes of a list of distinct rows,  *)
(* reciprocal ranks, and what rrf_fuse_batch makes of two lists.           *)
(***************************************************************************)
EXTENDS RankFusion, FiniteSetTheorems, TLAPS

-----------------------------------------------------------------------------
(* Numbers and lists                                                       *)

LEMMA MinOfTwo ==
  ASSUME NEW a \in Int, NEW b \in Int
  PROVE  Min({a, b}) = IF a <= b THEN a ELSE b
<1>1. /\ (IF a <= b THEN a ELSE b) \in {a, b}
      /\ \A y \in {a, b} : (IF a <= b THEN a ELSE b) <= y
      /\ \A x \in {a, b} : (\A y \in {a, b} : x <= y) => x = IF a <= b THEN a ELSE b
  OBVIOUS
<1> QED BY <1>1 DEF Min

LEMMA MaxOfTwo ==
  ASSUME NEW a \in Int, NEW b \in Int
  PROVE  Max({a, b}) = IF a >= b THEN a ELSE b
<1>1. /\ (IF a >= b THEN a ELSE b) \in {a, b}
      /\ \A y \in {a, b} : (IF a >= b THEN a ELSE b) >= y
      /\ \A x \in {a, b} : (\A y \in {a, b} : x >= y) => x = IF a >= b THEN a ELSE b
  OBVIOUS
<1> QED BY <1>1 DEF Max

LEMMA LenOfFunction ==
  ASSUME NEW n \in Nat, NEW f, DOMAIN f = 1..n, f = [i \in 1..n |-> f[i]]
  PROVE  Len(f) = n
<1>1. f \in [1..n -> {f[i] : i \in 1..n}]
  OBVIOUS
<1>2. f \in Seq({f[i] : i \in 1..n})
  BY <1>1
<1> QED BY <1>2

LEMMA ListIsSeq ==
  ASSUME NEW n \in Nat, NEW S, NEW f \in [1..n -> S]
  PROVE  f \in Seq(S)
OBVIOUS

-----------------------------------------------------------------------------
(* Sets listed in an order                                                 *)

\* Counting the members below each numbers a finite set from 0 without a gap,
\* so the list of the members by that number has each once, in order.
LEMMA CountingLists ==
  ASSUME NEW S, IsFiniteSet(S), NEW below \in [S -> SUBSET S],
         \A s \in S : s \notin below[s],
         \A s, t \in S : s # t => s \in below[t] \/ t \in below[s],
         \A s, t \in S : s \in below[t] => below[s] \subseteq below[t],
         NEW list, list = [i \in 1..Cardinality(S) |-> list[i]],
         \A i \in 1..Cardinality(S) : \A s \in S : Cardinality(below[s]) = i - 1 =>
           list[i] \in S /\ Cardinality(below[list[i]]) = i - 1
  PROVE  /\ Cardinality(S) \in Nat
         /\ list \in [1..Cardinality(S) -> S]
         /\ \A s \in S : \E i \in 1..Cardinality(S) : list[i] = s
         /\ \A i, j \in 1..Cardinality(S) : i < j => list[i] \in below[list[j]]
<1> DEFINE n == Cardinality(S)
           place == [s \in S |-> Cardinality(below[s]) + 1]
<1>0. n \in Nat
  BY FS_CardinalityType
<1>1. \A s \in S : /\ IsFiniteSet(below[s]) /\ Cardinality(below[s]) \in Nat
                   /\ Cardinality(below[s]) < n
  <2> SUFFICES ASSUME NEW s \in S
               PROVE  /\ IsFiniteSet(below[s]) /\ Cardinality(below[s]) \in Nat
                      /\ Cardinality(below[s]) < n
    OBVIOUS
  <2>1. below[s] \in SUBSET S /\ below[s] # S
    OBVIOUS
  <2>2. IsFiniteSet(below[s]) /\ Cardinality(below[s]) <= n /\ Cardinality(below[s]) # n
    BY <2>1, FS_Subset
  <2>3. Cardinality(below[s]) \in Nat
    BY <2>2, FS_CardinalityType
  <2> HIDE DEF n
  <2> QED BY <1>0, <2>2, <2>3
<1>2. \A s, t \in S : s \in below[t] => place[s] < place[t]
  <2> SUFFICES ASSUME NEW s \in S, NEW t \in S, s \in below[t]
               PROVE  Cardinality(below[s]) < Cardinality(below[t])
    BY <1>1
  <2>1. below[s] \in SUBSET below[t] /\ below[s] # below[t]
    OBVIOUS
  <2>2. /\ Cardinality(below[s]) <= Cardinality(below[t])
        /\ Cardinality(below[s]) # Cardinality(below[t])
    BY <2>1, <1>1, FS_Subset
  <2> QED BY <2>2, <1>1
<1>3. place \in Injection(S, 1..n)
  <2>1. place \in [S -> 1..n]
    <3> HIDE DEF n
    <3> QED BY <1>0, <1>1
  <2>2. \A s, t \in S : place[s] = place[t] => s = t
    <3>1. \A s \in S : place[s] \in Int
      BY <1>1
    <3> HIDE DEF place, n
    <3> QED BY <1>2, <3>1
  <2> HIDE DEF place
  <2> QED BY <2>1, <2>2 DEF Injection, IsInjective
<1>4. IsFiniteSet(1..n) /\ Cardinality(1..n) = n
  BY <1>0, FS_Interval
<1>5. place \in Surjection(S, 1..n)
  <2> HIDE DEF place
  <2> QED BY <1>3, <1>4, FS_Injection
<1>6. \A i \in 1..n : \E s \in S : place[s] = i
  <2> HIDE DEF place
  <2> QED BY <1>5 DEF Surjection
<1>7. /\ \A s, t \in S : place[s] = place[t] => s = t
      /\ \A s \in S : place[s] \in 1..n
  <2> HIDE DEF place
  <2> QED BY <1>3 DEF Injection, IsInjective
<1>8. \A i \in 1..n : list[i] \in S /\ place[list[i]] = i
  <2> SUFFICES ASSUME NEW i \in 1..n PROVE list[i] \in S /\ place[list[i]] = i
    OBVIOUS
  <2>1. PICK s \in S : place[s] = i
    BY <1>6
  <2>2. Cardinality(below[s]) = i - 1
    BY <2>1, <1>1
  <2>4. list[i] \in S /\ Cardinality(below[list[i]]) = i - 1
    BY <2>2
  <2> QED BY <2>4
<1>9. list \in [1..n -> S]
  <2> HIDE DEF place
  <2> QED BY <1>8
<1>10. \A s \in S : \E i \in 1..n : list[i] = s
  <2> SUFFICES ASSUME NEW s \in S PROVE list[place[s]] = s /\ place[s] \in 1..n
    OBVIOUS
  <2>1. place[s] \in 1..n
    BY <1>7
  <2>2. list[place[s]] \in S /\ place[list[place[s]]] = place[s]
    <3> HIDE DEF place, n
    <3> QED BY <1>8, <2>1
  <2>3. list[place[s]] = s
    <3> HIDE DEF place, n
    <3> QED BY <1>7, <2>2
  <2> QED BY <2>1, <2>3
<1>11. \A i, j \in 1..n : i < j => list[i] \in below[list[j]]
  <2> SUFFICES ASSUME NEW i \in 1..n, NEW j \in 1..n, i < j
               PROVE  list[i] \in below[list[j]]
    OBVIOUS
  <2> DEFINE u == list[i]
             v == list[j]
  <2>0. i \in Int /\ j \in Int
    BY <1>0
  <2> HIDE DEF place, n
  <2>1. u \in S /\ v \in S /\ place[u] = i /\ place[v] = j
    BY <1>8
  <2> HIDE DEF u, v
  <2>2. v \notin below[u]
    <3> SUFFICES ASSUME v \in below[u] PROVE FALSE
      OBVIOUS
    <3>1. j < i
      BY <1>2, <2>1
    <3> QED BY <3>1, <2>0
  <2>3. u # v
    BY <2>0, <2>1
  <2>4. u \in below[v]
    BY <2>1, <2>2, <2>3
  <2> QED BY <2>4 DEF u, v
<1> QED BY <1>0, <1>9, <1>10, <1>11

\* InOrder lists each member of a finite set of integers once, in increasing
\* order.
LEMMA InOrderLists ==
  ASSUME NEW S, IsFiniteSet(S), S \subseteq Int
  PROVE  /\ Cardinality(S) \in Nat
         /\ InOrder(S) \in [1..Cardinality(S) -> S]
         /\ \A s \in S : \E i \in 1..Cardinality(S) : InOrder(S)[i] = s
         /\ \A i, j \in 1..Cardinality(S) : i < j => InOrder(S)[i] < InOrder(S)[j]
<1> DEFINE below == [s \in S |-> {t \in S : t < s}]
           list == InOrder(S)
<1>1. below \in [S -> SUBSET S] /\ \A s, t \in S : t \in below[s] <=> t < s
  OBVIOUS
<1>2. /\ \A s \in S : s \notin below[s]
      /\ \A s, t \in S : s # t => s \in below[t] \/ t \in below[s]
  BY <1>1
<1>3. \A s, t \in S : s \in below[t] => below[s] \subseteq below[t]
  <2> SUFFICES ASSUME NEW s \in S, NEW t \in S, s \in below[t], NEW u \in below[s]
               PROVE  u \in below[t]
    OBVIOUS
  <2>1. u \in S /\ u < s /\ s < t /\ u \in Int /\ s \in Int /\ t \in Int
    BY <1>1
  <2>2. u < t
    BY <2>1
  <2> QED BY <1>1, <2>1, <2>2
<1>4. list = [i \in 1..Cardinality(S) |-> list[i]]
  BY DEF InOrder
<1>5. \A i \in 1..Cardinality(S) : \A s \in S : Cardinality(below[s]) = i - 1 =>
         list[i] \in S /\ Cardinality(below[list[i]]) = i - 1
  <2> SUFFICES ASSUME NEW i \in 1..Cardinality(S), NEW s \in S, Cardinality(below[s]) = i - 1
               PROVE  list[i] \in S /\ Cardinality(below[list[i]]) = i - 1
    OBVIOUS
  <2>1. list[i] = CHOOSE r \in S : Cardinality({t \in S : t < r}) = i - 1
    BY DEF InOrder
  <2>2. Cardinality({t \in S : t < s}) = i - 1
    OBVIOUS
  <2>3. list[i] \in S /\ Cardinality({t \in S : t < list[i]}) = i - 1
    <3> HIDE DEF list
    <3> QED BY <2>1, <2>2
  <2> QED BY <2>3
<1> HIDE DEF below, list
<1>6. /\ Cardinality(S) \in Nat
      /\ list \in [1..Cardinality(S) -> S]
      /\ \A s \in S : \E i \in 1..Cardinality(S) : list[i] = s
      /\ \A i, j \in 1..Cardinality(S) : i < j => list[i] \in below[list[j]]
  BY <1>1, <1>2, <1>3, <1>4, <1>5, CountingLists
<1>7. \A i, j \in 1..Cardinality(S) : i < j => list[i] < list[j]
  BY <1>1, <1>6
<1> QED BY <1>6, <1>7 DEF list

-----------------------------------------------------------------------------
(* Counting, and taking one step after the other                           *)

\* A set of numbers has a least one, and Min is that.
LEMMA LeastIsMin ==
  ASSUME NEW S, IsFiniteSet(S), S \subseteq Int, S # {}
  PROVE  Min(S) \in S /\ \A y \in S : Min(S) <= y
<1> DEFINE n == Cardinality(S)
           list == InOrder(S)
<1>1. /\ n \in Nat
      /\ list \in [1..n -> S]
      /\ \A s \in S : \E i \in 1..n : list[i] = s
      /\ \A i, j \in 1..n : i < j => list[i] < list[j]
  BY InOrderLists
<1> HIDE DEF n, list
<1>2. 1 \in 1..n
  <2>1. PICK s \in S : TRUE
    OBVIOUS
  <2>2. PICK i \in 1..n : list[i] = s
    BY <1>1
  <2> QED BY <1>1, <2>2
<1>3. list[1] \in S
  BY <1>1, <1>2
<1>4. \A y \in S : list[1] <= y
  <2> SUFFICES ASSUME NEW y \in S PROVE list[1] <= y
    OBVIOUS
  <2>1. PICK i \in 1..n : list[i] = y
    BY <1>1
  <2>2. list[1] \in Int
    BY <1>3
  <2>3. i \in Int /\ 1 <= i
    BY <1>1
  <2>4. i = 1 \/ 1 < i
    BY <2>3
  <2>5. i = 1 \/ list[1] < list[i]
    BY <1>1, <1>2, <2>4
  <2> QED BY <2>1, <2>2, <2>5
<1>5. \E x \in S : \A y \in S : x <= y
  BY <1>3, <1>4
<1> QED BY <1>5 DEF Min

LEMMA LeastExists ==
  ASSUME NEW M \in Nat, NEW S \in SUBSET (0..M), S # {}
  PROVE  \E x \in S : \A y \in S : x <= y
<1>1. IsFiniteSet(0..M)
  BY FS_Interval
<1>2. IsFiniteSet(S)
  BY <1>1, FS_Subset
<1>3. S \subseteq Int
  OBVIOUS
<1> QED BY <1>2, <1>3, LeastIsMin

\* A set of numbers up to M that has 0 and, below M, the successor of each of
\* its members has them all.
LEMMA CountUp ==
  ASSUME NEW M \in Nat, NEW P \in SUBSET (0..M), 0 \in P,
         \A k \in 0..M : k \in P /\ k < M => k + 1 \in P
  PROVE  P = 0..M
<1> SUFFICES ASSUME P # 0..M PROVE FALSE
  OBVIOUS
<1> DEFINE S == (0..M) \ P
<1>1. S \in SUBSET (0..M) /\ S # {}
  OBVIOUS
<1>2. PICK x \in S : \A y \in S : x <= y
  <2> HIDE DEF S
  <2> QED BY <1>1, LeastExists
<1>3. x \in 0..M /\ x \notin P /\ x # 0
  OBVIOUS
<1>4. x - 1 \in 0..M /\ x - 1 < M /\ (x - 1) + 1 = x /\ ~(x <= x - 1)
  BY <1>3
<1>5. x - 1 \notin S
  BY <1>2, <1>4
<1> QED BY <1>3, <1>4, <1>5

\* f lists what the steps make of x0, one after the other.
Steps(f, m, X, x0, step) ==
  f \in [0..m -> X] /\ f[0] = x0 /\ \A i \in 1..m : f[i] = step[i][f[i - 1]]

\* M steps can be taken.
LEMMA StepsExist ==
  ASSUME NEW M \in Nat, NEW X, NEW x0 \in X, NEW step \in [1..M -> [X -> X]]
  PROVE  \E f : Steps(f, M, X, x0, step)
<1> SUFFICES \E f \in [0..M -> X] : f[0] = x0 /\ \A i \in 1..M : f[i] = step[i][f[i - 1]]
  BY DEF Steps
<1> DEFINE Upto(k, f) == f[0] = x0 /\ \A i \in 1..k : f[i] = step[i][f[i - 1]]
           P == {k \in 0..M : \E f \in [0..k -> X] : Upto(k, f)}
<1>1. 0 \in P
  <2> DEFINE f == [i \in 0..0 |-> x0]
  <2>1. f \in [0..0 -> X] /\ f[0] = x0 /\ \A i \in 1..0 : FALSE
    OBVIOUS
  <2>2. 0 \in 0..M
    OBVIOUS
  <2> HIDE DEF f
  <2>3. Upto(0, f)
    BY <2>1
  <2> QED BY <2>1, <2>2, <2>3
<1>2. \A k \in 0..M : k \in P /\ k < M => k + 1 \in P
  <2> SUFFICES ASSUME NEW k \in 0..M, k \in P, k < M PROVE k + 1 \in P
    OBVIOUS
  <2>1. PICK f \in [0..k -> X] : Upto(k, f)
    OBVIOUS
  <2> DEFINE g == [i \in 0..(k + 1) |-> IF i = k + 1 THEN step[k + 1][f[k]] ELSE f[i]]
  <2>2. f[k] \in X /\ step[k + 1][f[k]] \in X
    OBVIOUS
  <2>3. g \in [0..(k + 1) -> X]
    BY <2>2
  <2>4. g[0] = x0 /\ g[k + 1] = step[k + 1][f[k]] /\ g[k] = f[k] /\ \A i \in 0..k : g[i] = f[i]
    BY <2>1
  <2>5. \A i \in 1..(k + 1) : g[i] = step[i][g[i - 1]]
    <3> SUFFICES ASSUME NEW i \in 1..(k + 1) PROVE g[i] = step[i][g[i - 1]]
      OBVIOUS
    <3>1. CASE i = k + 1
      BY <3>1, <2>4
    <3>2. CASE i # k + 1
      <4>1. i \in 1..k /\ i \in 0..k /\ i - 1 \in 0..k
        BY <3>2
      <4> QED BY <4>1, <2>1, <2>4
    <3> QED BY <3>1, <3>2
  <2>6. Upto(k + 1, g)
    BY <2>4, <2>5
  <2>7. k + 1 \in 0..M
    OBVIOUS
  <2> QED BY <2>3, <2>6, <2>7
<1>3. P = 0..M
  <2> HIDE DEF Upto
  <2> QED BY <1>1, <1>2, CountUp
<1>4. M \in P
  BY <1>3
<1> QED BY <1>4

\* f lists what repeating step makes of x0, m times.
Iterates(f, m, X, x0, step) ==
  f \in [0..m -> X] /\ f[0] = x0 /\ \A i \in 1..m : f[i] = step[f[i - 1]]

\* A step can be repeated M times.
LEMMA IterationExists ==
  ASSUME NEW M \in Nat, NEW X, NEW x0 \in X, NEW step \in [X -> X]
  PROVE  \E f : Iterates(f, M, X, x0, step)
<1> DEFINE steps == [i \in 1..M |-> step]
<1>1. steps \in [1..M -> [X -> X]]
  OBVIOUS
<1>2. PICK f : Steps(f, M, X, x0, steps)
  <2> HIDE DEF steps
  <2> QED BY <1>1, StepsExist
<1>3. Iterates(f, M, X, x0, step)
  BY <1>2 DEF Steps, Iterates
<1> QED BY <1>3

\* n + 1 different numbers are not found among 1..n.
LEMMA InjectionBound ==
  ASSUME NEW n \in Nat, NEW k \in Nat, NEW f \in [0..k -> 1..n],
         \A i, j \in 0..k : f[i] = f[j] => i = j
  PROVE  k < n
<1>1. IsFiniteSet(0..k) /\ IsFiniteSet(1..n)
  BY FS_Interval
<1>2. Cardinality(0..k) = k + 1 /\ Cardinality(1..n) = n
  BY FS_Interval
<1>3. f \in Injection(0..k, 1..n)
  BY DEF Injection, IsInjective
<1>4. Cardinality(0..k) <= Cardinality(1..n)
  BY <1>1, <1>3, FS_Injection DEF ExistsInjection
<1> QED BY <1>2, <1>4

-----------------------------------------------------------------------------
(* Ranked lists                                                            *)

\* Rows S with one score each
RowsOf(S) == /\ \A row \in S : row.row_id \in Int /\ row.score \in Int
             /\ \A s, t \in S : s.row_id = t.row_id => s = t

\* RankOrder lists each row of such a set once, in rank order.
LEMMA RankOrderLists ==
  ASSUME NEW S, IsFiniteSet(S), RowsOf(S)
  PROVE  /\ Cardinality(S) \in Nat
         /\ RankOrder(S) \in [1..Cardinality(S) -> S]
         /\ \A s \in S : \E i \in 1..Cardinality(S) : RankOrder(S)[i] = s
         /\ \A i, j \in 1..Cardinality(S) :
              i < j => RanksBefore(RankOrder(S)[i], RankOrder(S)[j])
<1> DEFINE below == [s \in S |-> {t \in S : RanksBefore(t, s)}]
           list == RankOrder(S)
<1>1. below \in [S -> SUBSET S] /\ \A s, t \in S : t \in below[s] <=> RanksBefore(t, s)
  OBVIOUS
<1>2. /\ \A s \in S : s \notin below[s]
      /\ \A s, t \in S : s # t => s \in below[t] \/ t \in below[s]
  BY <1>1 DEF RowsOf, RanksBefore
<1>3. \A s, t \in S : s \in below[t] => below[s] \subseteq below[t]
  <2> SUFFICES ASSUME NEW s \in S, NEW t \in S, s \in below[t], NEW u \in below[s]
               PROVE  u \in below[t]
    OBVIOUS
  <2>1. u \in S /\ RanksBefore(u, s) /\ RanksBefore(s, t)
    BY <1>1
  <2>2. RanksBefore(u, t)
    BY <2>1 DEF RowsOf, RanksBefore
  <2> QED BY <1>1, <2>1, <2>2
<1>4. list = [i \in 1..Cardinality(S) |-> list[i]]
  <2> DEFINE row(i) == CHOOSE r \in S : Cardinality({t \in S : RanksBefore(t, r)}) = i - 1
  <2>1. list = [i \in 1..Cardinality(S) |-> row(i)]
    BY DEF RankOrder
  <2> HIDE DEF list, row
  <2> QED BY <2>1
<1>5. \A i \in 1..Cardinality(S) : \A s \in S : Cardinality(below[s]) = i - 1 =>
         list[i] \in S /\ Cardinality(below[list[i]]) = i - 1
  <2> SUFFICES ASSUME NEW i \in 1..Cardinality(S), NEW s \in S, Cardinality(below[s]) = i - 1
               PROVE  list[i] \in S /\ Cardinality(below[list[i]]) = i - 1
    OBVIOUS
  <2>1. list[i] = CHOOSE row \in S : Cardinality({t \in S : RanksBefore(t, row)}) = i - 1
    BY DEF RankOrder
  <2>2. Cardinality({t \in S : RanksBefore(t, s)}) = i - 1
    OBVIOUS
  <2>3. list[i] \in S /\ Cardinality({t \in S : RanksBefore(t, list[i])}) = i - 1
    <3> HIDE DEF list
    <3> QED BY <2>1, <2>2
  <2> QED BY <2>3
<1> HIDE DEF below, list
<1>6. /\ Cardinality(S) \in Nat
      /\ list \in [1..Cardinality(S) -> S]
      /\ \A s \in S : \E i \in 1..Cardinality(S) : list[i] = s
      /\ \A i, j \in 1..Cardinality(S) : i < j => list[i] \in below[list[j]]
  BY <1>1, <1>2, <1>3, <1>4, <1>5, CountingLists
<1>7. \A i, j \in 1..Cardinality(S) : i < j => RanksBefore(list[i], list[j])
  BY <1>1, <1>6
<1> QED BY <1>6, <1>7 DEF list

\* The rows of a list
RowsIn(list) == {list[i] : i \in DOMAIN list}

\* A list of finite scores that names each row once is only put in order.
LEMMA NormalizeRanks ==
  ASSUME NonFinite \notin Int, NEW n \in Nat, NEW ids, ids \subseteq Int,
         NEW list \in [1..n -> [row_id : ids, score : Int]],
         \A i, j \in 1..n : list[i].row_id = list[j].row_id => i = j
  PROVE  LET ranked == NormalizeRankedList(list) IN
         /\ ranked \in [1..n -> [row_id : ids, score : Int]]
         /\ \A i \in 1..n : \E j \in 1..n : ranked[i] = list[j]
         /\ \A i \in 1..n : \E j \in 1..n : ranked[j] = list[i]
         /\ \A i, j \in 1..n : i < j => RanksBefore(ranked[i], ranked[j])
<1> DEFINE S == RowsIn(list)
<1>1. /\ S \subseteq [row_id : ids, score : Int]
      /\ \A i \in 1..n : list[i] \in S
      /\ \A s \in S : \E i \in 1..n : list[i] = s
  BY DEF RowsIn
<1>2. AllFinite(list)
  BY DEF AllFinite
<1>3. RowsOf(S)
  <2>1. \A s \in S : s.row_id \in Int /\ s.score \in Int
    BY <1>1
  <2>2. \A s, t \in S : s.row_id = t.row_id => s = t
    <3> SUFFICES ASSUME NEW s \in S, NEW t \in S, s.row_id = t.row_id PROVE s = t
      OBVIOUS
    <3>1. PICK i \in 1..n : list[i] = s
      BY <1>1
    <3>2. PICK j \in 1..n : list[j] = t
      BY <1>1
    <3> QED BY <3>1, <3>2
  <2> QED BY <2>1, <2>2 DEF RowsOf
<1>4. IsFiniteSet(S) /\ Cardinality(S) = n
  <2>1. \A i, j \in 1..n : list[i] = list[j] => i = j
    OBVIOUS
  <2>2. list \in [1..n -> S]
    BY <1>1
  <2> HIDE DEF S
  <2>3. list \in Bijection(1..n, S)
    BY <1>1, <2>1, <2>2 DEF Bijection, Injection, IsInjective, Surjection
  <2>4. ExistsBijection(1..n, S)
    BY <2>3 DEF ExistsBijection
  <2> QED BY <2>4, FS_CountingElements, FS_Interval, FS_Bijection
<1>5. {s \in S : ~\E t \in S : t.row_id = s.row_id /\ RanksBefore(t, s)} = S
  <2> SUFFICES ASSUME NEW s \in S, NEW t \in S, t.row_id = s.row_id, RanksBefore(t, s)
               PROVE  FALSE
    OBVIOUS
  <2> QED BY <1>3 DEF RowsOf, RanksBefore
<1>6. NormalizeRankedList(list) = RankOrder(S)
  <2>1. NormalizeRankedList(list)
          = RankOrder({s \in S : ~\E t \in S : t.row_id = s.row_id /\ RanksBefore(t, s)})
    BY <1>2 DEF NormalizeRankedList, RowsIn
  <2> QED BY <1>5, <2>1
<1>7. /\ RankOrder(S) \in [1..n -> S]
      /\ \A s \in S : \E i \in 1..n : RankOrder(S)[i] = s
      /\ \A i, j \in 1..n : i < j => RanksBefore(RankOrder(S)[i], RankOrder(S)[j])
  BY <1>3, <1>4, RankOrderLists
<1> HIDE DEF S
<1> DEFINE ranked == RankOrder(S)
<1> HIDE DEF ranked
<1>8. /\ ranked \in [1..n -> [row_id : ids, score : Int]]
      /\ \A i \in 1..n : \E j \in 1..n : ranked[i] = list[j]
      /\ \A i \in 1..n : \E j \in 1..n : ranked[j] = list[i]
      /\ \A i, j \in 1..n : i < j => RanksBefore(ranked[i], ranked[j])
  BY <1>1, <1>7 DEF ranked
<1> QED BY <1>6, <1>8 DEF ranked

-----------------------------------------------------------------------------
(* Reciprocal ranks                                                         *)

DenominatorBody(c, n, u) == [r \in 0..n |-> IF r = 0 THEN 1 ELSE u[r - 1] * (c + r)]

LEMMA ProductIsPositive ==
  ASSUME NEW a \in Nat, NEW b \in Nat, a > 0, b > 0
  PROVE  a * b \in Nat /\ a * b > 0
OBVIOUS

\* The common denominator is a multiple of that of each rank.
LEMMA DenominatorIs ==
  ASSUME NEW c \in Nat, c > 0, NEW n \in Nat
  PROVE  /\ Denominator(c, n) \in Nat /\ Denominator(c, n) > 0
         /\ \A r \in 1..n : \E k \in Nat : Denominator(c, n) = k * (c + r)
<1> DEFINE X == Nat \ {0}
           step == [r \in 1..n |-> [x \in X |-> x * (c + r)]]
<1>1. step \in [1..n -> [X -> X]]
  <2> SUFFICES ASSUME NEW r \in 1..n, NEW x \in X PROVE x * (c + r) \in X
    OBVIOUS
  <2>1. x \in Nat /\ x > 0 /\ c + r \in Nat /\ c + r > 0
    OBVIOUS
  <2> DEFINE y == c + r
  <2> HIDE DEF y
  <2>2. x * y \in Nat /\ x * y > 0
    BY <2>1, ProductIsPositive DEF y
  <2> QED BY <2>2 DEF y
<1>2. 1 \in X
  OBVIOUS
<1> HIDE DEF X
<1>3. PICK f : Steps(f, n, X, 1, step)
  <2> HIDE DEF step
  <2> QED BY <1>1, <1>2, StepsExist
<1>4. /\ f \in [0..n -> X] /\ f[0] = 1
      /\ \A r \in 1..n : f[r] = f[r - 1] * (c + r)
  <2>1. f \in [0..n -> X] /\ f[0] = 1 /\ \A r \in 1..n : f[r] = step[r][f[r - 1]]
    <3> HIDE DEF step
    <3> QED BY <1>3 DEF Steps
  <2>2. ASSUME NEW r \in 1..n PROVE f[r] = f[r - 1] * (c + r)
    <3>1. r - 1 \in 0..n
      OBVIOUS
    <3>2. f[r - 1] \in X
      BY <2>1, <3>1
    <3> QED BY <2>1, <3>2
  <2> HIDE DEF step
  <2> QED BY <2>1, <2>2
<1> HIDE DEF step
<1> DEFINE u == CHOOSE u : u = DenominatorBody(c, n, u)
<1>5. Denominator(c, n) = u[n]
  BY DEF Denominator, DenominatorBody
<1>6. f = DenominatorBody(c, n, f)
  <2>1. f = [r \in 0..n |-> f[r]]
    BY <1>4
  <2>2. DenominatorBody(c, n, f) = [r \in 0..n |-> DenominatorBody(c, n, f)[r]]
    BY DEF DenominatorBody
  <2>3. \A r \in 0..n : f[r] = DenominatorBody(c, n, f)[r]
    <3> SUFFICES ASSUME NEW r \in 0..n PROVE f[r] = DenominatorBody(c, n, f)[r]
      OBVIOUS
    <3>1. DenominatorBody(c, n, f)[r] = IF r = 0 THEN 1 ELSE f[r - 1] * (c + r)
      BY DEF DenominatorBody
    <3>2. r = 0 \/ r \in 1..n
      OBVIOUS
    <3> QED BY <1>4, <3>1, <3>2
  <2> QED BY <2>1, <2>2, <2>3
<1>7. u = DenominatorBody(c, n, u)
  BY <1>6
<1> HIDE DEF u
<1>8. u = [r \in 0..n |-> IF r = 0 THEN 1 ELSE u[r - 1] * (c + r)]
  BY <1>7 DEF DenominatorBody
<1> DEFINE P == {r \in 0..n : u[r] = f[r]}
<1>9. 0 \in P
  BY <1>4, <1>8
<1>10. \A k \in 0..n : k \in P /\ k < n => k + 1 \in P
  <2> SUFFICES ASSUME NEW k \in 0..n, u[k] = f[k], k < n PROVE u[k + 1] = f[k + 1]
    OBVIOUS
  <2>1. k + 1 \in 1..n /\ (k + 1) - 1 = k /\ k + 1 \in 0..n /\ k + 1 # 0
    OBVIOUS
  <2>2. f[k + 1] = f[k] * (c + (k + 1))
    BY <1>4, <2>1
  <2>3. u[k + 1] = u[k] * (c + (k + 1))
    BY <1>8, <2>1
  <2> QED BY <2>2, <2>3
<1>11. P = 0..n
  <2> HIDE DEF P
  <2>1. P \in SUBSET (0..n)
    BY DEF P
  <2> QED BY <1>9, <1>10, <2>1, CountUp
<1>12. u[n] = f[n]
  BY <1>11
<1> DEFINE Divides(r, x) == \E k \in Nat : x = k * (c + r)
           Q == {m \in 0..n : \A r \in 1..m : Divides(r, f[m])}
<1> HIDE DEF Divides
<1>13. 0 \in Q
  OBVIOUS
<1>14. \A m \in 0..n : m \in Q /\ m < n => m + 1 \in Q
  <2> SUFFICES ASSUME NEW m \in 0..n, \A r \in 1..m : Divides(r, f[m]), m < n,
                      NEW r \in 1..(m + 1)
               PROVE  Divides(r, f[m + 1])
    OBVIOUS
  <2>1. m + 1 \in 1..n /\ (m + 1) - 1 = m
    OBVIOUS
  <2>2. f[m + 1] = f[m] * (c + (m + 1)) /\ f[m] \in Nat
    BY <1>4, <2>1 DEF X
  <2>3. CASE r = m + 1
    BY <2>2, <2>3 DEF Divides
  <2>4. CASE r # m + 1
    <3>1. r \in 1..m
      BY <2>4
    <3>2. PICK k \in Nat : f[m] = k * (c + r)
      BY <3>1 DEF Divides
    <3> DEFINE d == c + (m + 1)
               e == c + r
               j == k * d
    <3>3. d \in Nat /\ e \in Nat /\ j \in Nat
      OBVIOUS
    <3>4. (k * e) * d = (k * d) * e
      <4> HIDE DEF d, e
      <4> QED BY <3>3
    <3>5. f[m + 1] = j * e
      BY <2>2, <3>2, <3>4
    <3> HIDE DEF j
    <3> QED BY <3>3, <3>5 DEF Divides
  <2> QED BY <2>3, <2>4
<1>15. Q = 0..n
  <2> HIDE DEF Q
  <2>1. Q \in SUBSET (0..n)
    BY DEF Q
  <2> QED BY <1>13, <1>14, <2>1, CountUp
<1>16. \A r \in 1..n : Divides(r, f[n])
  <2>1. n \in Q
    BY <1>15
  <2> QED BY <2>1
<1>17. f[n] \in Nat /\ f[n] > 0
  BY <1>4 DEF X
<1> QED BY <1>5, <1>12, <1>16, <1>17 DEF Divides

LEMMA DivisionIs ==
  ASSUME NEW k \in Nat, NEW b \in Nat, b > 0
  PROVE  (k * b) \div b = k
OBVIOUS

LEMMA SmallerFactor ==
  ASSUME NEW j \in Nat, NEW k \in Nat, NEW a \in Nat, NEW b \in Nat,
         0 < a, a < b, j * a = k * b, k > 0
  PROVE  j > k
<1> SUFFICES ASSUME j <= k PROVE FALSE
  OBVIOUS
<1> DEFINE d == k - j
           e == b - a
<1>1. d \in Nat /\ e \in Nat /\ k = j + d /\ b = a + e /\ e > 0
  OBVIOUS
<1> HIDE DEF d, e
<1>2. k * b = j * a + d * a + k * e
  <2>1. k * b = k * a + k * e
    BY <1>1
  <2>2. k * a = j * a + d * a
    BY <1>1
  <2> QED BY <2>1, <2>2
<1>3. d * a \in Nat
  BY <1>1
<1>4. k * e \in Nat /\ k * e > 0
  BY <1>1, ProductIsPositive
<1>5. j * a \in Nat
  OBVIOUS
<1> QED BY <1>2, <1>3, <1>4, <1>5

\* A rank contributes, and a better one contributes more.
LEMMA ContributionIs ==
  ASSUME NEW c \in Nat, c > 0, NEW n \in Nat
  PROVE  /\ Contribution(c, NoRank, n) = 0
         /\ \A r \in 1..n : Contribution(c, r, n) \in Nat /\ Contribution(c, r, n) > 0
         /\ \A r, s \in 1..n : r < s => Contribution(c, r, n) > Contribution(c, s, n)
<1> DEFINE D == Denominator(c, n)
<1>1. D \in Nat /\ D > 0 /\ \A r \in 1..n : \E k \in Nat : D = k * (c + r)
  BY DenominatorIs
<1> HIDE DEF D
<1>2. ASSUME NEW r \in 1..n
      PROVE  /\ Contribution(c, r, n) \in Nat /\ Contribution(c, r, n) > 0
             /\ D = Contribution(c, r, n) * (c + r)
  <2>1. PICK k \in Nat : D = k * (c + r)
    BY <1>1
  <2> DEFINE b == c + r
  <2>2. b \in Nat /\ b > 0
    OBVIOUS
  <2> HIDE DEF b
  <2>3. D \div b = k
    BY <2>1, <2>2, DivisionIs DEF b
  <2>4. Contribution(c, r, n) = k
    BY <2>3 DEF Contribution, NoRank, D, b
  <2>5. k # 0
    <3> SUFFICES ASSUME k = 0 PROVE FALSE
      OBVIOUS
    <3>1. D = 0 * b
      BY <2>1 DEF b
    <3> QED BY <1>1, <2>2, <3>1
  <2> QED BY <2>1, <2>4, <2>5
<1>3. ASSUME NEW r \in 1..n, NEW s \in 1..n, r < s
      PROVE  Contribution(c, r, n) > Contribution(c, s, n)
  <2> DEFINE j == Contribution(c, r, n)
             k == Contribution(c, s, n)
             a == c + r
             b == c + s
  <2>1. a \in Nat /\ b \in Nat /\ 0 < a /\ a < b
    BY <1>3
  <2>2. j \in Nat /\ k \in Nat /\ k > 0 /\ D = j * a /\ D = k * b
    BY <1>2
  <2> HIDE DEF j, k, a, b
  <2>3. j > k
    BY <2>1, <2>2, SmallerFactor
  <2> QED BY <2>3 DEF j, k
<1>4. Contribution(c, NoRank, n) = 0
  BY DEF Contribution
<1> QED BY <1>2, <1>3, <1>4

\* A rank at least as good as another, when there is one
AtLeastRank(a, b) == a = b \/ (a # NoRank /\ (b = NoRank \/ a <= b))

LEMMA BetterRanks ==
  ASSUME NEW c \in Nat, c > 0, NEW n \in Nat, NEW a \in 0..n, NEW b \in 0..n,
         AtLeastRank(a, b)
  PROVE  /\ Contribution(c, a, n) \in Nat /\ Contribution(c, b, n) \in Nat
         /\ Contribution(c, a, n) >= Contribution(c, b, n)
         /\ a # b => Contribution(c, a, n) > Contribution(c, b, n)
<1>1. /\ Contribution(c, NoRank, n) = 0
      /\ \A r \in 1..n : Contribution(c, r, n) \in Nat /\ Contribution(c, r, n) > 0
      /\ \A r, s \in 1..n : r < s => Contribution(c, r, n) > Contribution(c, s, n)
  BY ContributionIs
<1>2. (a = NoRank \/ a \in 1..n) /\ (b = NoRank \/ b \in 1..n)
  BY DEF NoRank
<1>3. CASE a = b
  BY <1>1, <1>2, <1>3
<1>4. CASE a # b
  <2>1. a \in 1..n
    BY <1>2, <1>4 DEF AtLeastRank
  <2>2. CASE b = NoRank
    BY <1>1, <2>1, <2>2
  <2>3. CASE b # NoRank
    <3>1. b \in 1..n /\ a < b
      BY <1>2, <1>4, <2>1, <2>3 DEF AtLeastRank
    <3> QED BY <1>1, <2>1, <3>1
  <2> QED BY <2>2, <2>3
<1> QED BY <1>3, <1>4

-----------------------------------------------------------------------------
(* Windows                                                                  *)

\* The places of a list of n items inside a window
Cut(n, w) == IF w = Unlimited \/ w >= n THEN n ELSE w

LEMMA TakeIs ==
  ASSUME NEW S, NEW list \in Seq(S), NEW w \in Windows
  PROVE  /\ Len(list) \in Nat /\ DOMAIN list = 1..Len(list)
         /\ Cut(Len(list), w) \in 0..Len(list)
         /\ Take(list, w) = [i \in 1..Cut(Len(list), w) |-> list[i]]
         /\ Take(list, w) \in Seq(S)
         /\ DOMAIN Take(list, w) = 1..Cut(Len(list), w)
<1> DEFINE n == Len(list)
           m == Cut(n, w)
<1>1. n \in Nat /\ DOMAIN list = 1..n /\ list = [i \in 1..n |-> list[i]]
  OBVIOUS
<1>2. w = Unlimited \/ w \in Nat
  BY DEF Windows
<1> HIDE DEF n
<1>3. m \in 0..n
  BY <1>1, <1>2 DEF Cut
<1>4. Take(list, w) = [i \in 1..m |-> list[i]]
  <2>1. CASE w = Unlimited \/ w >= n
    <3>1. m = n /\ Take(list, w) = list
      BY <2>1 DEF Cut, Take, n
    <3> QED BY <1>1, <3>1
  <2>2. CASE ~(w = Unlimited \/ w >= n)
    <3>1. m = w /\ Take(list, w) = SubSeq(list, 1, w) /\ w \in Nat
      BY <1>2, <2>2 DEF Cut, Take, n
    <3>2. SubSeq(list, 1, w) = [i \in 1..(w - 1 + 1) |-> list[i + 1 - 1]]
      BY <3>1
    <3>3. w - 1 + 1 = w /\ \A i \in 1..w : i + 1 - 1 = i
      BY <3>1
    <3> HIDE DEF m
    <3> QED BY <3>1, <3>2, <3>3
  <2> QED BY <2>1, <2>2
<1> HIDE DEF m
<1>5. \A i \in 1..m : list[i] \in S
  <2>1. 1..m \subseteq DOMAIN list
    BY <1>1, <1>3
  <2>2. \A i \in DOMAIN list : list[i] \in S
    OBVIOUS
  <2> QED BY <2>1, <2>2
<1>6. Take(list, w) \in [1..m -> S]
  BY <1>4, <1>5
<1>7. Take(list, w) \in Seq(S) /\ DOMAIN Take(list, w) = 1..m
  BY <1>3, <1>6, ListIsSeq
<1> QED BY <1>1, <1>3, <1>4, <1>7 DEF n, m

\* The first rows of rank order: best lists the m best of S.
BestRows(S, m, best) ==
  /\ m \in 0..Cardinality(S) /\ best \in [1..m -> S]
  /\ \A i, j \in 1..m : i < j => RanksBefore(best[i], best[j])
  /\ \A r \in S : (\E i \in 1..m : best[i] = r) \/ \A i \in 1..m : RanksBefore(best[i], r)

LEMMA BestTaken ==
  ASSUME NEW S, IsFiniteSet(S), RowsOf(S), NEW w \in Windows
  PROVE  /\ Cardinality(S) \in Nat
         /\ BestRows(S, Cut(Cardinality(S), w), Take(RankOrder(S), w))
<1> DEFINE n == Cardinality(S)
           list == RankOrder(S)
           m == Cut(n, w)
           best == Take(list, w)
<1>1. /\ n \in Nat /\ list \in [1..n -> S]
      /\ \A s \in S : \E i \in 1..n : list[i] = s
      /\ \A i, j \in 1..n : i < j => RanksBefore(list[i], list[j])
  BY RankOrderLists
<1> HIDE DEF n, list
<1>2. list \in Seq(S) /\ Len(list) = n
  BY <1>1, ListIsSeq, LenOfFunction
<1>3. m \in 0..n /\ best = [i \in 1..m |-> list[i]]
  BY <1>2, TakeIs
<1> HIDE DEF m, best
<1>4. 1..m \subseteq 1..n
  BY <1>1, <1>3
<1>5. \A i \in 1..m : best[i] = list[i] /\ list[i] \in S
  BY <1>1, <1>3, <1>4
<1>6. best \in [1..m -> S]
  BY <1>3, <1>5
<1>7. \A i, j \in 1..m : i < j => RanksBefore(best[i], best[j])
  BY <1>1, <1>4, <1>5
<1>8. ASSUME NEW r \in S
      PROVE  (\E i \in 1..m : best[i] = r) \/ \A i \in 1..m : RanksBefore(best[i], r)
  <2>1. PICK p \in 1..n : list[p] = r
    BY <1>1
  <2>2. CASE p \in 1..m
    BY <1>5, <2>1, <2>2
  <2>3. CASE p \notin 1..m
    <3>1. \A i \in 1..m : i < p /\ i \in 1..n
      BY <1>1, <1>3, <2>3
    <3>2. \A i \in 1..m : RanksBefore(list[i], list[p])
      BY <1>1, <3>1
    <3> QED BY <1>5, <2>1, <3>2
  <2> QED BY <2>2, <2>3
<1>9. BestRows(S, m, best)
  BY <1>3, <1>6, <1>7, <1>8 DEF BestRows, n
<1> QED BY <1>1, <1>9 DEF n, list, m, best

\* Such rows are what from_sorted_offsets_hits accepts.
LEMMA BestAreRanked ==
  ASSUME NonFinite \notin Int, NEW S, IsFiniteSet(S), RowsOf(S), NEW m, NEW best,
         BestRows(S, m, best)
  PROVE  IsRankedSlice(best) /\ Len(best) = m /\ DOMAIN best = 1..m /\ best \in Seq(S)
<1>1. Cardinality(S) \in Nat
  BY FS_CardinalityType
<1>2. /\ m \in Nat /\ best \in [1..m -> S]
      /\ \A i, j \in 1..m : i < j => RanksBefore(best[i], best[j])
  BY <1>1 DEF BestRows
<1>3. \A s \in S : s.row_id \in Int /\ s.score \in Int
  BY DEF RowsOf
<1>4. \A s, t \in S : s.row_id = t.row_id => s = t
  BY DEF RowsOf
<1>5. Len(best) = m /\ DOMAIN best = 1..m /\ best \in Seq(S)
  BY <1>2, LenOfFunction, ListIsSeq
<1>6. AllFinite(best)
  BY <1>2, <1>3, <1>5 DEF AllFinite
<1>7. \A s, t \in S : RanksBefore(s, t) => ~RanksBefore(t, s)
  BY <1>3 DEF RanksBefore
<1>8. ASSUME NEW i \in 1..(Len(best) - 1) PROVE ~RanksBefore(best[i + 1], best[i])
  <2>1. i \in 1..m /\ i + 1 \in 1..m /\ i < i + 1
    BY <1>2, <1>5
  <2>2. best[i] \in S /\ best[i + 1] \in S /\ RanksBefore(best[i], best[i + 1])
    BY <1>2, <2>1
  <2> QED BY <1>7, <2>2
<1>9. ASSUME NEW i \in 1..m, NEW j \in 1..m, best[i].row_id = best[j].row_id
      PROVE  i = j
  <2>1. best[i] \in S /\ best[j] \in S
    BY <1>2
  <2>2. best[i] = best[j]
    BY <1>4, <1>9, <2>1
  <2>3. ~RanksBefore(best[i], best[i])
    BY <1>7, <2>1
  <2> QED BY <1>2, <2>2, <2>3
<1> QED BY <1>5, <1>6, <1>8, <1>9 DEF IsRankedSlice

\* rank is the place of id in the part of a list inside the window.
RankFits(list, w, id, rank) ==
  \/ rank = NoRank /\ \A i \in 1..Cut(Len(list), w) : list[i].row_id # id
  \/ rank \in 1..Cut(Len(list), w) /\ list[rank].row_id = id

LEMMA RankInIs ==
  ASSUME NEW S, NEW list \in Seq(S), NEW w \in Windows, NEW id
  PROVE  RankFits(list, w, id, RankIn(list, w, id)) /\ RankIn(list, w, id) \in 0..Len(list)
<1> DEFINE m == Cut(Len(list), w)
           places == {i \in DOMAIN Take(list, w) : list[i].row_id = id}
<1>1. m \in 0..Len(list) /\ Len(list) \in Nat /\ DOMAIN Take(list, w) = 1..m
  BY TakeIs
<1>2. places \in SUBSET (1..m) /\ \A i \in 1..m : i \in places <=> list[i].row_id = id
  BY <1>1
<1>3. RankIn(list, w, id) = IF places = {} THEN NoRank ELSE Min(places)
  BY DEF RankIn
<1> HIDE DEF m, places
<1>4. CASE places = {}
  BY <1>1, <1>2, <1>3, <1>4 DEF RankFits, NoRank, m
<1>5. CASE places # {}
  <2>1. IsFiniteSet(1..m) /\ 1..m \subseteq Int
    BY <1>1, FS_Interval
  <2>2. IsFiniteSet(places) /\ places \subseteq Int
    BY <1>2, <2>1, FS_Subset
  <2>3. Min(places) \in places
    BY <1>5, <2>2, LeastIsMin
  <2>4. Min(places) \in 1..m /\ list[Min(places)].row_id = id
    BY <1>2, <2>3
  <2> QED BY <1>1, <1>3, <1>5, <2>4 DEF RankFits, m
<1> QED BY <1>4, <1>5

\* The IDs of a list inside a window
IdsOf(list, w) == {list[i].row_id : i \in 1..Cut(Len(list), w)}

LEMMA TakenIds ==
  ASSUME NEW S, NEW list \in Seq(S), NEW w \in Windows
  PROVE  /\ {Take(list, w)[i].row_id : i \in DOMAIN Take(list, w)} = IdsOf(list, w)
         /\ IsFiniteSet(IdsOf(list, w))
         /\ (\A i \in DOMAIN list : list[i].row_id \in Int) => IdsOf(list, w) \subseteq Int
<1> DEFINE m == Cut(Len(list), w)
           T == IdsOf(list, w)
           f == [i \in 1..m |-> list[i].row_id]
<1>1. /\ m \in 0..Len(list) /\ Len(list) \in Nat /\ DOMAIN list = 1..Len(list)
      /\ Take(list, w) = [i \in 1..m |-> list[i]] /\ DOMAIN Take(list, w) = 1..m
  BY TakeIs
<1>2. T = {list[i].row_id : i \in 1..m}
  BY DEF IdsOf
<1> HIDE DEF m
<1>3. {Take(list, w)[i].row_id : i \in DOMAIN Take(list, w)} = T
  BY <1>1, <1>2
<1> HIDE DEF T
<1>4. f \in Surjection(1..m, T)
  BY <1>2 DEF Surjection
<1>5. IsFiniteSet(1..m)
  BY <1>1, FS_Interval
<1> HIDE DEF f
<1>6. IsFiniteSet(T)
  BY <1>4, <1>5, FS_Surjection
<1>7. (\A i \in DOMAIN list : list[i].row_id \in Int) => T \subseteq Int
  <2>1. 1..m \subseteq DOMAIN list
    BY <1>1
  <2> QED BY <1>2, <2>1
<1> QED BY <1>3, <1>6, <1>7 DEF T

-----------------------------------------------------------------------------
(* Fused rows                                                               *)

FusedIds(dense, sparse, config) ==
  IdsOf(dense, config.dense_window) \cup IdsOf(sparse, config.sparse_window)

FusedRows(dense, sparse, config) ==
  {FusedRow(dense, sparse, config, id) : id \in FusedIds(dense, sparse, config)}

\* What the row of id says of the two sources
RowFits(dense, sparse, config, row) ==
  LET c == config.rank_constant
      n == Max({Len(dense), Len(sparse)})
  IN /\ row.row_id \in FusedIds(dense, sparse, config)
     /\ n \in Nat /\ row.dense_rank \in 0..n /\ row.sparse_rank \in 0..n
     /\ RankFits(dense, config.dense_window, row.row_id, row.dense_rank)
     /\ RankFits(sparse, config.sparse_window, row.row_id, row.sparse_rank)
     /\ row.score = Contribution(c, row.dense_rank, n) + Contribution(c, row.sparse_rank, n)

LEMMA FusedRowFits ==
  ASSUME NEW S, NEW dense \in Seq(S), NEW sparse \in Seq(S), NEW config \in RrfConfigs,
         NEW id \in FusedIds(dense, sparse, config)
  PROVE  /\ FusedRow(dense, sparse, config, id).row_id = id
         /\ RowFits(dense, sparse, config, FusedRow(dense, sparse, config, id))
<1> DEFINE row == FusedRow(dense, sparse, config, id)
           n == Max({Len(dense), Len(sparse)})
           dr == RankIn(dense, config.dense_window, id)
           sr == RankIn(sparse, config.sparse_window, id)
           c == config.rank_constant
<1>1. config.dense_window \in Windows /\ config.sparse_window \in Windows
  BY DEF RrfConfigs
<1>2. /\ row.row_id = id /\ row.dense_rank = dr /\ row.sparse_rank = sr
      /\ row.score = Contribution(c, dr, n) + Contribution(c, sr, n)
  BY DEF FusedRow
<1>3. Len(dense) \in Nat /\ Len(sparse) \in Nat
  OBVIOUS
<1>4. n \in Nat /\ Len(dense) <= n /\ Len(sparse) <= n
  <2> DEFINE a == Len(dense)
             b == Len(sparse)
  <2>1. a \in Nat /\ b \in Nat
    BY <1>3
  <2> HIDE DEF a, b
  <2>2. Max({a, b}) = IF a >= b THEN a ELSE b
    BY <2>1, MaxOfTwo
  <2> QED BY <2>1, <2>2 DEF a, b
<1> HIDE DEF row, n
<1>5. RankFits(dense, config.dense_window, id, dr) /\ dr \in 0..Len(dense)
  BY <1>1, RankInIs
<1>6. RankFits(sparse, config.sparse_window, id, sr) /\ sr \in 0..Len(sparse)
  BY <1>1, RankInIs
<1> HIDE DEF dr, sr
<1>7. dr \in 0..n /\ sr \in 0..n
  BY <1>3, <1>4, <1>5, <1>6
<1> QED BY <1>2, <1>4, <1>5, <1>6, <1>7 DEF RowFits, row, n

LEMMA FusedRowsAre ==
  ASSUME NEW S, NEW dense \in Seq(S), NEW sparse \in Seq(S), NEW config \in RrfConfigs,
         \A r \in S : r.row_id \in Int
  PROVE  /\ IsFiniteSet(FusedRows(dense, sparse, config))
         /\ RowsOf(FusedRows(dense, sparse, config))
         /\ \A row \in FusedRows(dense, sparse, config) : RowFits(dense, sparse, config, row)
         /\ \A id \in FusedIds(dense, sparse, config) :
              \E row \in FusedRows(dense, sparse, config) : row.row_id = id
<1> DEFINE ids == FusedIds(dense, sparse, config)
           rows == FusedRows(dense, sparse, config)
           Row(id) == FusedRow(dense, sparse, config, id)
<1>1. config.dense_window \in Windows /\ config.sparse_window \in Windows
  BY DEF RrfConfigs
<1>2. /\ \A i \in DOMAIN dense : dense[i].row_id \in Int
      /\ \A i \in DOMAIN sparse : sparse[i].row_id \in Int
  <2>1. /\ \A i \in DOMAIN dense : dense[i] \in S
        /\ \A i \in DOMAIN sparse : sparse[i] \in S
    OBVIOUS
  <2> QED BY <2>1
<1>3. IsFiniteSet(ids) /\ ids \subseteq Int
  <2>1. IsFiniteSet(IdsOf(dense, config.dense_window)) /\ IdsOf(dense, config.dense_window) \subseteq Int
    BY <1>1, <1>2, TakenIds
  <2>2. IsFiniteSet(IdsOf(sparse, config.sparse_window)) /\ IdsOf(sparse, config.sparse_window) \subseteq Int
    BY <1>1, <1>2, TakenIds
  <2> QED BY <2>1, <2>2, FS_Union DEF FusedIds
<1>4. rows = {Row(id) : id \in ids}
  BY DEF FusedRows
<1>5. \A id \in ids : Row(id).row_id = id /\ RowFits(dense, sparse, config, Row(id))
  BY FusedRowFits
<1> HIDE DEF ids, rows, Row
<1>6. IsFiniteSet(rows)
  <2> DEFINE f == [id \in ids |-> Row(id)]
  <2>1. f \in Surjection(ids, rows)
    BY <1>4 DEF Surjection
  <2> HIDE DEF f
  <2> QED BY <1>3, <2>1, FS_Surjection
<1>7. \A row \in rows : RowFits(dense, sparse, config, row)
  BY <1>4, <1>5
<1>8. \A row \in rows : row.row_id \in Int /\ row.score \in Int
  <2> SUFFICES ASSUME NEW row \in rows PROVE row.row_id \in Int /\ row.score \in Int
    OBVIOUS
  <2> DEFINE c == config.rank_constant
             n == Max({Len(dense), Len(sparse)})
             a == row.dense_rank
             b == row.sparse_rank
  <2>1. /\ row.row_id \in ids /\ n \in Nat /\ a \in 0..n /\ b \in 0..n
        /\ row.score = Contribution(c, a, n) + Contribution(c, b, n)
    BY <1>7 DEF RowFits, ids
  <2>2. c \in Nat /\ c > 0
    BY DEF RrfConfigs
  <2> HIDE DEF c, n, a, b
  <2>3. AtLeastRank(a, a) /\ AtLeastRank(b, b)
    BY DEF AtLeastRank
  <2>4. Contribution(c, a, n) \in Nat /\ Contribution(c, b, n) \in Nat
    BY <2>1, <2>2, <2>3, BetterRanks
  <2>5. row.row_id \in Int
    BY <1>3, <2>1
  <2>6. row.score \in Int
    BY <2>1, <2>4
  <2> QED BY <2>5, <2>6
<1>9. \A s, t \in rows : s.row_id = t.row_id => s = t
  BY <1>4, <1>5
<1>10. RowsOf(rows)
  BY <1>8, <1>9 DEF RowsOf
<1>11. \A id \in ids : \E row \in rows : row.row_id = id
  BY <1>4, <1>5
<1> QED BY <1>6, <1>7, <1>10, <1>11 DEF ids, rows

\* What fusion promises of the whole list
FusedRight(dense, sparse, config, all) ==
  /\ \A i, j \in DOMAIN all : all[i].row_id = all[j].row_id => i = j
  /\ {all[i].row_id : i \in DOMAIN all} = FusedIds(dense, sparse, config)
  /\ \A i \in DOMAIN all : RowFits(dense, sparse, config, all[i])
  /\ \A i, j \in DOMAIN all :
       /\ AtLeastRank(all[i].dense_rank, all[j].dense_rank)
       /\ AtLeastRank(all[i].sparse_rank, all[j].sparse_rank)
       /\ i # j
       => i < j \/ (all[i].dense_rank = all[j].dense_rank
                    /\ all[i].sparse_rank = all[j].sparse_rank)

LEMMA FusedRowsRight ==
  ASSUME NEW S, NEW dense \in Seq(S), NEW sparse \in Seq(S), NEW config \in RrfConfigs,
         \A r \in S : r.row_id \in Int
  PROVE  /\ RankOrder(FusedRows(dense, sparse, config)) \in Seq(FusedRows(dense, sparse, config))
         /\ FusedRight(dense, sparse, config, RankOrder(FusedRows(dense, sparse, config)))
<1> DEFINE rows == FusedRows(dense, sparse, config)
           all == RankOrder(rows)
           m == Cardinality(rows)
<1>1. /\ IsFiniteSet(rows) /\ RowsOf(rows)
      /\ \A row \in rows : RowFits(dense, sparse, config, row)
      /\ \A id \in FusedIds(dense, sparse, config) : \E row \in rows : row.row_id = id
  BY FusedRowsAre
<1> HIDE DEF rows
<1>2. /\ m \in Nat /\ all \in [1..m -> rows]
      /\ \A s \in rows : \E i \in 1..m : all[i] = s
      /\ \A i, j \in 1..m : i < j => RanksBefore(all[i], all[j])
  BY <1>1, RankOrderLists
<1> HIDE DEF all, m
<1>3. DOMAIN all = 1..m /\ \A i \in 1..m : all[i] \in rows
  BY <1>2
<1>4. all \in Seq(rows)
  BY <1>2, ListIsSeq
<1>5. \A r \in rows : r.row_id \in Int /\ r.score \in Int
  BY <1>1 DEF RowsOf
<1>6. ASSUME NEW i \in 1..m, NEW j \in 1..m, all[i].row_id = all[j].row_id
      PROVE  i = j
  <2>1. all[i] = all[j]
    BY <1>1, <1>3, <1>6 DEF RowsOf
  <2>2. ~RanksBefore(all[i], all[i])
    BY <1>3, <1>5 DEF RanksBefore
  <2> QED BY <1>2, <2>1, <2>2
<1>7. {all[i].row_id : i \in 1..m} = FusedIds(dense, sparse, config)
  <2>1. \A i \in 1..m : all[i].row_id \in FusedIds(dense, sparse, config)
    BY <1>1, <1>3 DEF RowFits
  <2>2. \A id \in FusedIds(dense, sparse, config) : \E i \in 1..m : all[i].row_id = id
    BY <1>1, <1>2
  <2> QED BY <2>1, <2>2
<1>8. \A i \in 1..m : RowFits(dense, sparse, config, all[i])
  BY <1>1, <1>3
<1>9. ASSUME NEW i \in 1..m, NEW j \in 1..m,
             AtLeastRank(all[i].dense_rank, all[j].dense_rank),
             AtLeastRank(all[i].sparse_rank, all[j].sparse_rank),
             i # j, ~(i < j)
      PROVE  all[i].dense_rank = all[j].dense_rank /\ all[i].sparse_rank = all[j].sparse_rank
  <2> DEFINE c == config.rank_constant
             n == Max({Len(dense), Len(sparse)})
             a == all[i].dense_rank
             b == all[i].sparse_rank
             x == all[j].dense_rank
             y == all[j].sparse_rank
  <2>1. /\ n \in Nat /\ a \in 0..n /\ b \in 0..n
        /\ all[i].score = Contribution(c, a, n) + Contribution(c, b, n)
    BY <1>8 DEF RowFits
  <2>2. /\ x \in 0..n /\ y \in 0..n
        /\ all[j].score = Contribution(c, x, n) + Contribution(c, y, n)
    BY <1>8 DEF RowFits
  <2>3. c \in Nat /\ c > 0
    BY DEF RrfConfigs
  <2>4. AtLeastRank(a, x) /\ AtLeastRank(b, y)
    BY <1>9
  <2>5. RanksBefore(all[j], all[i])
    BY <1>2, <1>9
  <2>6. all[i].score <= all[j].score /\ all[i].score \in Int /\ all[j].score \in Int
    BY <1>3, <1>5, <2>5 DEF RanksBefore
  <2> HIDE DEF c, n, a, b, x, y
  <2>7. /\ Contribution(c, a, n) \in Nat /\ Contribution(c, x, n) \in Nat
        /\ Contribution(c, a, n) >= Contribution(c, x, n)
        /\ a # x => Contribution(c, a, n) > Contribution(c, x, n)
    BY <2>1, <2>2, <2>3, <2>4, BetterRanks
  <2>8. /\ Contribution(c, b, n) \in Nat /\ Contribution(c, y, n) \in Nat
        /\ Contribution(c, b, n) >= Contribution(c, y, n)
        /\ b # y => Contribution(c, b, n) > Contribution(c, y, n)
    BY <2>1, <2>2, <2>3, <2>4, BetterRanks
  <2>9. a = x /\ b = y
    BY <2>1, <2>2, <2>6, <2>7, <2>8
  <2> QED BY <2>9 DEF a, b, x, y
<1>10. FusedRight(dense, sparse, config, all)
  BY <1>3, <1>6, <1>7, <1>8, <1>9 DEF FusedRight
<1> QED BY <1>4, <1>10 DEF all, rows
=============================================================================
