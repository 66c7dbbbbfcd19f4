------------------------- MODULE HybridBundleProofs -------------------------
(* Proofs about the whole bundle: what FeatureCacheProofs shows of trainers
   on their own holds beside writers, readers and publishers of the bundle,
   the trees of a model that was accepted score every feature vector, the sparse file that the builder
   wrote is one that open accepts, and the searches of an opened bundle are
   fused as they should be. *)
EXTENDS HybridBundle, FeatureCacheProofs, RankFusionProofs

-----------------------------------------------------------------------------
(* Every step of the system is a step of FeatureCache, or leaves its state.  *)

LEMMA CacheStepOrStutter == Next => [CacheNext]_cacheVars
<1> SUFFICES ASSUME Next PROVE [CacheNext]_cacheVars
  OBVIOUS
<1>1. ASSUME NEW corpus \in Corpora, WriteMmap(corpus) PROVE UNCHANGED cacheVars
  BY <1>1 DEF WriteMmap
<1>2. CASE Damage
  BY <1>2 DEF Damage
<1>3. CASE OpenSparseFile
  BY <1>3 DEF OpenSparseFile
<1>4. ASSUME NEW ids \in IdLists, PublishBundle(ids) PROVE CacheNext
  BY <1>4 DEF PublishBundle, CacheNext
<1>5. CASE OpenDense
  BY <1>5 DEF OpenDense
<1>6. CASE OpenSparseHalf
  BY <1>6 DEF OpenSparseHalf
<1>7. CASE CloseBundle
  BY <1>7 DEF CloseBundle
<1>8. ASSUME NEW record, LoadModel(record) PROVE UNCHANGED cacheVars
  BY <1>8 DEF LoadModel
<1>9. CASE TrainerStep
  BY <1>9 DEF CacheNext
<1>10. CASE WithdrawBundle
  BY <1>10 DEF WithdrawBundle, CacheNext
<1> QED BY <1>1, <1>2, <1>3, <1>4, <1>5, <1>6, <1>7, <1>8, <1>9, <1>10 DEF Next

\* The system implements FeatureCache, with the same variables: the searches,
\* the sparse writer and the publisher disturb the caches in no other way
\* than taking a bundle away and putting another in its place.
THEOREM BundleRunsCaches == Spec => CacheSpec
<1>1. Init => CacheInit
  BY DEF Init
<1>2. [Next]_vars => [CacheNext]_cacheVars
  BY CacheStepOrStutter DEF vars
<1> QED BY <1>1, <1>2, PTL DEF Spec, CacheSpec

\* Attaching never costs the bundle that is searched: unless a trainer was at
\* work across a publication, the verifications of both halves pass whenever
\* the bundle is there, beside searches, sparse writers and publishers.
THEOREM BundleEntriesVerify == Spec => []AttachedEntriesVerify
  BY BundleRunsCaches, CacheEntriesVerify, PTL

-----------------------------------------------------------------------------
(* The halves of an opened bundle: what each of them is.                     *)

HalvesInv ==
  halves # None => halves = [ids |-> halves.ids, sparse |-> halves.sparse]

LEMMA HalvesInit == Init => HalvesInv
  BY DEF Init, HalvesInv

LEMMA HalvesStep == HalvesInv /\ [Next]_vars => HalvesInv'
<1> SUFFICES ASSUME HalvesInv, [Next]_vars PROVE HalvesInv'
  OBVIOUS
<1>1. CASE UNCHANGED halves
  BY <1>1 DEF HalvesInv
<1>2. CASE OpenDense
  BY <1>2 DEF OpenDense, HalvesInv
<1>3. CASE OpenSparseHalf
  BY <1>3 DEF OpenSparseHalf, HalvesInv
<1>4. CASE CloseBundle
  BY <1>4 DEF CloseBundle, HalvesInv
<1>5. UNCHANGED halves \/ OpenDense \/ OpenSparseHalf \/ CloseBundle
  BY DEF Next, vars, hybridVars, WriteMmap, Damage, OpenSparseFile, WithdrawBundle,
         PublishBundle, LoadModel
<1> QED BY <1>1, <1>2, <1>3, <1>4, <1>5

-----------------------------------------------------------------------------
(* Trees.  validate_reachable_tree and score_tree call themselves, so what   *)
(* they compute is a recursive function: it exists because one level is made *)
(* of the one below (IterationExists), and then obeys its own equation.      *)

\* What compile_node accepts
WellFormed(nodes) ==
  /\ Len(nodes) \in Nat /\ DOMAIN nodes = 1..Len(nodes)
  /\ \A n \in DOMAIN nodes :
       \/ nodes[n].kind = "leaf"
       \/ nodes[n].kind = "split" /\ {nodes[n].left, nodes[n].right} \subseteq DOMAIN nodes

\* One level of the walk, given the levels below
WalkBody(nodes, maxDepth, w) ==
  [depth \in 1..(maxDepth + 1) |->
    [n \in DOMAIN nodes |-> [path \in SUBSET DOMAIN nodes |->
      IF depth > maxDepth \/ n \in path THEN TooDeep
      ELSE IF nodes[n].kind = "leaf" THEN {n}
      ELSE {n} \cup w[depth + 1][nodes[n].left][path \cup {n}]
               \cup w[depth + 1][nodes[n].right][path \cup {n}]]]]

\* A solution of the equation exists, so Walk takes one.
LEMMA WalkIs ==
  ASSUME NEW nodes, NEW maxDepth, NEW w, w = WalkBody(nodes, maxDepth, w)
  PROVE  \E u : u = WalkBody(nodes, maxDepth, u) /\ Walk(nodes, maxDepth) = u[1][1][{}]
<1> DEFINE u == CHOOSE u : u = WalkBody(nodes, maxDepth, u)
<1>1. u = WalkBody(nodes, maxDepth, u)
  OBVIOUS
<1>2. Walk(nodes, maxDepth) = u[1][1][{}]
  BY DEF Walk, WalkBody
<1> HIDE DEF u
<1> QED BY <1>1, <1>2

LEMMA WalkExists ==
  ASSUME NEW nodes, WellFormed(nodes), NEW maxDepth \in Nat
  PROVE  \E w : w = WalkBody(nodes, maxDepth, w)
<1> DEFINE N == DOMAIN nodes
           X == [N -> [SUBSET N -> SUBSET (N \cup {0})]]
           Failed == [n \in N |-> [path \in SUBSET N |-> TooDeep]]
           Level(below) ==
             [n \in N |-> [path \in SUBSET N |->
               IF n \in path THEN TooDeep
               ELSE IF nodes[n].kind = "leaf" THEN {n}
               ELSE {n} \cup below[nodes[n].left][path \cup {n}]
                        \cup below[nodes[n].right][path \cup {n}]]]
           step == [below \in X |-> Level(below)]
<1>1. Failed \in X
  BY DEF TooDeep
<1>2. \A below \in X : Level(below) \in X
  <2> SUFFICES ASSUME NEW below \in X, NEW n \in N, NEW path \in SUBSET N
               PROVE  Level(below)[n][path] \in SUBSET (N \cup {0})
    OBVIOUS
  <2>1. CASE n \in path \/ nodes[n].kind = "leaf"
    BY <2>1 DEF TooDeep
  <2>2. CASE ~(n \in path \/ nodes[n].kind = "leaf")
    <3>1. nodes[n].left \in N /\ nodes[n].right \in N /\ path \cup {n} \in SUBSET N
      BY <2>2 DEF WellFormed
    <3>2. below[nodes[n].left] \in [SUBSET N -> SUBSET (N \cup {0})]
          /\ below[nodes[n].right] \in [SUBSET N -> SUBSET (N \cup {0})]
      BY <3>1
    <3>3. below[nodes[n].left][path \cup {n}] \in SUBSET (N \cup {0})
          /\ below[nodes[n].right][path \cup {n}] \in SUBSET (N \cup {0})
      BY <3>1, <3>2
    <3> QED BY <2>2, <3>3
  <2> QED BY <2>1, <2>2
<1>3. step \in [X -> X]
  <2> HIDE DEF Level, X
  <2> QED BY <1>2
<1>4. PICK f : Iterates(f, maxDepth, X, Failed, step)
  <2> HIDE DEF X, step, Failed
  <2> QED BY <1>1, <1>3, IterationExists
<1>5. f \in [0..maxDepth -> X] /\ f[0] = Failed /\ \A i \in 1..maxDepth : f[i] = step[f[i - 1]]
  <2> HIDE DEF X, step, Failed
  <2> QED BY <1>4 DEF Iterates
<1> DEFINE w == [depth \in 1..(maxDepth + 1) |-> f[maxDepth + 1 - depth]]
<1>6. \A depth \in 1..maxDepth : w[depth] = Level(w[depth + 1])
  <2> SUFFICES ASSUME NEW depth \in 1..maxDepth PROVE w[depth] = Level(w[depth + 1])
    OBVIOUS
  <2> DEFINE i == maxDepth + 1 - depth
  <2>1. /\ i \in 1..maxDepth /\ i - 1 \in 0..maxDepth /\ i - 1 = maxDepth + 1 - (depth + 1)
        /\ depth \in 1..(maxDepth + 1) /\ depth + 1 \in 1..(maxDepth + 1)
    OBVIOUS
  <2> HIDE DEF X, Level, Failed
  <2>2. w[depth] = f[i] /\ w[depth + 1] = f[i - 1]
    BY <2>1
  <2>3. f[i - 1] \in X
    BY <1>5, <2>1
  <2> QED BY <1>5, <2>1, <2>2, <2>3
<1>7. w[maxDepth + 1] = Failed
  <2>1. maxDepth + 1 \in 1..(maxDepth + 1) /\ maxDepth + 1 - (maxDepth + 1) = 0
    OBVIOUS
  <2> HIDE DEF X, step, Failed
  <2> QED BY <1>5, <2>1
<1>8. \A depth \in 1..(maxDepth + 1) : w[depth] = WalkBody(nodes, maxDepth, w)[depth]
  <2> SUFFICES ASSUME NEW depth \in 1..(maxDepth + 1)
               PROVE  w[depth] = WalkBody(nodes, maxDepth, w)[depth]
    OBVIOUS
  <2> HIDE DEF w, X
  <2>1. CASE depth = maxDepth + 1
    <3>1. depth > maxDepth
      BY <2>1
    <3> QED BY <1>7, <2>1, <3>1 DEF WalkBody
  <2>2. CASE depth # maxDepth + 1
    <3>1. depth \in 1..maxDepth /\ ~(depth > maxDepth)
      BY <2>2
    <3>2. w[depth] = Level(w[depth + 1])
      BY <1>6, <3>1
    <3>3. WalkBody(nodes, maxDepth, w)[depth] = Level(w[depth + 1])
      BY <3>1 DEF WalkBody
    <3> QED BY <3>2, <3>3
  <2> QED BY <2>1, <2>2
<1>9. w = WalkBody(nodes, maxDepth, w)
  <2>1. w = [depth \in 1..(maxDepth + 1) |-> w[depth]]
    OBVIOUS
  <2>2. WalkBody(nodes, maxDepth, w)
          = [depth \in 1..(maxDepth + 1) |-> WalkBody(nodes, maxDepth, w)[depth]]
    BY DEF WalkBody
  <2> HIDE DEF w
  <2> QED BY <1>8, <2>1, <2>2
<1> HIDE DEF w
<1> QED BY <1>9

\* Scoring: what is reached from each node with so many steps left
ScoreBody(nodes, features, s) ==
  [left \in 0..(Len(nodes) + 1) |->
    [n \in DOMAIN nodes |->
      IF left = 0 THEN Err
      ELSE IF nodes[n].kind = "leaf" THEN nodes[n].value
      ELSE s[left - 1][IF features[nodes[n].feature] < nodes[n].threshold
                       THEN nodes[n].left ELSE nodes[n].right]]]

LEMMA ScoreIs ==
  ASSUME NEW nodes, NEW features, NEW s, s = ScoreBody(nodes, features, s)
  PROVE  \E u : /\ u = ScoreBody(nodes, features, u)
               /\ ScoreTree(nodes, features) = u[Len(nodes) + 1][1]
<1> DEFINE u == CHOOSE u : u = ScoreBody(nodes, features, u)
<1>1. u = ScoreBody(nodes, features, u)
  OBVIOUS
<1>2. ScoreTree(nodes, features) = u[Len(nodes) + 1][1]
  BY DEF ScoreTree, ScoreBody
<1> HIDE DEF u
<1> QED BY <1>1, <1>2

LEMMA ScoreExists ==
  ASSUME NEW nodes, WellFormed(nodes), NEW features
  PROVE  \E s : s = ScoreBody(nodes, features, s)
<1> DEFINE N == DOMAIN nodes
           V == {nodes[n].value : n \in N} \cup {Err}
           X == [N -> V]
           M == Len(nodes) + 1
           Failed == [n \in N |-> Err]
           Level(below) ==
             [n \in N |->
               IF nodes[n].kind = "leaf" THEN nodes[n].value
               ELSE below[IF features[nodes[n].feature] < nodes[n].threshold
                          THEN nodes[n].left ELSE nodes[n].right]]
           step == [below \in X |-> Level(below)]
<1>1. M \in Nat /\ Len(nodes) \in Nat
  BY DEF WellFormed
<1>2. Failed \in X
  OBVIOUS
<1>3. \A below \in X : Level(below) \in X
  <2> SUFFICES ASSUME NEW below \in X, NEW n \in N PROVE Level(below)[n] \in V
    OBVIOUS
  <2>1. CASE nodes[n].kind = "leaf"
    BY <2>1
  <2>2. CASE nodes[n].kind # "leaf"
    <3>1. (IF features[nodes[n].feature] < nodes[n].threshold
           THEN nodes[n].left ELSE nodes[n].right) \in N
      BY <2>2 DEF WellFormed
    <3> HIDE DEF V
    <3> QED BY <2>2, <3>1
  <2> QED BY <2>1, <2>2
<1>4. step \in [X -> X]
  <2> HIDE DEF Level, X
  <2> QED BY <1>3
<1>5. PICK f : Iterates(f, M, X, Failed, step)
  <2> HIDE DEF X, step, Failed, M
  <2> QED BY <1>1, <1>2, <1>4, IterationExists
<1>6. f \in [0..M -> X] /\ f[0] = Failed /\ \A i \in 1..M : f[i] = step[f[i - 1]]
  <2> HIDE DEF X, step, Failed, M
  <2> QED BY <1>5 DEF Iterates
<1>7. \A left \in 1..M : f[left] = Level(f[left - 1])
  <2> HIDE DEF Level, X, Failed, M
  <2>1. \A left \in 1..M : f[left - 1] \in X
    BY <1>1, <1>6
  <2> QED BY <1>6, <2>1
<1>8. \A left \in 0..M : f[left] = ScoreBody(nodes, features, f)[left]
  <2> SUFFICES ASSUME NEW left \in 0..M
               PROVE  f[left] = ScoreBody(nodes, features, f)[left]
    OBVIOUS
  <2>1. CASE left = 0
    BY <1>1, <1>6, <2>1 DEF ScoreBody
  <2>2. CASE left # 0
    <3>1. left \in 1..M
      BY <1>1, <2>2
    <3>2. f[left] = Level(f[left - 1])
      BY <1>7, <3>1
    <3>3. ScoreBody(nodes, features, f)[left] = Level(f[left - 1])
      BY <2>2 DEF ScoreBody
    <3> QED BY <3>2, <3>3
  <2> QED BY <2>1, <2>2
<1>9. f = ScoreBody(nodes, features, f)
  <2>1. f = [left \in 0..M |-> f[left]]
    <3> HIDE DEF X, M
    <3> QED BY <1>6
  <2>2. ScoreBody(nodes, features, f) = [left \in 0..M |-> ScoreBody(nodes, features, f)[left]]
    BY DEF ScoreBody
  <2> HIDE DEF M
  <2> QED BY <1>8, <2>1, <2>2
<1> QED BY <1>9

-----------------------------------------------------------------------------
(* The nodes features lead to                                              *)

\* score_tree goes from n to this node.
Chosen(nodes, features, n) ==
  IF features[nodes[n].feature] < nodes[n].threshold THEN nodes[n].left ELSE nodes[n].right

\* at[i] is the node reached after i splits; a leaf is never left.
Followed(nodes, features, M, at) ==
  /\ at \in [0..M -> DOMAIN nodes] /\ at[0] = 1
  /\ \A i \in 1..M : at[i] = IF nodes[at[i - 1]].kind = "leaf" THEN at[i - 1]
                             ELSE Chosen(nodes, features, at[i - 1])

LEMMA FollowedExists ==
  ASSUME NEW nodes, WellFormed(nodes), Len(nodes) >= 1, NEW features, NEW M \in Nat
  PROVE  \E at : Followed(nodes, features, M, at)
<1> DEFINE N == DOMAIN nodes
           step == [n \in N |-> IF nodes[n].kind = "leaf" THEN n ELSE Chosen(nodes, features, n)]
<1>1. step \in [N -> N]
  BY DEF WellFormed, Chosen
<1>2. 1 \in N
  BY DEF WellFormed
<1>3. PICK at : Iterates(at, M, N, 1, step)
  <2> HIDE DEF N, step
  <2> QED BY <1>1, <1>2, IterationExists
<1>4. at \in [0..M -> N] /\ at[0] = 1 /\ \A i \in 1..M : at[i] = step[at[i - 1]]
  <2> HIDE DEF N, step
  <2> QED BY <1>3 DEF Iterates
<1>5. \A i \in 1..M : at[i - 1] \in N
  <2>1. \A i \in 1..M : i - 1 \in 0..M
    OBVIOUS
  <2> HIDE DEF N
  <2> QED BY <1>4, <2>1
<1> QED BY <1>4, <1>5 DEF Followed

\* Where the walk has not failed, the followed nodes are visited one level
\* below the other: a tree of accepted depth leads to a leaf in time, and no
\* node is met twice on the way.
LEMMA WalkFollows ==
  ASSUME NEW nodes, WellFormed(nodes), NEW features, NEW M \in Nat, M >= 1,
         0 \notin Walk(nodes, M), NEW at, Followed(nodes, features, M, at)
  PROVE  \A i \in 0..M : (\A j \in 0..(i - 1) : nodes[at[j]].kind # "leaf") =>
           i < M /\ \A j \in 0..(i - 1) : at[j] # at[i]
<1> DEFINE Splits(i) == \A j \in 0..(i - 1) : nodes[at[j]].kind # "leaf"
           Past(i) == {at[j] : j \in 0..(i - 1)}
<1>1. PICK w : w = WalkBody(nodes, M, w) /\ Walk(nodes, M) = w[1][1][{}]
  BY WalkExists, WalkIs
<1> DEFINE Sound(i) == Splits(i) => 0 \notin w[i + 1][at[i]][Past(i)]
           P == {i \in 0..M : Sound(i)}
<1>2. \A i \in 0..M : at[i] \in DOMAIN nodes /\ Past(i) \in SUBSET DOMAIN nodes /\ i + 1 \in 1..(M + 1)
  <2> SUFFICES ASSUME NEW i \in 0..M
               PROVE  at[i] \in DOMAIN nodes /\ Past(i) \in SUBSET DOMAIN nodes /\ i + 1 \in 1..(M + 1)
    OBVIOUS
  <2>1. \A j \in 0..(i - 1) : j \in 0..M
    OBVIOUS
  <2> QED BY <2>1 DEF Followed
<1>3. \A i \in 0..M :
        w[i + 1][at[i]][Past(i)] =
          IF i + 1 > M \/ at[i] \in Past(i) THEN TooDeep
          ELSE IF nodes[at[i]].kind = "leaf" THEN {at[i]}
          ELSE {at[i]} \cup w[i + 2][nodes[at[i]].left][Past(i) \cup {at[i]}]
                       \cup w[i + 2][nodes[at[i]].right][Past(i) \cup {at[i]}]
  <2> SUFFICES ASSUME NEW i \in 0..M
               PROVE  w[i + 1][at[i]][Past(i)] =
                        IF i + 1 > M \/ at[i] \in Past(i) THEN TooDeep
                        ELSE IF nodes[at[i]].kind = "leaf" THEN {at[i]}
                        ELSE {at[i]} \cup w[i + 2][nodes[at[i]].left][Past(i) \cup {at[i]}]
                                     \cup w[i + 2][nodes[at[i]].right][Past(i) \cup {at[i]}]
    OBVIOUS
  <2>1. at[i] \in DOMAIN nodes /\ Past(i) \in SUBSET DOMAIN nodes /\ i + 1 \in 1..(M + 1)
    BY <1>2
  <2>2. (i + 1) + 1 = i + 2
    OBVIOUS
  <2> HIDE DEF Past
  <2>3. w[i + 1][at[i]][Past(i)] = WalkBody(nodes, M, w)[i + 1][at[i]][Past(i)]
    BY <1>1
  <2> QED BY <2>1, <2>2, <2>3 DEF WalkBody
<1>4. \A i \in 0..M : Splits(i) /\ Sound(i) => i < M /\ at[i] \notin Past(i)
  <2> SUFFICES ASSUME NEW i \in 0..M, Splits(i), Sound(i), ~(i < M /\ at[i] \notin Past(i))
               PROVE  FALSE
    OBVIOUS
  <2>1. 0 \notin w[i + 1][at[i]][Past(i)]
    OBVIOUS
  <2> HIDE DEF Sound, Splits, Past
  <2>2. i + 1 > M \/ at[i] \in Past(i)
    OBVIOUS
  <2>3. w[i + 1][at[i]][Past(i)] = TooDeep
    BY <1>3, <2>2
  <2> QED BY <2>1, <2>3 DEF TooDeep
<1>5. 0 \in P
  <2>1. Past(0) = {} /\ at[0] = 1 /\ 0 + 1 = 1 /\ 0 \in 0..M
    BY DEF Followed
  <2> HIDE DEF Past, Splits
  <2> QED BY <1>1, <2>1
<1>6. \A i \in 0..M : Sound(i) /\ i < M => Sound(i + 1)
  <2> SUFFICES ASSUME NEW i \in 0..M, Sound(i), i < M, Splits(i + 1)
               PROVE  0 \notin w[(i + 1) + 1][at[i + 1]][Past(i + 1)]
    OBVIOUS
  <2>1. Splits(i) /\ nodes[at[i]].kind # "leaf"
    <3>1. i \in 0..((i + 1) - 1) /\ \A j \in 0..(i - 1) : j \in 0..((i + 1) - 1)
      OBVIOUS
    <3> QED BY <3>1
  <2>2. Past(i + 1) = Past(i) \cup {at[i]}
    <3>1. 0..((i + 1) - 1) = 0..(i - 1) \cup {i}
      OBVIOUS
    <3>2. Past(i + 1) = {at[j] : j \in 0..(i - 1) \cup {i}}
      BY <3>1
    <3>3. \A T : {at[j] : j \in T \cup {i}} = {at[j] : j \in T} \cup {at[i]}
      OBVIOUS
    <3> QED BY <3>2, <3>3
  <2>3. at[i + 1] \in {nodes[at[i]].left, nodes[at[i]].right}
    <3>1. i + 1 \in 1..M /\ (i + 1) - 1 = i
      OBVIOUS
    <3> QED BY <2>1, <3>1 DEF Followed, Chosen
  <2>4. 0 \notin w[i + 1][at[i]][Past(i)] /\ ~(i + 1 > M) /\ at[i] \notin Past(i)
    <3>1. 0 \notin w[i + 1][at[i]][Past(i)]
      <4> HIDE DEF Splits, Past
      <4> QED BY <2>1
    <3>2. at[i] \notin Past(i)
      <4> HIDE DEF Splits, Past, Sound
      <4> QED BY <1>4, <2>1
    <3>3. ~(i + 1 > M)
      OBVIOUS
    <3> QED BY <3>1, <3>2, <3>3
  <2>5. (i + 1) + 1 = i + 2
    OBVIOUS
  <2> HIDE DEF Past, Splits, Sound
  <2>6. w[i + 1][at[i]][Past(i)] =
          {at[i]} \cup w[i + 2][nodes[at[i]].left][Past(i) \cup {at[i]}]
                  \cup w[i + 2][nodes[at[i]].right][Past(i) \cup {at[i]}]
    BY <1>3, <2>1, <2>4
  <2>7. /\ 0 \notin w[i + 2][nodes[at[i]].left][Past(i + 1)]
        /\ 0 \notin w[i + 2][nodes[at[i]].right][Past(i + 1)]
    BY <2>2, <2>4, <2>6
  <2> QED BY <2>3, <2>5, <2>7
<1>7. P = 0..M
  <2> HIDE DEF Sound
  <2>1. P \in SUBSET (0..M)
    OBVIOUS
  <2>2. \A i \in 0..M : i < M => i + 1 \in 0..M
    OBVIOUS
  <2>3. \A i \in 0..M : i \in P /\ i < M => i + 1 \in P
    BY <1>6, <2>2
  <2> HIDE DEF P
  <2> QED BY <1>5, <2>1, <2>3, CountUp
<1>8. \A i \in 0..M : Sound(i)
  BY <1>7
<1> HIDE DEF Sound
<1>9. \A i \in 0..M : Splits(i) => i < M /\ at[i] \notin Past(i)
  BY <1>4, <1>8
<1> QED BY <1>9

\* The first leaf is reached after d splits.
LeafAt(nodes, at, d) ==
  /\ nodes[at[d]].kind = "leaf"
  /\ \A i \in 0..(d - 1) : nodes[at[i]].kind # "leaf"
  /\ d < Len(nodes)

\* A leaf is reached within the depth allowed, after d splits, and no node is
\* met twice before it.
LEMMA LeafReached ==
  ASSUME NEW nodes, WellFormed(nodes), NEW features, NEW M \in Nat, M >= 1,
         0 \notin Walk(nodes, M), NEW at, Followed(nodes, features, M, at)
  PROVE  \E d \in 0..(M - 1) : LeafAt(nodes, at, d)
<1> DEFINE S == {d \in 0..M : nodes[at[d]].kind = "leaf"}
<1>1. \A i \in 0..M : (\A j \in 0..(i - 1) : nodes[at[j]].kind # "leaf") =>
        i < M /\ \A j \in 0..(i - 1) : at[j] # at[i]
  BY WalkFollows
<1>2. S # {}
  <2>1. M \in 0..M /\ ~(M < M) /\ \A j \in 0..(M - 1) : j \in 0..M
    OBVIOUS
  <2>2. PICK j \in 0..(M - 1) : nodes[at[j]].kind = "leaf"
    BY <1>1, <2>1
  <2> QED BY <2>1, <2>2
<1>3. PICK d \in S : \A e \in S : d <= e
  <2>1. S \in SUBSET (0..M)
    OBVIOUS
  <2> HIDE DEF S
  <2> QED BY <1>2, <2>1, LeastExists
<1>4. d \in 0..M /\ nodes[at[d]].kind = "leaf"
  OBVIOUS
<1>5. \A i \in 0..M : i < d => nodes[at[i]].kind # "leaf"
  <2> SUFFICES ASSUME NEW i \in 0..M, i < d, nodes[at[i]].kind = "leaf" PROVE FALSE
    OBVIOUS
  <2>1. i \in S /\ ~(d <= i)
    BY <1>4
  <2> HIDE DEF S
  <2> QED BY <1>3, <2>1
<1> HIDE DEF S
<1>6. \A i \in 0..d : i \in 0..M /\ \A j \in 0..(i - 1) : j \in 0..M /\ j < d
  BY <1>4
<1>7. \A i \in 0..d : i < M /\ \A j \in 0..(i - 1) : at[j] # at[i]
  <2> SUFFICES ASSUME NEW i \in 0..d PROVE i < M /\ \A j \in 0..(i - 1) : at[j] # at[i]
    OBVIOUS
  <2>1. \A j \in 0..(i - 1) : nodes[at[j]].kind # "leaf"
    BY <1>5, <1>6
  <2>2. i \in 0..M
    BY <1>6
  <2> QED BY <1>1, <2>1, <2>2
<1>8. d < Len(nodes)
  <2> DEFINE f == [i \in 0..d |-> at[i]]
  <2>1. Len(nodes) \in Nat /\ d \in Nat
    BY <1>4 DEF WellFormed
  <2>2. f \in [0..d -> 1..Len(nodes)]
    BY <1>6 DEF Followed, WellFormed
  <2>3. \A i, j \in 0..d : f[i] = f[j] => i = j
    <3> SUFFICES ASSUME NEW i \in 0..d, NEW j \in 0..d, at[i] = at[j], i # j PROVE FALSE
      OBVIOUS
    <3>1. i < j => i \in 0..(j - 1)
      BY <1>4
    <3>2. j < i => j \in 0..(i - 1)
      BY <1>4
    <3>3. i < j \/ j < i
      BY <1>4
    <3> QED BY <1>7, <3>1, <3>2, <3>3
  <2> HIDE DEF f
  <2> QED BY <2>1, <2>2, <2>3, InjectionBound
<1>9. d \in 0..(M - 1) /\ \A i \in 0..(d - 1) : i \in 0..M /\ i < d
  <2>1. d \in 0..d
    BY <1>4
  <2>2. d < M
    BY <1>7, <2>1
  <2> QED BY <1>4, <2>2
<1>10. \A i \in 0..(d - 1) : nodes[at[i]].kind # "leaf"
  BY <1>5, <1>9
<1> QED BY <1>4, <1>8, <1>9, <1>10 DEF LeafAt

\* score_tree has steps enough for a leaf reached after fewer splits than there
\* are nodes.
LEMMA LeafScored ==
  ASSUME NEW nodes, WellFormed(nodes), NEW features, NEW M \in Nat,
         NEW at, Followed(nodes, features, M, at), NEW d \in 0..M, LeafAt(nodes, at, d)
  PROVE  ScoreTree(nodes, features) = nodes[at[d]].value
<1> USE DEF LeafAt
<1>1. PICK s : s = ScoreBody(nodes, features, s) /\ ScoreTree(nodes, features) = s[Len(nodes) + 1][1]
  BY ScoreExists, ScoreIs
<1> DEFINE L == Len(nodes) + 1
           P == {i \in 0..d : s[L - i][at[i]] = ScoreTree(nodes, features)}
<1>2. Len(nodes) \in Nat /\ L \in Nat /\ d \in Nat
  BY DEF WellFormed
<1>3. \A i \in 0..d : L - i \in 0..L /\ L - i # 0 /\ at[i] \in DOMAIN nodes
  <2>1. \A i \in 0..d : L - i \in 0..L /\ L - i # 0 /\ i \in 0..M
    BY <1>2
  <2> QED BY <2>1 DEF Followed
<1>4. \A i \in 0..d :
        s[L - i][at[i]] = IF nodes[at[i]].kind = "leaf" THEN nodes[at[i]].value
                          ELSE s[(L - i) - 1][Chosen(nodes, features, at[i])]
  <2> SUFFICES ASSUME NEW i \in 0..d
               PROVE  s[L - i][at[i]] = IF nodes[at[i]].kind = "leaf" THEN nodes[at[i]].value
                                        ELSE s[(L - i) - 1][Chosen(nodes, features, at[i])]
    OBVIOUS
  <2>1. PICK k : k = L - i
    OBVIOUS
  <2>2. k \in 0..(Len(nodes) + 1) /\ k # 0 /\ at[i] \in DOMAIN nodes
    BY <1>3, <2>1
  <2>3. s[k][at[i]] = ScoreBody(nodes, features, s)[k][at[i]]
    BY <1>1
  <2>4. s[k][at[i]] = IF nodes[at[i]].kind = "leaf" THEN nodes[at[i]].value
                      ELSE s[k - 1][Chosen(nodes, features, at[i])]
    BY <2>2, <2>3 DEF ScoreBody, Chosen
  <2> QED BY <2>1, <2>4
<1>5. 0 \in P
  <2>1. L - 0 = L /\ at[0] = 1 /\ 0 \in 0..d
    BY <1>2 DEF Followed
  <2> QED BY <1>1, <2>1
<1>6. \A i \in 0..d : s[L - i][at[i]] = ScoreTree(nodes, features) /\ i < d
                        => s[L - (i + 1)][at[i + 1]] = ScoreTree(nodes, features)
  <2> SUFFICES ASSUME NEW i \in 0..d, s[L - i][at[i]] = ScoreTree(nodes, features), i < d
               PROVE  s[L - (i + 1)][at[i + 1]] = ScoreTree(nodes, features)
    OBVIOUS
  <2>1. /\ i \in 0..(d - 1) /\ i + 1 \in 1..M /\ (i + 1) - 1 = i
        /\ L - (i + 1) = (L - i) - 1
    BY <1>2
  <2>2. nodes[at[i]].kind # "leaf"
    BY <2>1
  <2>3. at[i + 1] = Chosen(nodes, features, at[i])
    BY <2>1, <2>2 DEF Followed
  <2>4. s[L - i][at[i]] = s[(L - i) - 1][Chosen(nodes, features, at[i])]
    BY <1>4, <2>2
  <2> HIDE DEF L
  <2> QED BY <2>1, <2>3, <2>4
<1>7. P = 0..d
  <2>1. P \in SUBSET (0..d)
    OBVIOUS
  <2>2. \A i \in 0..d : i < d => i + 1 \in 0..d
    BY <1>2
  <2>3. \A i \in 0..d : i \in P /\ i < d => i + 1 \in P
    <3> HIDE DEF L
    <3> QED BY <1>6, <2>2
  <2> HIDE DEF P
  <2> QED BY <1>2, <1>5, <2>1, <2>3, CountUp
<1>8. d \in P /\ d \in 0..d
  <2> HIDE DEF P
  <2> QED BY <1>2, <1>7
<1>9. s[L - d][at[d]] = ScoreTree(nodes, features)
  BY <1>8
<1>10. s[L - d][at[d]] = nodes[at[d]].value
  <2> HIDE DEF L
  <2> QED BY <1>4, <1>8
<1> QED BY <1>9, <1>10

\* What compile_tree accepts scores every feature vector.
LEMMA ValidTreeIsTotal ==
  ASSUME NEW nodes, WellFormed(nodes), Len(nodes) >= 1, NEW features,
         NEW maxDepth \in Nat, maxDepth >= 1, Walk(nodes, maxDepth) = DOMAIN nodes
  PROVE  TreeIsTotal(nodes, features, maxDepth)
<1>1. 0 \notin Walk(nodes, maxDepth)
  BY DEF WellFormed
<1>2. PICK at : Followed(nodes, features, maxDepth, at)
  BY FollowedExists
<1>3. PICK d \in 0..(maxDepth - 1) : LeafAt(nodes, at, d)
  BY <1>1, <1>2, LeafReached
<1>4. d \in 0..maxDepth
  OBVIOUS
<1>5. ScoreTree(nodes, features) = nodes[at[d]].value
  BY <1>2, <1>3, <1>4, LeafScored
<1> DEFINE path == [i \in 1..(d + 1) |-> at[i - 1]]
<1>6. /\ d + 1 \in 1..maxDepth /\ d + 1 \in 1..(d + 1) /\ (d + 1) - 1 = d /\ d + 1 \in Nat
      /\ 1 \in 1..(d + 1) /\ 1 - 1 = 0
  OBVIOUS
<1>7. \A i \in 1..(d + 1) : i - 1 \in 0..maxDepth
  OBVIOUS
<1>8. path \in [1..(d + 1) -> DOMAIN nodes]
  BY <1>2, <1>7 DEF Followed
<1>9. path[1] = 1 /\ path[d + 1] = at[d]
  BY <1>2, <1>6 DEF Followed
<1>10. Len(path) = d + 1
  <2> HIDE DEF path
  <2>1. path \in Seq(DOMAIN nodes) /\ DOMAIN path = 1..(d + 1)
    BY <1>6, <1>8
  <2> QED BY <1>6, <2>1
<1>11. \A i \in 1..d : /\ nodes[path[i]].kind = "split"
                       /\ path[i + 1] = Chosen(nodes, features, path[i])
  <2> SUFFICES ASSUME NEW i \in 1..d
               PROVE  /\ nodes[path[i]].kind = "split"
                      /\ path[i + 1] = Chosen(nodes, features, path[i])
    OBVIOUS
  <2>1. /\ i \in 1..(d + 1) /\ i + 1 \in 1..(d + 1) /\ (i + 1) - 1 = i
        /\ i - 1 \in 0..(d - 1) /\ i \in 1..maxDepth /\ i - 1 \in 0..maxDepth
    OBVIOUS
  <2>2. path[i] = at[i - 1] /\ path[i + 1] = at[i]
    BY <2>1
  <2>3. nodes[at[i - 1]].kind # "leaf" /\ at[i - 1] \in DOMAIN nodes
    BY <1>2, <1>3, <2>1 DEF Followed, LeafAt
  <2>4. nodes[at[i - 1]].kind = "split"
    BY <2>3 DEF WellFormed
  <2>5. at[i] = Chosen(nodes, features, at[i - 1])
    BY <1>2, <2>1, <2>3 DEF Followed
  <2> QED BY <2>2, <2>4, <2>5
<1> HIDE DEF path
<1>12. IsWalkOf(nodes, features, path)
  <2>1. (d + 1) - 1 = d
    OBVIOUS
  <2> QED BY <1>9, <1>10, <1>11, <2>1 DEF IsWalkOf, Chosen
<1> QED BY <1>3, <1>5, <1>6, <1>8, <1>9, <1>12 DEF TreeIsTotal, LeafAt

-----------------------------------------------------------------------------
(* A loaded model is one that was accepted.                                 *)

TreeAccepted(tree) ==
  /\ WellFormed(tree) /\ Len(tree) >= 1
  /\ Walk(tree, LoadOptions.max_depth) = DOMAIN tree

\* Its names are different, and its numbers are numbers.
ModelTyped(m) ==
  /\ m.names \in Seq(STRING) /\ IsFeatureList(m.names) /\ m.base \in Int /\ m.rate \in Int
  /\ Len(m.trees) \in Nat /\ DOMAIN m.trees = 1..Len(m.trees)
  /\ \A i \in DOMAIN m.trees : \A n \in DOMAIN m.trees[i] :
       m.trees[i][n].kind = "leaf" => m.trees[i][n].value \in Int

ModelAccepted(m) ==
  /\ LoadOptions.max_depth >= 1
  /\ \A i \in DOMAIN m.trees : TreeAccepted(m.trees[i])
  /\ ModelTyped(m)

ModelInv == model \notin {None, Err} => ModelAccepted(model)

LEMMA LoadAccepts ==
  ASSUME NEW record \in ModelRecords \cup DeployedModels, LoadModel(record)
  PROVE  ModelInv'
<1> SUFFICES ASSUME model' \notin {None, Err}
             PROVE  /\ LoadOptions.max_depth >= 1
                    /\ \A i \in DOMAIN record.trees : TreeAccepted(record.trees[i])
                    /\ ModelTyped(record)
                    /\ model' = record
  BY DEF ModelInv, ModelAccepted, TreeAccepted, ModelTyped
<1>1. /\ model' = record /\ LoadOptions.max_depth > 0 /\ IsFeatureList(record.names)
      /\ \A i \in DOMAIN record.trees : ValidTree(record.trees[i], record.names, LoadOptions)
  BY DEF LoadModel, CompiledModel, ValidSchema
<1>2. LoadOptions.max_depth \in Nat /\ LoadOptions.max_nodes \in Nat
  BY TreeLists
<1>3. ASSUME NEW i \in DOMAIN record.trees PROVE TreeAccepted(record.trees[i])
  <2> DEFINE tree == record.trees[i]
  <2>1. Len(tree) \in Nat /\ DOMAIN tree = 1..Len(tree)
    BY TreeLists
  <2>2. ValidTree(tree, record.names, LoadOptions)
    BY <1>1
  <2> HIDE DEF tree
  <2>3. \A n \in DOMAIN tree :
          \/ tree[n].kind = "leaf"
          \/ tree[n].kind = "split" /\ {tree[n].left, tree[n].right} \subseteq DOMAIN tree
    BY <2>2 DEF ValidTree, ValidNode
  <2>4. Len(tree) >= 1 /\ Walk(tree, LoadOptions.max_depth) = DOMAIN tree
    BY <1>2, <2>1, <2>2 DEF ValidTree
  <2>5. TreeAccepted(tree)
    BY <2>1, <2>3, <2>4 DEF TreeAccepted, WellFormed
  <2> QED BY <2>5 DEF tree
<1>4. ModelTyped(record)
  BY <1>1, TreeLists DEF ModelTyped
<1> QED BY <1>1, <1>2, <1>3, <1>4

LEMMA ModelInit == Init => ModelInv
  BY DEF Init, ModelInv

LEMMA ModelStep == ModelInv /\ [Next]_vars => ModelInv'
<1> SUFFICES ASSUME ModelInv, [Next]_vars PROVE ModelInv'
  OBVIOUS
<1>1. CASE UNCHANGED model
  BY <1>1 DEF ModelInv
<1>2. ASSUME NEW record \in ModelRecords \cup DeployedModels, LoadModel(record)
      PROVE  ModelInv'
  BY <1>2, LoadAccepts
<1>3. \/ UNCHANGED model
      \/ \E record \in ModelRecords \cup DeployedModels : LoadModel(record)
  BY DEF Next, vars, hybridVars, WriteMmap, Damage, OpenSparseFile, WithdrawBundle,
         PublishBundle, OpenDense, OpenSparseHalf, CloseBundle
<1> QED BY <1>1, <1>2, <1>3

\* Every tree a model is accepted with scores every feature vector, by the leaf
\* its thresholds lead to and within the depth the options allow: the walk
\* compile_tree makes once, over both children of every split, is enough for
\* score_tree to need no check of its own.
THEOREM TreesScore == Spec => []AcceptedTreesScore
<1>1. Init => ModelInv
  BY ModelInit
<1>2. ModelInv /\ [Next]_vars => ModelInv'
  BY ModelStep
<1>3. ModelInv => AcceptedTreesScore
  <2> SUFFICES ASSUME ModelInv, model \notin {None, Err},
                      NEW i \in DOMAIN model.trees, NEW features \in FeatureVectors
               PROVE  TreeIsTotal(model.trees[i], features, LoadOptions.max_depth)
    BY DEF AcceptedTreesScore
  <2>1. TreeAccepted(model.trees[i]) /\ LoadOptions.max_depth >= 1
    BY DEF ModelInv, ModelAccepted
  <2>2. LoadOptions.max_depth \in Nat
    BY TreeLists
  <2> QED BY <2>1, <2>2, ValidTreeIsTotal DEF TreeAccepted
<1> QED BY <1>1, <1>2, <1>3, PTL DEF Spec

-----------------------------------------------------------------------------
(* Items kept, in their order                                              *)

\* order lists m places in increasing order, and Kept the items at them.
KeptBy(list, places, m, order) ==
  /\ m \in Nat /\ m = Cardinality(places)
  /\ order \in [1..m -> places]
  /\ \A p \in places : \E i \in 1..m : order[i] = p
  /\ \A i, j \in 1..m : i < j => order[i] < order[j]
  /\ Kept(list, places) = [i \in 1..m |-> list[order[i]]]

LEMMA KeptIs ==
  ASSUME NEW n \in Nat, NEW list, NEW places \in SUBSET (1..n)
  PROVE  \E m, order : KeptBy(list, places, m, order)
<1>1. IsFiniteSet(1..n) /\ 1..n \subseteq Int
  BY FS_Interval
<1>2. IsFiniteSet(places) /\ places \subseteq Int
  BY <1>1, FS_Subset
<1> DEFINE m == Cardinality(places)
           order == InOrder(places)
<1>3. /\ m \in Nat
      /\ order \in [1..m -> places]
      /\ \A p \in places : \E i \in 1..m : order[i] = p
      /\ \A i, j \in 1..m : i < j => order[i] < order[j]
  BY <1>2, InOrderLists
<1>4. Kept(list, places) = [i \in DOMAIN order |-> list[order[i]]]
  BY DEF Kept
<1>5. m = Cardinality(places)
  OBVIOUS
<1> HIDE DEF m, order
<1>6. Kept(list, places) = [i \in 1..m |-> list[order[i]]]
  BY <1>3, <1>4
<1>7. KeptBy(list, places, m, order)
  BY <1>3, <1>5, <1>6 DEF KeptBy
<1> QED BY <1>7

-----------------------------------------------------------------------------
(* Sums                                                                     *)

\* f lists the sums of the first items of a list of n numbers.
Sums(seq, n, f) ==
  f \in [0..n -> Int] /\ f[0] = 0 /\ \A i \in 1..n : f[i] = f[i - 1] + seq[i]

LEMMA SumsUnique ==
  ASSUME NEW n \in Nat, NEW seq, NEW f, Sums(seq, n, f), NEW g, Sums(seq, n, g)
  PROVE  \A i \in 0..n : f[i] = g[i]
<1> DEFINE P == {i \in 0..n : f[i] = g[i]}
<1>1. 0 \in P
  BY DEF Sums
<1>2. \A k \in 0..n : k \in P /\ k < n => k + 1 \in P
  <2> SUFFICES ASSUME NEW k \in 0..n, f[k] = g[k], k < n PROVE f[k + 1] = g[k + 1]
    OBVIOUS
  <2>1. k + 1 \in 1..n /\ (k + 1) - 1 = k
    OBVIOUS
  <2>2. f[k + 1] = f[k] + seq[k + 1] /\ g[k + 1] = g[k] + seq[k + 1]
    BY <2>1 DEF Sums
  <2> QED BY <2>2
<1>3. P = 0..n
  <2> HIDE DEF P
  <2>1. P \in SUBSET (0..n)
    BY DEF P
  <2> QED BY <1>1, <1>2, <2>1, CountUp
<1> QED BY <1>3

SumBody(seq, u) == [i \in 0..Len(seq) |-> IF i = 0 THEN 0 ELSE u[i - 1] + seq[i]]

LEMMA SumIs ==
  ASSUME NEW n \in Nat, NEW seq \in [1..n -> Int], NEW f, Sums(seq, n, f)
  PROVE  SumOf(seq) = f[n]
<1>1. Len(seq) = n
  BY LenOfFunction
<1> DEFINE u == CHOOSE u : u = SumBody(seq, u)
<1>2. SumOf(seq) = u[n]
  BY <1>1 DEF SumOf, SumBody
<1>3. f = SumBody(seq, f)
  <2>1. f = [i \in 0..n |-> f[i]]
    BY DEF Sums
  <2>2. SumBody(seq, f) = [i \in 0..n |-> SumBody(seq, f)[i]]
    BY <1>1 DEF SumBody
  <2>3. \A i \in 0..n : f[i] = SumBody(seq, f)[i]
    <3> SUFFICES ASSUME NEW i \in 0..n PROVE f[i] = SumBody(seq, f)[i]
      OBVIOUS
    <3>1. i = 0 \/ i \in 1..n
      OBVIOUS
    <3>2. SumBody(seq, f)[i] = IF i = 0 THEN 0 ELSE f[i - 1] + seq[i]
      BY <1>1 DEF SumBody
    <3> QED BY <3>1, <3>2 DEF Sums
  <2> QED BY <2>1, <2>2, <2>3
<1>4. u = SumBody(seq, u)
  BY <1>3
<1> HIDE DEF u
<1>5. u = [i \in 0..n |-> IF i = 0 THEN 0 ELSE u[i - 1] + seq[i]]
  BY <1>1, <1>4 DEF SumBody
<1> DEFINE P == {i \in 0..n : u[i] = f[i]}
<1>6. 0 \in P
  BY <1>5 DEF Sums
<1>7. \A k \in 0..n : k \in P /\ k < n => k + 1 \in P
  <2> SUFFICES ASSUME NEW k \in 0..n, u[k] = f[k], k < n PROVE u[k + 1] = f[k + 1]
    OBVIOUS
  <2>1. k + 1 \in 1..n /\ (k + 1) - 1 = k /\ k + 1 \in 0..n /\ k + 1 # 0
    OBVIOUS
  <2>2. f[k + 1] = f[k] + seq[k + 1]
    BY <2>1 DEF Sums
  <2>3. u[k + 1] = u[k] + seq[k + 1]
    BY <1>5, <2>1
  <2> QED BY <2>2, <2>3
<1>8. P = 0..n
  <2> HIDE DEF P
  <2>1. P \in SUBSET (0..n)
    BY DEF P
  <2> QED BY <1>6, <1>7, <2>1, CountUp
<1> QED BY <1>2, <1>8

LEMMA SumsExist ==
  ASSUME NEW n \in Nat, NEW seq \in [1..n -> Int]
  PROVE  \E f : Sums(seq, n, f)
<1> DEFINE step == [i \in 1..n |-> [x \in Int |-> x + seq[i]]]
<1>1. step \in [1..n -> [Int -> Int]]
  OBVIOUS
<1>2. PICK f : Steps(f, n, Int, 0, step)
  <2> HIDE DEF step
  <2>1. 0 \in Int
    OBVIOUS
  <2> QED BY <1>1, <2>1, StepsExist
<1>3. Sums(seq, n, f)
  <2>1. f \in [0..n -> Int] /\ f[0] = 0 /\ \A i \in 1..n : f[i] = step[i][f[i - 1]]
    BY <1>2 DEF Steps
  <2>2. \A i \in 1..n : f[i] = f[i - 1] + seq[i]
    <3> SUFFICES ASSUME NEW i \in 1..n PROVE f[i] = f[i - 1] + seq[i]
      OBVIOUS
    <3>1. i - 1 \in 0..n
      OBVIOUS
    <3>2. f[i - 1] \in Int
      BY <2>1, <3>1
    <3> QED BY <2>1, <3>2
  <2> QED BY <2>1, <2>2 DEF Sums
<1> QED BY <1>3

\* The sums of natural numbers never go down.
LEMMA SumsGrow ==
  ASSUME NEW n \in Nat, NEW seq \in [1..n -> Nat], NEW f, Sums(seq, n, f)
  PROVE  /\ f \in [0..n -> Nat]
         /\ \A i, j \in 0..n : i <= j => f[i] <= f[j]
<1> DEFINE P == {j \in 0..n : f[j] \in Nat /\ \A i \in 0..j : f[i] <= f[j]}
<1>1. 0 \in P
  BY DEF Sums
<1>2. \A k \in 0..n : k \in P /\ k < n => k + 1 \in P
  <2> SUFFICES ASSUME NEW k \in 0..n, k \in P, k < n PROVE k + 1 \in P
    OBVIOUS
  <2>1. k + 1 \in 1..n /\ (k + 1) - 1 = k /\ k + 1 \in 0..n
    OBVIOUS
  <2>2. f[k + 1] = f[k] + seq[k + 1] /\ seq[k + 1] \in Nat
    BY <2>1 DEF Sums
  <2>3. f[k + 1] \in Nat /\ f[k] <= f[k + 1]
    BY <2>2
  <2>4. ASSUME NEW i \in 0..(k + 1) PROVE f[i] <= f[k + 1]
    <3>1. CASE i = k + 1
      BY <3>1, <2>3
    <3>2. CASE i # k + 1
      <4>1. i \in 0..k /\ i \in 0..n
        BY <3>2
      <4>2. f[i] <= f[k] /\ f[i] \in Int
        BY <4>1 DEF Sums
      <4> QED BY <4>2, <2>3
    <3> QED BY <3>1, <3>2
  <2> QED BY <2>1, <2>3, <2>4
<1>3. P = 0..n
  <2> HIDE DEF P
  <2>1. P \in SUBSET (0..n)
    BY DEF P
  <2> QED BY <1>1, <1>2, <2>1, CountUp
<1>4. \A j \in 0..n : f[j] \in Nat /\ \A i \in 0..j : f[i] <= f[j]
  BY <1>3
<1> HIDE DEF P
<1>5. f \in [0..n -> Nat]
  BY <1>4 DEF Sums
<1>6. ASSUME NEW i \in 0..n, NEW j \in 0..n, i <= j PROVE f[i] <= f[j]
  <2>1. i \in 0..j
    BY <1>6
  <2> QED BY <1>4, <2>1
<1> QED BY <1>5, <1>6

\* The sum of the items before one
LEMMA SumBeforeIs ==
  ASSUME NEW n \in Nat, NEW seq \in [1..n -> Int], NEW f, Sums(seq, n, f), NEW i \in 1..(n + 1)
  PROVE  SumBefore(seq, i) = f[i - 1]
<1> DEFINE m == i - 1
           part == [j \in 1..m |-> seq[j]]
           g == [j \in 0..m |-> f[j]]
<1>1. m \in Nat /\ m \in 0..n /\ 1..m \subseteq 1..n /\ 0..m \subseteq 0..n
  OBVIOUS
<1>2. SubSeq(seq, 1, m) = part
  <2>1. seq \in Seq(Int) /\ Len(seq) = n
    BY LenOfFunction
  <2>2. SubSeq(seq, 1, m) = [j \in 1..(m - 1 + 1) |-> seq[j + 1 - 1]]
    BY <2>1, <1>1
  <2>3. m - 1 + 1 = m /\ \A j \in 1..m : j + 1 - 1 = j
    OBVIOUS
  <2> QED BY <2>2, <2>3
<1>3. part \in [1..m -> Int]
  BY <1>1
<1>4. Sums(part, m, g)
  <2>1. g \in [0..m -> Int]
    BY <1>1 DEF Sums
  <2>2. g[0] = 0
    BY <1>1 DEF Sums
  <2>3. ASSUME NEW j \in 1..m PROVE g[j] = g[j - 1] + part[j]
    <3>1. j \in 1..n /\ j \in 0..m /\ j - 1 \in 0..m
      BY <1>1
    <3> HIDE DEF m
    <3> QED BY <3>1 DEF Sums
  <2> HIDE DEF g, part, m
  <2> QED BY <2>1, <2>2, <2>3 DEF Sums
<1>5. SumOf(part) = g[m]
  <2> HIDE DEF part, g, m
  <2> QED BY <1>1, <1>3, <1>4, SumIs
<1>6. g[m] = f[m]
  BY <1>1
<1> HIDE DEF part, g
<1> QED BY <1>2, <1>5, <1>6 DEF SumBefore

NoneIn(seq, a, b) == \A p \in (a + 1)..b : seq[p] = 0

\* Items that are 0 do not change the sum.
LEMMA SumOfZeros ==
  ASSUME NEW n \in Nat, NEW seq \in [1..n -> Int], NEW f, Sums(seq, n, f),
         NEW a \in 0..n, NEW b \in 0..n, a <= b, NoneIn(seq, a, b)
  PROVE  f[b] = f[a]
<1> DEFINE m == b - a
           P == {k \in 0..m : f[a + k] = f[a]}
<1>0. m \in Nat /\ a + m = b /\ \A k \in 0..m : a + k \in 0..n
  OBVIOUS
<1>1. 0 \in P
  OBVIOUS
<1>2. \A k \in 0..m : k \in P /\ k < m => k + 1 \in P
  <2> SUFFICES ASSUME NEW k \in 0..m, f[a + k] = f[a], k < m
               PROVE  f[a + (k + 1)] = f[a]
    OBVIOUS
  <2> DEFINE p == a + (k + 1)
  <2>1. p \in 1..n /\ p \in (a + 1)..b /\ p - 1 = a + k /\ a + k \in 0..n
    OBVIOUS
  <2> HIDE DEF p, m
  <2>2. f[p] = f[p - 1] + seq[p] /\ seq[p] = 0
    BY <2>1 DEF Sums, NoneIn
  <2>3. f[a + k] \in Int
    BY <2>1 DEF Sums
  <2> QED BY <2>1, <2>2, <2>3 DEF p
<1>3. P = 0..m
  <2> HIDE DEF P, m
  <2>1. P \in SUBSET (0..m)
    BY DEF P
  <2> QED BY <1>0, <1>1, <1>2, <2>1, CountUp
<1>4. m \in P
  <2> HIDE DEF P, m
  <2>1. m \in 0..m
    BY <1>0
  <2> QED BY <1>3, <2>1
<1>5. f[a + m] = f[a]
  BY <1>4
<1> QED BY <1>0, <1>5

GrownBy(f, a, b, x) == f[b] = f[a] + x
OnlyAt(seq, a, b, q) == q \in (a + 1)..b /\ \A p \in (a + 1)..b : p # q => seq[p] = 0

\* One item that is not 0 is all the sum grows by.
LEMMA SumOfOne ==
  ASSUME NEW n \in Nat, NEW seq \in [1..n -> Int], NEW f, Sums(seq, n, f),
         NEW a \in 0..n, NEW b \in 0..n, NEW q,
         OnlyAt(seq, a, b, q)
  PROVE  GrownBy(f, a, b, seq[q])
<1>0. q \in (a + 1)..b /\ \A p \in (a + 1)..b : p # q => seq[p] = 0
  BY DEF OnlyAt
<1>1. q - 1 \in 0..n /\ q \in 0..n /\ q \in 1..n /\ a <= q - 1 /\ q <= b
  BY <1>0
<1>2. NoneIn(seq, a, q - 1)
  BY <1>0 DEF NoneIn
<1>3. NoneIn(seq, q, b)
  BY <1>0 DEF NoneIn
<1>4. f[q - 1] = f[a]
  BY <1>1, <1>2, SumOfZeros
<1>5. f[b] = f[q]
  BY <1>1, <1>3, SumOfZeros
<1>6. f[q] = f[q - 1] + seq[q]
  BY <1>1 DEF Sums
<1> QED BY <1>4, <1>5, <1>6 DEF GrownBy

-----------------------------------------------------------------------------
(* Lists laid end to end                                                    *)

LEMMA ConcatIs ==
  ASSUME NEW T, NEW s \in Seq(T), NEW t \in Seq(T)
  PROVE  /\ Len(s) \in Nat /\ Len(t) \in Nat
         /\ s \o t \in Seq(T) /\ Len(s \o t) = Len(s) + Len(t)
         /\ \A i \in 1..Len(s) : (s \o t)[i] = s[i]
         /\ \A j \in 1..Len(t) : (s \o t)[Len(s) + j] = t[j]
         /\ Len(s) = 0 => s \o t = t
  OBVIOUS

FlatBody(seqs, u) ==
  [i \in 1..Len(seqs) |-> IF i = 1 THEN seqs[i] ELSE u[i - 1] \o seqs[i]]

LengthsOf(n, lists) == [i \in 1..n |-> Len(lists[i])]

\* Item j of list i comes after the items of the lists before.
EndToEnd(n, T, lists, f, flat) ==
  /\ f \in [0..n -> Nat]
  /\ \A i, j \in 0..n : i <= j => f[i] <= f[j]
  /\ flat \in Seq(T) /\ Len(flat) = f[n]
  /\ \A i \in 1..n : \A j \in 1..Len(lists[i]) : flat[f[i - 1] + j] = lists[i][j]

LEMMA FlattenIs ==
  ASSUME NEW n \in Nat, NEW T, NEW lists \in [1..n -> Seq(T)],
         NEW f, Sums(LengthsOf(n, lists), n, f)
  PROVE  EndToEnd(n, T, lists, f, SeqExt!FlattenSeq(lists))
<1> DEFINE lens == LengthsOf(n, lists)
<1>0. lens \in [1..n -> Nat]
  BY DEF LengthsOf
<1>1. f \in [0..n -> Nat] /\ \A i, j \in 0..n : i <= j => f[i] <= f[j]
  <2> HIDE DEF lens
  <2>1. Sums(lens, n, f)
    BY DEF lens
  <2> QED BY <1>0, <2>1, SumsGrow
<1>2. f[0] = 0 /\ \A i \in 1..n : f[i] = f[i - 1] + Len(lists[i])
  BY DEF Sums, LengthsOf
<1> DEFINE step == [i \in 1..n |-> [x \in Seq(T) |-> x \o lists[i]]]
<1>3. step \in [1..n -> [Seq(T) -> Seq(T)]]
  <2> SUFFICES ASSUME NEW i \in 1..n, NEW x \in Seq(T) PROVE x \o lists[i] \in Seq(T)
    OBVIOUS
  <2>1. lists[i] \in Seq(T)
    OBVIOUS
  <2> QED BY <2>1
<1>4. PICK g : Steps(g, n, Seq(T), <<>>, step)
  <2>1. <<>> \in Seq(T)
    OBVIOUS
  <2> HIDE DEF step
  <2> QED BY <1>3, <2>1, StepsExist
<1>5. /\ g \in [0..n -> Seq(T)] /\ g[0] = <<>>
      /\ \A i \in 1..n : g[i] = g[i - 1] \o lists[i]
  <2>1. g \in [0..n -> Seq(T)] /\ g[0] = <<>> /\ \A i \in 1..n : g[i] = step[i][g[i - 1]]
    <3> HIDE DEF step
    <3> QED BY <1>4 DEF Steps
  <2>2. ASSUME NEW i \in 1..n PROVE g[i] = g[i - 1] \o lists[i]
    <3>1. i - 1 \in 0..n
      OBVIOUS
    <3>2. g[i - 1] \in Seq(T)
      BY <2>1, <3>1
    <3>3. step[i][g[i - 1]] = g[i - 1] \o lists[i]
      BY <3>2
    <3> QED BY <2>1, <3>3
  <2> QED BY <2>1, <2>2
<1> HIDE DEF step, lens
<1> DEFINE Placed(k) == \A i \in 1..k : \A j \in 1..Len(lists[i]) : g[k][f[i - 1] + j] = lists[i][j]
           P == {k \in 0..n : Len(g[k]) = f[k] /\ Placed(k)}
<1>6. 0 \in P
  BY <1>2, <1>5
<1>7. \A k \in 0..n : k \in P /\ k < n => k + 1 \in P
  <2> SUFFICES ASSUME NEW k \in 0..n, k \in P, k < n PROVE k + 1 \in P
    OBVIOUS
  <2>1. k + 1 \in 1..n /\ (k + 1) - 1 = k /\ k + 1 \in 0..n
    <3> HIDE DEF P
    <3> QED OBVIOUS
  <2>2. /\ g[k] \in Seq(T) /\ lists[k + 1] \in Seq(T) /\ g[k + 1] = g[k] \o lists[k + 1]
        /\ f[k + 1] = f[k] + Len(lists[k + 1]) /\ Len(g[k]) = f[k] /\ f[k] \in Nat
    BY <1>1, <1>2, <1>5, <2>1
  <2>3. /\ Len(g[k + 1]) = Len(g[k]) + Len(lists[k + 1])
        /\ \A i \in 1..Len(g[k]) : g[k + 1][i] = g[k][i]
        /\ \A j \in 1..Len(lists[k + 1]) : g[k + 1][Len(g[k]) + j] = lists[k + 1][j]
    <3> DEFINE x == g[k]
               y == lists[k + 1]
               z == g[k + 1]
    <3>1. x \in Seq(T) /\ y \in Seq(T) /\ z = x \o y
      BY <2>2
    <3> HIDE DEF x, y, z
    <3>2. /\ Len(z) = Len(x) + Len(y)
          /\ \A i \in 1..Len(x) : z[i] = x[i]
          /\ \A j \in 1..Len(y) : z[Len(x) + j] = y[j]
      BY <3>1, ConcatIs
    <3> QED BY <3>2 DEF x, y, z
  <2>4. Len(g[k + 1]) = f[k + 1]
    BY <2>2, <2>3
  <2>5. Placed(k)
    OBVIOUS
  <2>6. ASSUME NEW i \in 1..(k + 1), NEW j \in 1..Len(lists[i])
        PROVE  g[k + 1][f[i - 1] + j] = lists[i][j]
    <3>1. CASE i = k + 1
      <4>1. j \in 1..Len(lists[k + 1]) /\ f[i - 1] = f[k]
        BY <3>1, <2>1
      <4> QED BY <3>1, <4>1, <2>2, <2>3
    <3>2. CASE i # k + 1
      <4>1. i \in 1..k /\ i \in 1..n /\ i \in 0..n /\ i - 1 \in 0..n
        BY <3>2
      <4>2. f[i] <= f[k] /\ f[i] = f[i - 1] + Len(lists[i]) /\ f[i - 1] \in Nat
        BY <1>1, <1>2, <4>1
      <4>3. lists[i] \in Seq(T)
        BY <4>1
      <4>4. f[i - 1] + j \in 1..Len(g[k])
        <5>1. Len(g[k]) = f[k] /\ f[k] \in Nat /\ j \in Nat /\ 1 <= j /\ j <= Len(lists[i])
          BY <2>2, <4>3
        <5>2. f[i] = f[i - 1] + Len(lists[i]) /\ Len(lists[i]) \in Nat
          BY <4>2, <4>3
        <5> QED BY <4>2, <5>1, <5>2
      <4>5. g[k + 1][f[i - 1] + j] = g[k][f[i - 1] + j]
        BY <4>4, <2>3
      <4>6. g[k][f[i - 1] + j] = lists[i][j]
        BY <2>5, <4>1
      <4> QED BY <4>5, <4>6
    <3> QED BY <3>1, <3>2
  <2> QED BY <2>1, <2>4, <2>6
<1>8. P = 0..n
  <2> HIDE DEF P
  <2>1. P \in SUBSET (0..n)
    BY DEF P
  <2> QED BY <1>6, <1>7, <2>1, CountUp
<1>9. Len(g[n]) = f[n] /\ Placed(n)
  BY <1>8
<1>10. Len(lists) = n
  BY LenOfFunction
<1>11. SeqExt!FlattenSeq(lists) = g[n]
  <2>1. CASE n = 0
    <3>1. lists = <<>>
      BY <2>1
    <3> QED BY <2>1, <3>1, <1>5, <1>10 DEF SeqExt!FlattenSeq
  <2>2. CASE n # 0
    <3> DEFINE u == CHOOSE u : u = FlatBody(lists, u)
               w == [i \in 1..n |-> g[i]]
    <3>1. SeqExt!FlattenSeq(lists) = u[n]
      BY <1>10, <2>2 DEF SeqExt!FlattenSeq, FlatBody
    <3>2. w = FlatBody(lists, w)
      <4>1. FlatBody(lists, w) = [i \in 1..n |-> FlatBody(lists, w)[i]]
        BY <1>10 DEF FlatBody
      <4>2. \A i \in 1..n : g[i] = FlatBody(lists, w)[i]
        <5> SUFFICES ASSUME NEW i \in 1..n PROVE g[i] = FlatBody(lists, w)[i]
          OBVIOUS
        <5>1. FlatBody(lists, w)[i] = IF i = 1 THEN lists[i] ELSE w[i - 1] \o lists[i]
          BY <1>10 DEF FlatBody
        <5>2. CASE i = 1
          <6>1. g[1] = <<>> \o lists[1] /\ lists[1] \in Seq(T)
            <7>1. i \in 1..n /\ i - 1 = 0
              BY <5>2
            <7>2. lists[i] \in Seq(T) /\ g[i] = g[0] \o lists[i]
              <8>1. g[i] = g[i - 1] \o lists[i]
                BY <1>5, <7>1
              <8> QED BY <7>1, <8>1
            <7>3. g[0] = <<>>
              BY <1>5
            <7> QED BY <5>2, <7>2, <7>3
          <6> QED BY <5>1, <5>2, <6>1
        <5>3. CASE i # 1
          <6>1. i - 1 \in 1..n
            BY <5>3
          <6>2. w[i - 1] = g[i - 1]
            BY <6>1
          <6> QED BY <5>1, <5>3, <6>2, <1>5
        <5> QED BY <5>2, <5>3
      <4> QED BY <4>1, <4>2
    <3>3. u = FlatBody(lists, u)
      BY <3>2
    <3> HIDE DEF u, w
    <3>4. u = [i \in 1..n |-> IF i = 1 THEN lists[i] ELSE u[i - 1] \o lists[i]]
      BY <3>3, <1>10 DEF FlatBody
    <3> DEFINE Q == {i \in 0..n : i = 0 \/ u[i] = g[i]}
    <3>5. 0 \in Q
      OBVIOUS
    <3>6. \A k \in 0..n : k \in Q /\ k < n => k + 1 \in Q
      <4> SUFFICES ASSUME NEW k \in 0..n, k \in Q, k < n PROVE u[k + 1] = g[k + 1]
        OBVIOUS
      <4>1. k + 1 \in 1..n /\ (k + 1) - 1 = k
        OBVIOUS
      <4>2. g[k + 1] = g[k] \o lists[k + 1] /\ lists[k + 1] \in Seq(T)
        BY <1>5, <4>1
      <4>3. u[k + 1] = IF k + 1 = 1 THEN lists[k + 1] ELSE u[k] \o lists[k + 1]
        BY <3>4, <4>1
      <4>4. CASE k = 0
        BY <4>2, <4>3, <4>4, <1>5
      <4>5. CASE k # 0
        <5>1. u[k] = g[k] /\ k + 1 # 1
          BY <4>5
        <5> QED BY <4>2, <4>3, <5>1
      <4> QED BY <4>4, <4>5
    <3>7. Q = 0..n
      <4> HIDE DEF Q
      <4>1. Q \in SUBSET (0..n)
        BY DEF Q
      <4> QED BY <3>5, <3>6, <4>1, CountUp
    <3>8. u[n] = g[n]
      <4>1. n \in Q
        BY <3>7
      <4> QED BY <4>1, <2>2
    <3> QED BY <3>1, <3>8
  <2> QED BY <2>1, <2>2
<1>12. g[n] \in Seq(T)
  BY <1>5
<1> QED BY <1>1, <1>9, <1>11, <1>12 DEF EndToEnd

\* A slice of a sequence, by the items before it and the items in it.
LEMMA SliceIs ==
  ASSUME NEW T, NEW s \in Seq(T), NEW a \in Nat, NEW n \in Nat, a + n <= Len(s)
  PROVE  SubSeq(s, a + 1, a + n) = [j \in 1..n |-> s[a + j]]
<1>1. SubSeq(s, a + 1, a + n) = [j \in 1..((a + n) - (a + 1) + 1) |-> s[j + (a + 1) - 1]]
  OBVIOUS
<1>2. (a + n) - (a + 1) + 1 = n /\ \A j \in 1..n : j + (a + 1) - 1 = a + j
  OBVIOUS
<1> QED BY <1>1, <1>2

\* Lists laid end to end are taken apart again.
LEMMA LaidEndToEnd ==
  ASSUME NEW n \in Nat, NEW T, NEW lists \in [1..n -> Seq(T)],
         \A q \in 1..n : IsRankedSlice(lists[q])
  PROVE  FromSortedOffsetsHits(OffsetsOf(lists), SeqExt!FlattenSeq(lists)) = lists
<1> DEFINE lens == LengthsOf(n, lists)
           offsets == OffsetsOf(lists)
           hits == SeqExt!FlattenSeq(lists)
<1>1. Len(lists) = n /\ DOMAIN lists = 1..n
  BY LenOfFunction
<1>2. lens \in [1..n -> Int]
  BY DEF LengthsOf
<1>3. offsets = [q \in 1..(n + 1) |-> SumBefore(lens, q)]
  BY <1>1 DEF OffsetsOf, LengthsOf
<1>4. \A i \in 1..n : lens[i] = Len(lists[i])
  BY DEF LengthsOf
<1> HIDE DEF lens
<1>5. PICK f : Sums(lens, n, f)
  BY <1>2, SumsExist
<1>6. EndToEnd(n, T, lists, f, hits)
  BY <1>5, FlattenIs DEF lens
<1>7. \A q \in 1..(n + 1) : SumBefore(lens, q) = f[q - 1]
  BY <1>2, <1>5, SumBeforeIs
<1>8. offsets = [q \in 1..(n + 1) |-> f[q - 1]]
  BY <1>3, <1>7
<1> HIDE DEF offsets, hits
<1>9. /\ f \in [0..n -> Nat] /\ f[0] = 0
      /\ \A i \in 1..n : f[i] = f[i - 1] + Len(lists[i])
      /\ \A i, j \in 0..n : i <= j => f[i] <= f[j]
      /\ hits \in Seq(T) /\ Len(hits) = f[n]
      /\ \A i \in 1..n : \A j \in 1..Len(lists[i]) : hits[f[i - 1] + j] = lists[i][j]
  BY <1>4, <1>5, <1>6 DEF Sums, EndToEnd
<1>10. \A q \in 1..(n + 1) : q - 1 \in 0..n /\ f[q - 1] \in Nat
  <2>1. \A q \in 1..(n + 1) : q - 1 \in 0..n
    OBVIOUS
  <2>2. f \in [0..n -> Nat]
    BY <1>9
  <2> QED BY <2>1, <2>2
<1>11. offsets \in [1..(n + 1) -> Nat] /\ n + 1 \in Nat
  BY <1>8, <1>10
<1>12. Len(offsets) = n + 1 /\ offsets \in Seq(Nat)
  BY <1>11, LenOfFunction, ListIsSeq
<1>13. \A q \in 1..n : offsets[q] = f[q - 1] /\ offsets[q + 1] = f[q] /\ q - 1 \in 0..n /\ q \in 0..n
  <2> SUFFICES ASSUME NEW q \in 1..n
               PROVE offsets[q] = f[q - 1] /\ offsets[q + 1] = f[q] /\ q - 1 \in 0..n /\ q \in 0..n
    OBVIOUS
  <2>1. q \in 1..(n + 1) /\ q + 1 \in 1..(n + 1) /\ (q + 1) - 1 = q
    OBVIOUS
  <2> QED BY <1>8, <2>1
<1>14. (n + 1) - 1 = n
  OBVIOUS
<1>15. ValidOffsets(offsets, Len(hits))
  <2>1. offsets # <<>>
    BY <1>12
  <2>2. offsets[1] = 0
    <3>1. 1 \in 1..(n + 1) /\ 1 - 1 = 0
      OBVIOUS
    <3> QED BY <1>8, <1>9, <3>1
  <2>3. SeqExt!Last(offsets) = Len(hits)
    <3>1. SeqExt!Last(offsets) = offsets[n + 1]
      BY <1>12 DEF SeqExt!Last
    <3>2. n + 1 \in 1..(n + 1)
      OBVIOUS
    <3> QED BY <1>8, <1>9, <1>14, <3>1, <3>2
  <2>4. \A i \in 1..(Len(offsets) - 1) : offsets[i] <= offsets[i + 1]
    <3> SUFFICES ASSUME NEW i \in 1..n PROVE offsets[i] <= offsets[i + 1]
      BY <1>12, <1>14
    <3>1. offsets[i] = f[i - 1] /\ offsets[i + 1] = f[i] /\ i - 1 \in 0..n /\ i \in 0..n /\ i - 1 <= i
      BY <1>13
    <3> QED BY <1>9, <3>1
  <2> QED BY <2>1, <2>2, <2>3, <2>4 DEF ValidOffsets
<1>16. ASSUME NEW q \in 1..n PROVE SubSeq(hits, offsets[q] + 1, offsets[q + 1]) = lists[q]
  <2> DEFINE a == f[q - 1]
             b == f[q]
             list == lists[q]
             l == Len(list)
  <2>1. offsets[q] = a /\ offsets[q + 1] = b /\ a \in Nat /\ b \in Nat /\ b = a + l
    BY <1>9, <1>13
  <2>2. list \in Seq(T) /\ l \in Nat /\ list = [j \in 1..l |-> list[j]]
    OBVIOUS
  <2>3. \A j \in 1..l : hits[a + j] = list[j]
    BY <1>9
  <2> HIDE DEF a, b, list, l
  <2>4. hits \in Seq(T) /\ a \in Nat /\ l \in Nat /\ a + l <= Len(hits)
    <3>1. f[q] <= f[n] /\ Len(hits) = f[n] /\ hits \in Seq(T)
      BY <1>9
    <3> QED BY <2>1, <2>2, <3>1 DEF b
  <2>5. SubSeq(hits, a + 1, a + l) = [j \in 1..l |-> hits[a + j]]
    BY <2>4, SliceIs
  <2>6. SubSeq(hits, a + 1, b) = [j \in 1..l |-> list[j]]
    BY <2>1, <2>3, <2>5
  <2> QED BY <2>1, <2>2, <2>6 DEF list
<1>17. HitLists(offsets, hits) = lists
  <2>1. HitLists(offsets, hits)
          = [q \in 1..n |-> SubSeq(hits, offsets[q] + 1, offsets[q + 1])]
    BY <1>12, <1>14 DEF HitLists
  <2>2. lists = [q \in 1..n |-> lists[q]]
    OBVIOUS
  <2> QED BY <1>16, <2>1, <2>2
<1> QED BY <1>12, <1>14, <1>15, <1>17 DEF FromSortedOffsetsHits, offsets, hits

-----------------------------------------------------------------------------
(* Terms and documents                                                      *)

Terms == {w \in Words : IsNormalizedTerm(w)}

LEMMA NormalizeTermIs ==
  ASSUME NEW w \in Words
  PROVE  NormalizeTerm(w) = NoTerm \/ NormalizeTerm(w) \in Terms
<1> SUFFICES ASSUME w.form # "other", ~(TermLen(w) < 3) PROVE NormalizeTerm(w) \in Terms
  BY DEF NormalizeTerm
<1> DEFINE b == BaseLen[w.base]
           kept == IF b <= 4 THEN 4 - b ELSE 0
           s == IF w.s <= kept THEN w.s ELSE kept
           t == [w EXCEPT !.form = "lower", !.s = s]
<1>1. /\ w.base \in DOMAIN BaseLen /\ w.s \in Nat /\ b \in Nat /\ b + w.s >= 3
  BY BaseLengths DEF Words, TermLen
<1> HIDE DEF b
<1>2. Max({0, 4 - b}) = kept
  <2>1. 4 - b \in Int /\ 0 \in Int
    BY <1>1
  <2>2. Max({0, 4 - b}) = IF 0 >= 4 - b THEN 0 ELSE 4 - b
    BY <2>1, MaxOfTwo
  <2> QED BY <1>1, <2>2
<1>3. Min({w.s, Max({0, 4 - b})}) = s
  <2>1. kept \in Int /\ w.s \in Int
    BY <1>1
  <2> HIDE DEF kept
  <2> QED BY <1>2, <2>1, MinOfTwo
<1>4. NormalizeTerm(w) = t
  BY <1>3 DEF NormalizeTerm, b
<1>5. s \in Nat /\ b + s >= 3 /\ ~(b + s > 4 /\ s > 0)
  BY <1>1
<1> HIDE DEF s, kept
<1>6. t \in Words /\ t.form = "lower" /\ t.base = w.base /\ t.s = s
  BY <1>1, <1>5 DEF Words
<1> HIDE DEF t
<1>7. TermLen(t) = b + s
  BY <1>6 DEF TermLen, b
<1> QED BY <1>4, <1>5, <1>6, <1>7 DEF Terms, IsNormalizedTerm

LEMMA NoTermIsNone == NoTerm \notin Terms
  BY DEF NoTerm, Terms, IsNormalizedTerm

\* tokenize_text gives normalized terms.
LEMMA TokenizeIs ==
  ASSUME NEW kind, NEW text \in Texts
  PROVE  TokenizeText(kind, text) \in Seq(Terms)
<1> DEFINE n == Len(text)
           WordsOf(token) == <<token.whole>> \o (IF kind = "Simple" THEN <<>> ELSE token.parts)
           lists == [i \in DOMAIN text |-> WordsOf(text[i])]
           words == SeqExt!FlattenSeq(lists)
           terms == [i \in DOMAIN words |-> NormalizeTerm(words[i])]
           places == {i \in DOMAIN terms : terms[i] # NoTerm}
<1>1. n \in Nat /\ DOMAIN text = 1..n
  BY DEF Texts
<1>2. lists \in [1..n -> Seq(Words)]
  <2> SUFFICES ASSUME NEW i \in 1..n PROVE WordsOf(text[i]) \in Seq(Words)
    BY <1>1
  <2> DEFINE Tokens == [whole : Words, parts : Seq(Words)]
  <2>0. text \in Seq(Tokens)
    BY DEF Texts
  <2>1. text[i] \in Tokens
    <3> HIDE DEF Tokens
    <3> QED BY <1>1, <2>0
  <2>2. <<text[i].whole>> \in Seq(Words)
    BY <2>1
  <2>3. (IF kind = "Simple" THEN <<>> ELSE text[i].parts) \in Seq(Words)
    BY <2>1
  <2> QED BY <2>2, <2>3, ConcatIs
<1>3. TokenizeText(kind, text) = Kept(terms, places)
  BY DEF TokenizeText
<1> HIDE DEF lists, n
<1>4. words \in Seq(Words)
  <2> DEFINE lens == LengthsOf(n, lists)
  <2>1. lens \in [1..n -> Int]
    BY <1>2 DEF LengthsOf
  <2>2. PICK f : Sums(lens, n, f)
    <3> HIDE DEF lens
    <3> QED BY <1>1, <2>1, SumsExist
  <2>3. EndToEnd(n, Words, lists, f, words)
    BY <1>1, <1>2, <2>2, FlattenIs
  <2> QED BY <2>3 DEF EndToEnd
<1> HIDE DEF words
<1> DEFINE m == Len(words)
<1>5. m \in Nat /\ DOMAIN words = 1..m /\ \A i \in 1..m : words[i] \in Words
  BY <1>4
<1> HIDE DEF m
<1>6. /\ terms \in [1..m -> Terms \cup {NoTerm}]
      /\ places \in SUBSET (1..m)
      /\ \A i \in places : terms[i] \in Terms
  <2>1. \A i \in 1..m : terms[i] = NormalizeTerm(words[i])
    BY <1>5
  <2>2. \A i \in 1..m : terms[i] = NoTerm \/ terms[i] \in Terms
    BY <1>5, <2>1, NormalizeTermIs
  <2>3. DOMAIN terms = 1..m /\ terms = [i \in 1..m |-> terms[i]]
    BY <1>5
  <2> HIDE DEF terms
  <2> QED BY <2>2, <2>3
<1> HIDE DEF terms, places
<1>7. PICK k, order : KeptBy(terms, places, k, order)
  BY <1>5, <1>6, KeptIs
<1>8. Kept(terms, places) \in [1..k -> Terms]
  BY <1>6, <1>7 DEF KeptBy
<1>9. k \in Nat
  BY <1>7 DEF KeptBy
<1> QED BY <1>3, <1>8, <1>9, ListIsSeq

\* What a builder holds: documents with row IDs of their own
Pendings ==
  {p \in Seq([row_id : Nat, terms : Seq(Terms)]) :
     \A i, j \in DOMAIN p : p[i].row_id = p[j].row_id => i = j}

LEMMA AddTextIs ==
  ASSUME NEW pending \in Pendings, NEW kind, NEW doc \in [row_id : Nat, text : Texts]
  PROVE  AddText(pending, kind, doc) \in Pendings
<1>1. CASE \E i \in DOMAIN pending : pending[i].row_id = doc.row_id
  BY <1>1 DEF AddText
<1>2. CASE ~\E i \in DOMAIN pending : pending[i].row_id = doc.row_id
  <2> DEFINE R == [row_id : Nat, terms : Seq(Terms)]
             n == Len(pending)
             d == [row_id |-> doc.row_id, terms |-> TokenizeText(kind, doc.text)]
             q == Append(pending, d)
  <2>1. d \in R /\ d.row_id = doc.row_id
    BY TokenizeIs
  <2>2. pending \in Seq(R) /\ n \in Nat /\ DOMAIN pending = 1..n
    BY DEF Pendings
  <2>3. AddText(pending, kind, doc) = q
    BY <1>2 DEF AddText
  <2> HIDE DEF d, R
  <2>4. /\ q \in Seq(R) /\ Len(q) = n + 1 /\ DOMAIN q = 1..(n + 1) /\ q[n + 1] = d
        /\ \A i \in 1..n : q[i] = pending[i]
    BY <2>1, <2>2
  <2> HIDE DEF q, n
  <2>5. ASSUME NEW i \in DOMAIN q, NEW j \in DOMAIN q, q[i].row_id = q[j].row_id
        PROVE  i = j
    <3>1. (i \in 1..n \/ i = n + 1) /\ (j \in 1..n \/ j = n + 1)
      BY <2>2, <2>4
    <3>2. ~(i \in 1..n /\ j = n + 1) /\ ~(j \in 1..n /\ i = n + 1)
      BY <1>2, <2>1, <2>2, <2>4, <2>5
    <3>3. CASE i \in 1..n /\ j \in 1..n
      BY <2>2, <2>4, <2>5, <3>3 DEF Pendings
    <3> QED BY <3>1, <3>2, <3>3
  <2> QED BY <2>3, <2>4, <2>5 DEF Pendings, R
<1> QED BY <1>1, <1>2

PendingBody(corpus, u) ==
  [i \in 0..Len(corpus.docs) |->
     IF i = 0 THEN <<>> ELSE AddText(u[i - 1], corpus.tokenizer, corpus.docs[i])]

LEMMA PendingDocsIs ==
  ASSUME NEW corpus \in CorpusRecords
  PROVE  PendingDocs(corpus) \in Pendings
<1> DEFINE n == Len(corpus.docs)
           D == [row_id : Nat, text : Texts]
           step == [i \in 1..n |-> [x \in Pendings |->
                      AddText(x, corpus.tokenizer, corpus.docs[i])]]
<1>1. n \in Nat /\ \A i \in 1..n : corpus.docs[i] \in D
  <2>1. corpus.docs \in Seq(D)
    BY DEF CorpusRecords
  <2> HIDE DEF D
  <2> QED BY <2>1
<1>2. step \in [1..n -> [Pendings -> Pendings]]
  BY <1>1, AddTextIs
<1>3. <<>> \in Pendings
  BY DEF Pendings
<1> HIDE DEF n
<1>4. PICK f : Steps(f, n, Pendings, <<>>, step)
  <2> HIDE DEF step
  <2> QED BY <1>1, <1>2, <1>3, StepsExist
<1>5. /\ f \in [0..n -> Pendings] /\ f[0] = <<>>
      /\ \A i \in 1..n : f[i] = AddText(f[i - 1], corpus.tokenizer, corpus.docs[i])
  <2>1. f \in [0..n -> Pendings] /\ f[0] = <<>> /\ \A i \in 1..n : f[i] = step[i][f[i - 1]]
    <3> HIDE DEF step
    <3> QED BY <1>4 DEF Steps
  <2>2. ASSUME NEW i \in 1..n
        PROVE  f[i] = AddText(f[i - 1], corpus.tokenizer, corpus.docs[i])
    <3>1. i - 1 \in 0..n
      BY <1>1
    <3>2. f[i - 1] \in Pendings
      BY <2>1, <3>1
    <3> QED BY <2>1, <3>2
  <2> HIDE DEF step
  <2> QED BY <2>1, <2>2
<1> HIDE DEF step
<1> DEFINE u == CHOOSE u : u = PendingBody(corpus, u)
<1>6. PendingDocs(corpus) = u[n]
  BY DEF PendingDocs, PendingBody, n
<1>7. f = PendingBody(corpus, f)
  <2>1. f = [i \in 0..n |-> f[i]]
    BY <1>5
  <2>2. PendingBody(corpus, f) = [i \in 0..n |-> PendingBody(corpus, f)[i]]
    BY DEF PendingBody, n
  <2>3. \A i \in 0..n : f[i] = PendingBody(corpus, f)[i]
    <3> SUFFICES ASSUME NEW i \in 0..n PROVE f[i] = PendingBody(corpus, f)[i]
      OBVIOUS
    <3>1. i = 0 \/ (i # 0 /\ i \in 1..n)
      BY <1>1
    <3>2. PendingBody(corpus, f)[i] =
            IF i = 0 THEN <<>> ELSE AddText(f[i - 1], corpus.tokenizer, corpus.docs[i])
      BY DEF PendingBody, n
    <3> QED BY <1>5, <3>1, <3>2
  <2> QED BY <2>1, <2>2, <2>3
<1>8. u = PendingBody(corpus, u)
  BY <1>7
<1> HIDE DEF u
<1>9. u = [i \in 0..n |->
             IF i = 0 THEN <<>> ELSE AddText(u[i - 1], corpus.tokenizer, corpus.docs[i])]
  BY <1>8 DEF PendingBody, n
<1> DEFINE P == {i \in 0..n : u[i] = f[i]}
<1>10. 0 \in P
  BY <1>1, <1>5, <1>9
<1>11. \A k \in 0..n : k \in P /\ k < n => k + 1 \in P
  <2> SUFFICES ASSUME NEW k \in 0..n, u[k] = f[k], k < n PROVE u[k + 1] = f[k + 1]
    BY <1>1
  <2>1. k + 1 \in 1..n /\ (k + 1) - 1 = k /\ k + 1 \in 0..n /\ k + 1 # 0
    BY <1>1
  <2>2. f[k + 1] = AddText(f[k], corpus.tokenizer, corpus.docs[k + 1])
    BY <1>5, <2>1
  <2>3. u[k + 1] = AddText(u[k], corpus.tokenizer, corpus.docs[k + 1])
    BY <1>9, <2>1
  <2> QED BY <2>2, <2>3
<1>12. P = 0..n
  <2> HIDE DEF P
  <2>1. P \in SUBSET (0..n)
    BY DEF P
  <2> QED BY <1>1, <1>10, <1>11, <2>1, CountUp
<1>13. u[n] = f[n] /\ f[n] \in Pendings
  BY <1>1, <1>5, <1>12
<1> QED BY <1>6, <1>13

\* TermOrder lists each term of a finite set once, in the order of their bytes.
LEMMA TermOrderLists ==
  ASSUME NEW S, IsFiniteSet(S), S \subseteq Terms
  PROVE  /\ Cardinality(S) \in Nat
         /\ TermOrder(S) \in [1..Cardinality(S) -> S]
         /\ \A s \in S : \E i \in 1..Cardinality(S) : TermOrder(S)[i] = s
         /\ \A i, j \in 1..Cardinality(S) :
              i < j => TermBefore(TermOrder(S)[i], TermOrder(S)[j])
<1> DEFINE below == [s \in S |-> {t \in S : TermBefore(t, s)}]
           list == TermOrder(S)
<1>0. \A s \in S : /\ s.base \in Int /\ s.s \in Int
                   /\ s = [base |-> s.base, s |-> s.s, form |-> "lower"]
  <2> SUFFICES ASSUME NEW s \in S
               PROVE  /\ s.base \in Int /\ s.s \in Int
                      /\ s = [base |-> s.base, s |-> s.s, form |-> "lower"]
    OBVIOUS
  <2>1. s \in Words /\ s.form = "lower"
    BY DEF Terms, IsNormalizedTerm
  <2>2. s.base \in DOMAIN BaseLen
    BY <2>1 DEF Words
  <2> QED BY <2>1, <2>2, BaseLengths DEF Words
<1>1. below \in [S -> SUBSET S] /\ \A s, t \in S : t \in below[s] <=> TermBefore(t, s)
  OBVIOUS
<1>2. /\ \A s \in S : s \notin below[s]
      /\ \A s, t \in S : s # t => s \in below[t] \/ t \in below[s]
  BY <1>0, <1>1 DEF TermBefore
<1>3. \A s, t \in S : s \in below[t] => below[s] \subseteq below[t]
  <2> SUFFICES ASSUME NEW s \in S, NEW t \in S, s \in below[t], NEW u \in below[s]
               PROVE  u \in below[t]
    OBVIOUS
  <2>1. u \in S /\ TermBefore(u, s) /\ TermBefore(s, t)
    BY <1>1
  <2>2. TermBefore(u, t)
    BY <1>0, <2>1 DEF TermBefore
  <2> QED BY <1>1, <2>1, <2>2
<1>4. list = [i \in 1..Cardinality(S) |-> list[i]]
  <2> DEFINE term(i) == CHOOSE r \in S : Cardinality({t \in S : TermBefore(t, r)}) = i - 1
  <2>1. list = [i \in 1..Cardinality(S) |-> term(i)]
    BY DEF TermOrder
  <2> HIDE DEF list, term
  <2> QED BY <2>1
<1>5. \A i \in 1..Cardinality(S) : \A s \in S : Cardinality(below[s]) = i - 1 =>
         list[i] \in S /\ Cardinality(below[list[i]]) = i - 1
  <2> SUFFICES ASSUME NEW i \in 1..Cardinality(S), NEW s \in S, Cardinality(below[s]) = i - 1
               PROVE  list[i] \in S /\ Cardinality(below[list[i]]) = i - 1
    OBVIOUS
  <2>1. list[i] = CHOOSE term \in S : Cardinality({t \in S : TermBefore(t, term)}) = i - 1
    BY DEF TermOrder
  <2>2. Cardinality({t \in S : TermBefore(t, s)}) = i - 1
    OBVIOUS
  <2>3. list[i] \in S /\ Cardinality({t \in S : TermBefore(t, list[i])}) = i - 1
    <3> HIDE DEF list
    <3> QED BY <2>1, <2>2
  <2> QED BY <2>3
<1> HIDE DEF below, list
<1>6. /\ Cardinality(S) \in Nat
      /\ list \in [1..Cardinality(S) -> S]
      /\ \A s \in S : \E i \in 1..Cardinality(S) : list[i] = s
      /\ \A i, j \in 1..Cardinality(S) : i < j => list[i] \in below[list[j]]
  BY <1>1, <1>2, <1>3, <1>4, <1>5, CountingLists
<1>7. \A i, j \in 1..Cardinality(S) : i < j => TermBefore(list[i], list[j])
  BY <1>1, <1>6
<1> QED BY <1>6, <1>7 DEF list

\* What a list lists is finite.
LEMMA ListedIsFinite ==
  ASSUME NEW n \in Nat, NEW f, DOMAIN f = 1..n, f = [i \in 1..n |-> f[i]]
  PROVE  IsFiniteSet(Range(f))
<1> DEFINE T == Range(f)
<1>1. f \in [1..n -> T] /\ \A t \in T : \E i \in 1..n : f[i] = t
  BY DEF Range
<1> HIDE DEF T
<1>2. f \in Surjection(1..n, T)
  BY <1>1 DEF Surjection
<1>3. IsFiniteSet(1..n)
  BY FS_Interval
<1>4. IsFiniteSet(T)
  BY <1>2, <1>3, FS_Surjection
<1> QED BY <1>4 DEF T

LEMMA CountIs ==
  ASSUME NEW S, NEW seq \in Seq(S), NEW x
  PROVE  CountIn(seq, x) \in Nat /\ (CountIn(seq, x) > 0 <=> x \in Range(seq))
<1> DEFINE P == {i \in DOMAIN seq : seq[i] = x}
           n == Len(seq)
<1>1. n \in Nat /\ DOMAIN seq = 1..n
  OBVIOUS
<1>2. IsFiniteSet(1..n)
  BY <1>1, FS_Interval
<1>3. IsFiniteSet(P)
  BY <1>1, <1>2, FS_Subset
<1>4. P = {} <=> x \notin Range(seq)
  BY DEF Range
<1>5. CountIn(seq, x) = Cardinality(P)
  BY DEF CountIn
<1> HIDE DEF P
<1>6. Cardinality(P) \in Nat /\ (Cardinality(P) = 0 <=> P = {})
  BY <1>3, FS_CardinalityType, FS_EmptySet
<1> QED BY <1>4, <1>5, <1>6

CountsOf(seq, k, items) == [i \in 1..k |-> CountIn(seq, items[i])]

\* Counting each item of a list once more gives its length.
LEMMA CountsSum ==
  ASSUME NEW S, NEW seq \in Seq(S), NEW k \in Nat, NEW items \in [1..k -> S],
         IsInjective(items),
         Range(seq) \subseteq Range(items),
         NEW f, Sums(CountsOf(seq, k, items), k, f)
  PROVE  f[k] = Len(seq)
<1> DEFINE n == Len(seq)
           counts == CountsOf(seq, k, items)
           Of(i) == {p \in 1..n : seq[p] = items[i]}
           Upto(i) == {p \in 1..n : \E j \in 1..i : seq[p] = items[j]}
           g == [i \in 0..k |-> Cardinality(Upto(i))]
<1>1. n \in Nat /\ DOMAIN seq = 1..n
  OBVIOUS
<1>2. IsFiniteSet(1..n) /\ Cardinality(1..n) = n
  <2> HIDE DEF n
  <2>1. 1 \in Int /\ n \in Int
    BY <1>1
  <2>2. IsFiniteSet(1..n) /\ Cardinality(1..n) = IF 1 > n THEN 0 ELSE n - 1 + 1
    BY <2>1, FS_Interval
  <2> QED BY <1>1, <2>2
<1>3. \A i \in 0..k : IsFiniteSet(Upto(i)) /\ Cardinality(Upto(i)) \in Nat
  <2> SUFFICES ASSUME NEW i \in 0..k
               PROVE  IsFiniteSet(Upto(i)) /\ Cardinality(Upto(i)) \in Nat
    OBVIOUS
  <2>1. Upto(i) \in SUBSET (1..n)
    OBVIOUS
  <2> HIDE DEF Upto
  <2>2. IsFiniteSet(Upto(i))
    BY <1>2, <2>1, FS_Subset
  <2> QED BY <2>2, FS_CardinalityType
<1>4. \A i \in 1..k : IsFiniteSet(Of(i)) /\ counts[i] = Cardinality(Of(i))
  <2> SUFFICES ASSUME NEW i \in 1..k
               PROVE  IsFiniteSet(Of(i)) /\ counts[i] = Cardinality(Of(i))
    OBVIOUS
  <2>1. Of(i) \in SUBSET (1..n)
    OBVIOUS
  <2>2. counts[i] = Cardinality(Of(i))
    BY <1>1 DEF CountIn, CountsOf
  <2> HIDE DEF Of, counts
  <2> QED BY <1>2, <2>1, <2>2, FS_Subset
<1>5. Sums(counts, k, g)
  <2>1. g \in [0..k -> Int]
    <3> HIDE DEF Upto
    <3> QED BY <1>3
  <2>2. g[0] = 0
    <3>1. Upto(0) = {}
      OBVIOUS
    <3>2. Cardinality({}) = 0
      BY FS_EmptySet
    <3>3. g[0] = Cardinality(Upto(0))
      <4> HIDE DEF Upto
      <4> QED OBVIOUS
    <3> HIDE DEF Upto, g
    <3> QED BY <3>1, <3>2, <3>3
  <2>3. ASSUME NEW i \in 1..k PROVE g[i] = g[i - 1] + counts[i]
    <3>1. i \in 0..k /\ i - 1 \in 0..k
      OBVIOUS
    <3>2. Upto(i) = Upto(i - 1) \cup Of(i)
      <4>1. \A j \in 1..i : j \in 1..(i - 1) \/ j = i
        OBVIOUS
      <4>2. i \in 1..i /\ 1..(i - 1) \subseteq 1..i
        OBVIOUS
      <4> QED BY <4>1, <4>2
    <3>3. Upto(i - 1) \cap Of(i) = {}
      <4> SUFFICES ASSUME NEW p \in Upto(i - 1), p \in Of(i) PROVE FALSE
        OBVIOUS
      <4>1. PICK j \in 1..(i - 1) : seq[p] = items[j]
        OBVIOUS
      <4>2. j \in 1..k /\ items[j] = items[i] /\ j # i
        BY <4>1
      <4> QED BY <4>2 DEF IsInjective
    <3> HIDE DEF Upto, Of, counts
    <3>4. IsFiniteSet(Upto(i - 1)) /\ IsFiniteSet(Of(i))
      BY <1>3, <1>4, <3>1
    <3>5. Cardinality(Upto(i - 1) \cup Of(i))
            = Cardinality(Upto(i - 1)) + Cardinality(Of(i)) - Cardinality(Upto(i - 1) \cap Of(i))
      BY <3>4, FS_Union
    <3>6. Cardinality(Upto(i - 1) \cap Of(i)) = 0
      BY <3>3, FS_EmptySet
    <3>7. Cardinality(Of(i)) \in Nat /\ Cardinality(Upto(i - 1)) \in Nat
      BY <3>4, FS_CardinalityType
    <3>8. g[i] = Cardinality(Upto(i)) /\ g[i - 1] = Cardinality(Upto(i - 1))
      BY <3>1
    <3>9. counts[i] = Cardinality(Of(i))
      BY <1>4
    <3> HIDE DEF g
    <3>10. Cardinality(Upto(i)) = Cardinality(Upto(i - 1)) + Cardinality(Of(i))
      BY <3>2, <3>5, <3>6, <3>7
    <3> QED BY <3>8, <3>9, <3>10
  <2> HIDE DEF g, counts
  <2> QED BY <2>1, <2>2, <2>3 DEF Sums
<1>6. f[k] = g[k]
  <2>1. Sums(counts, k, f)
    OBVIOUS
  <2> HIDE DEF counts, g
  <2> QED BY <1>5, <2>1, SumsUnique
<1>7. Upto(k) = 1..n
  <2> SUFFICES ASSUME NEW p \in 1..n PROVE \E j \in 1..k : seq[p] = items[j]
    OBVIOUS
  <2> QED BY <1>1 DEF Range
<1>8. g[k] = n
  <2> HIDE DEF Upto
  <2>1. g[k] = Cardinality(Upto(k))
    OBVIOUS
  <2> HIDE DEF g
  <2> QED BY <1>2, <1>7, <2>1
<1> QED BY <1>6, <1>8

\* The postings of a term: one for each document that has it, in order.
IsPostings(pending, term, list) ==
  /\ list \in Seq([doc : 1..Len(pending), tf : Nat \ {0}])
  /\ \A i \in DOMAIN list : list[i].tf = CountIn(pending[list[i].doc].terms, term)
  /\ \A i, j \in DOMAIN list : i < j => list[i].doc < list[j].doc
  /\ \A d \in 1..Len(pending) :
       CountIn(pending[d].terms, term) > 0 => \E i \in DOMAIN list : list[i].doc = d

LEMMA PendingFacts ==
  ASSUME NEW pending \in Pendings
  PROVE  /\ Len(pending) \in Nat /\ DOMAIN pending = 1..Len(pending)
         /\ \A d \in 1..Len(pending) :
              pending[d].row_id \in Nat /\ pending[d].terms \in Seq(Terms)
<1> DEFINE R == [row_id : Nat, terms : Seq(Terms)]
<1>1. pending \in Seq(R)
  BY DEF Pendings
<1>2. \A r \in R : r.row_id \in Nat /\ r.terms \in Seq(Terms)
  OBVIOUS
<1> HIDE DEF R
<1> QED BY <1>1, <1>2

LEMMA PostingsAre ==
  ASSUME NEW pending \in Pendings, NEW term
  PROVE  IsPostings(pending, term, PostingsOf(pending, term))
<1> DEFINE n == Len(pending)
           Count(d) == CountIn(pending[d].terms, term)
           all == [d \in DOMAIN pending |-> [doc |-> d, tf |-> Count(d)]]
           docs == {d \in DOMAIN pending : Count(d) > 0}
           list == PostingsOf(pending, term)
<1>1. n \in Nat /\ DOMAIN pending = 1..n /\ \A d \in 1..n : pending[d].terms \in Seq(Terms)
  BY PendingFacts
<1>2. \A d \in 1..n : Count(d) \in Nat
  BY <1>1, CountIs
<1>3. list = Kept(all, docs)
  BY DEF PostingsOf
<1>4. \A d \in 1..n : all[d].doc = d /\ all[d].tf = Count(d) /\ all[d] = [doc |-> d, tf |-> Count(d)]
  BY <1>1
<1>5. /\ docs \in SUBSET (1..n) /\ \A d \in docs : Count(d) > 0
      /\ \A d \in 1..n : Count(d) > 0 => d \in docs
  BY <1>1
<1> HIDE DEF n, Count, all, docs, list
<1>6. PICK m, order : KeptBy(all, docs, m, order)
  BY <1>1, <1>5, KeptIs
<1>7. /\ m \in Nat /\ order \in [1..m -> docs]
      /\ \A p \in docs : \E i \in 1..m : order[i] = p
      /\ \A i, j \in 1..m : i < j => order[i] < order[j]
      /\ list = [i \in 1..m |-> all[order[i]]]
  BY <1>3, <1>6 DEF KeptBy
<1>8. DOMAIN list = 1..m /\ \A i \in 1..m :
        /\ order[i] \in docs /\ order[i] \in 1..n
        /\ list[i] = [doc |-> order[i], tf |-> Count(order[i])]
  BY <1>4, <1>5, <1>7
<1>9. list \in Seq([doc : 1..n, tf : Nat \ {0}])
  <2> DEFINE R == [doc : 1..n, tf : Nat \ {0}]
  <2>1. \A i \in 1..m : list[i] \in R
    BY <1>2, <1>5, <1>8
  <2> HIDE DEF R
  <2>2. list \in [1..m -> R]
    BY <1>7, <2>1
  <2>3. list \in Seq(R)
    BY <1>7, <2>2, ListIsSeq
  <2> QED BY <2>3 DEF R
<1>10. \A i \in 1..m : list[i].tf = CountIn(pending[list[i].doc].terms, term)
  BY <1>8 DEF Count
<1>11. \A i, j \in 1..m : i < j => list[i].doc < list[j].doc
  <2>1. \A i \in 1..m : list[i].doc = order[i]
    BY <1>8
  <2>2. \A i, j \in 1..m : i < j => order[i] < order[j]
    BY <1>7
  <2> QED BY <2>1, <2>2
<1>12. \A d \in 1..n : CountIn(pending[d].terms, term) > 0 => \E i \in 1..m : list[i].doc = d
  <2> SUFFICES ASSUME NEW d \in 1..n, Count(d) > 0 PROVE \E i \in 1..m : list[i].doc = d
    BY DEF Count
  <2>1. PICK i \in 1..m : order[i] = d
    BY <1>5, <1>7
  <2>2. list[i].doc = d
    BY <1>8, <2>1
  <2> QED BY <2>2
<1> QED BY <1>8, <1>9, <1>10, <1>11, <1>12 DEF IsPostings, n, list

LEMMA TermsAreFinite ==
  ASSUME NEW pending \in Pendings
  PROVE  /\ IsFiniteSet(TermsOf(pending)) /\ TermsOf(pending) \subseteq Terms
         /\ \A d \in DOMAIN pending : Range(pending[d].terms) \subseteq TermsOf(pending)
         /\ \A t \in TermsOf(pending) : \E d \in DOMAIN pending : t \in Range(pending[d].terms)
<1> DEFINE n == Len(pending)
           of == [d \in 1..n |-> Range(pending[d].terms)]
<1>1. n \in Nat /\ DOMAIN pending = 1..n /\ \A d \in 1..n : pending[d].terms \in Seq(Terms)
  BY PendingFacts
<1> HIDE DEF n
<1>2. \A d \in 1..n : IsFiniteSet(of[d]) /\ of[d] \subseteq Terms
  <2> SUFFICES ASSUME NEW d \in 1..n PROVE IsFiniteSet(of[d]) /\ of[d] \subseteq Terms
    OBVIOUS
  <2> DEFINE seq == pending[d].terms
             k == Len(seq)
  <2>1. seq \in Seq(Terms)
    BY <1>1
  <2> HIDE DEF seq
  <2>2. k \in Nat /\ DOMAIN seq = 1..k /\ seq = [i \in 1..k |-> seq[i]]
    BY <2>1
  <2>3. Range(seq) \subseteq Terms
    BY <2>1, <2>2 DEF Range
  <2> HIDE DEF k
  <2>4. IsFiniteSet(Range(seq))
    BY <2>2, ListedIsFinite
  <2> QED BY <2>3, <2>4 DEF seq
<1>3. TermsOf(pending) = UNION Range(of)
  BY <1>1 DEF TermsOf, Range
<1>4. IsFiniteSet(Range(of))
  <2>1. DOMAIN of = 1..n /\ of = [i \in 1..n |-> of[i]]
    OBVIOUS
  <2> HIDE DEF of
  <2> QED BY <1>1, <2>1, ListedIsFinite
<1>5. \A T \in Range(of) : IsFiniteSet(T)
  <2>1. DOMAIN of = 1..n
    OBVIOUS
  <2> HIDE DEF of
  <2> QED BY <1>2, <2>1 DEF Range
<1>6. IsFiniteSet(TermsOf(pending))
  BY <1>3, <1>4, <1>5, FS_UNION
<1>7. TermsOf(pending) \subseteq Terms
  BY <1>1, <1>2 DEF TermsOf
<1> QED BY <1>6, <1>7 DEF TermsOf

-----------------------------------------------------------------------------
(* The file of a builder                                                    *)

PostingRecords(pending) == [doc : 1..Len(pending), tf : Nat \ {0}]

\* The postings of k terms laid end to end, those of terms[i] up to ends[i],
\* and an entry for each.
Layout(pending, f, k, terms, lists, ends) ==
  /\ k \in Nat /\ terms \in [1..k -> Terms]
  /\ \A i, j \in 1..k : i < j => TermBefore(terms[i], terms[j])
  /\ \A d \in 1..Len(pending) : Range(pending[d].terms) \subseteq Range(terms)
  /\ lists \in [1..k -> Seq(PostingRecords(pending))]
  /\ \A i \in 1..k : Len(lists[i]) > 0 /\ IsPostings(pending, terms[i], lists[i])
  /\ Sums(LengthsOf(k, lists), k, ends)
  /\ ends \in [0..k -> Nat] /\ \A i, j \in 0..k : i <= j => ends[i] <= ends[j]
  /\ f.postings \in Seq(PostingRecords(pending)) /\ Len(f.postings) = ends[k]
  /\ \A i \in 1..k : \A j \in 1..Len(lists[i]) : f.postings[ends[i - 1] + j] = lists[i][j]
  /\ f.term_count = k
  /\ f.entries = [i \in 1..k |-> [term |-> terms[i], n |-> Len(lists[i]), at |-> ends[i - 1]]]

\* The header and the tables that list the documents
Documents(pending, f) ==
  /\ f.fixed = TRUE /\ f.file_len = FileLen(f)
  /\ f.doc_count = Len(pending) /\ f.postings_count = Len(f.postings)
  /\ f.row_ids = [i \in 1..Len(pending) |-> pending[i].row_id]
  /\ f.doc_lens = [i \in 1..Len(pending) |-> Len(pending[i].terms)]
  /\ f.total = SumOf(f.doc_lens)

LEMMA FileIs ==
  ASSUME NEW pending \in Pendings, NEW kind, NEW f, f = BuiltFile(kind, pending)
  PROVE  /\ Documents(pending, f)
         /\ \E k, terms, lists, ends : Layout(pending, f, k, terms, lists, ends)
<1> DEFINE S == TermsOf(pending)
           k == Cardinality(S)
           terms == TermOrder(S)
           lists == [i \in DOMAIN terms |-> PostingsOf(pending, terms[i])]
           lens == [i \in DOMAIN pending |-> Len(pending[i].terms)]
           counts == [j \in DOMAIN lists |-> Len(lists[j])]
           entries == [i \in DOMAIN terms |->
                         [term |-> terms[i], n |-> Len(lists[i]), at |-> SumBefore(counts, i)]]
           postings == SeqExt!FlattenSeq(lists)
           rows == [i \in DOMAIN pending |-> pending[i].row_id]
           g == [fixed |-> TRUE, tokenizer |-> kind,
                 doc_count |-> Len(pending), term_count |-> Len(terms),
                 postings_count |-> Len(postings), total |-> SumOf(lens),
                 file_len |-> 0, row_ids |-> rows, doc_lens |-> lens,
                 entries |-> entries, postings |-> postings]
<1>1. f = [g EXCEPT !.file_len = FileLen(g)]
  BY DEF BuiltFile
<1> HIDE DEF S, k, terms, lists, lens, counts, entries, postings, rows
<1>2. /\ f.fixed = TRUE /\ f.doc_count = Len(pending) /\ f.term_count = Len(terms)
      /\ f.postings_count = Len(postings) /\ f.total = SumOf(lens)
      /\ f.row_ids = rows /\ f.doc_lens = lens /\ f.entries = entries /\ f.postings = postings
      /\ f.file_len = FileLen(g)
  BY <1>1
<1>3. FileLen(f) = FileLen(g)
  <2>1. /\ g.row_ids = f.row_ids /\ g.doc_lens = f.doc_lens /\ g.entries = f.entries
        /\ g.postings = f.postings
    BY <1>2
  <2> HIDE DEF g
  <2> QED BY <2>1 DEF FileLen
<1> HIDE DEF g
<1>4. Documents(pending, f)
  <2>1. DOMAIN pending = 1..Len(pending)
    BY PendingFacts
  <2> QED BY <1>2, <1>3, <2>1 DEF Documents, lens, rows
<1>5. /\ k \in Nat /\ terms \in [1..k -> S]
      /\ \A s \in S : \E i \in 1..k : terms[i] = s
      /\ \A i, j \in 1..k : i < j => TermBefore(terms[i], terms[j])
  BY TermsAreFinite, TermOrderLists DEF S, k, terms
<1>6. S \subseteq Terms /\ DOMAIN terms = 1..k
  BY <1>5, TermsAreFinite DEF S
<1>7. Len(terms) = k
  BY <1>5, LenOfFunction
<1>8. \A i \in 1..k : lists[i] = PostingsOf(pending, terms[i]) /\ IsPostings(pending, terms[i], lists[i])
  BY <1>6, PostingsAre DEF lists
<1>9. lists \in [1..k -> Seq(PostingRecords(pending))]
  <2>1. lists = [i \in 1..k |-> lists[i]]
    BY <1>6 DEF lists
  <2>2. \A i \in 1..k : lists[i] \in Seq(PostingRecords(pending))
    BY <1>8 DEF IsPostings, PostingRecords
  <2> QED BY <2>1, <2>2
<1>10. \A i \in 1..k : Len(lists[i]) > 0
  <2> SUFFICES ASSUME NEW i \in 1..k PROVE Len(lists[i]) > 0
    OBVIOUS
  <2>1. terms[i] \in S
    BY <1>5
  <2>2. PICK d \in DOMAIN pending : terms[i] \in Range(pending[d].terms)
    BY <2>1, TermsAreFinite DEF S
  <2>3. d \in 1..Len(pending) /\ pending[d].terms \in Seq(Terms)
    BY <2>2, PendingFacts
  <2>4. CountIn(pending[d].terms, terms[i]) > 0
    BY <2>2, <2>3, CountIs
  <2>5. \E j \in DOMAIN lists[i] : lists[i][j].doc = d
    BY <1>8, <2>3, <2>4 DEF IsPostings
  <2>6. lists[i] \in Seq(PostingRecords(pending))
    BY <1>9
  <2> QED BY <2>5, <2>6
<1>11. counts = LengthsOf(k, lists) /\ counts \in [1..k -> Nat] /\ counts \in [1..k -> Int]
  <2>1. DOMAIN lists = 1..k
    BY <1>9
  <2>2. \A i \in 1..k : Len(lists[i]) \in Nat
    BY <1>9
  <2> QED BY <2>1, <2>2 DEF counts, LengthsOf
<1>12. PICK ends : Sums(counts, k, ends)
  BY <1>5, <1>11, SumsExist
<1>13. Sums(LengthsOf(k, lists), k, ends)
  BY <1>11, <1>12
<1>14. /\ ends \in [0..k -> Nat]
       /\ \A i, j \in 0..k : i <= j => ends[i] <= ends[j]
       /\ postings \in Seq(PostingRecords(pending)) /\ Len(postings) = ends[k]
       /\ \A i \in 1..k : \A j \in 1..Len(lists[i]) : postings[ends[i - 1] + j] = lists[i][j]
  <2> DEFINE R == PostingRecords(pending)
  <2>1. k \in Nat /\ lists \in [1..k -> Seq(R)]
    BY <1>5, <1>9
  <2> HIDE DEF R
  <2>2. EndToEnd(k, R, lists, ends, postings)
    BY <1>13, <2>1, FlattenIs DEF postings
  <2> QED BY <2>2 DEF EndToEnd, R
<1>15. entries = [i \in 1..k |-> [term |-> terms[i], n |-> Len(lists[i]), at |-> ends[i - 1]]]
  <2>1. \A i \in 1..k : SumBefore(counts, i) = ends[i - 1]
    BY <1>5, <1>11, <1>12, SumBeforeIs
  <2> QED BY <1>6, <2>1 DEF entries
<1>16. \A d \in 1..Len(pending) : Range(pending[d].terms) \subseteq Range(terms)
  <2>1. \A d \in 1..Len(pending) : Range(pending[d].terms) \subseteq S
    BY PendingFacts, TermsAreFinite DEF S
  <2>2. S \subseteq Range(terms)
    BY <1>5, <1>6 DEF Range
  <2> QED BY <2>1, <2>2
<1>17. terms \in [1..k -> Terms]
  BY <1>5, <1>6
<1>18. Layout(pending, f, k, terms, lists, ends)
  <2>1. /\ f.postings \in Seq(PostingRecords(pending)) /\ Len(f.postings) = ends[k]
        /\ \A i \in 1..k : \A j \in 1..Len(lists[i]) : f.postings[ends[i - 1] + j] = lists[i][j]
        /\ f.term_count = k
        /\ f.entries = [i \in 1..k |-> [term |-> terms[i], n |-> Len(lists[i]), at |-> ends[i - 1]]]
    BY <1>2, <1>7, <1>14, <1>15
  <2>2. \A i \in 1..k : Len(lists[i]) > 0 /\ IsPostings(pending, terms[i], lists[i])
    BY <1>8, <1>10
  <2>3. k \in Nat /\ \A i, j \in 1..k : i < j => TermBefore(terms[i], terms[j])
    BY <1>5
  <2>4. ends \in [0..k -> Nat] /\ \A i, j \in 0..k : i <= j => ends[i] <= ends[j]
    BY <1>14
  <2> QED BY <1>9, <1>13, <1>16, <1>17, <2>1, <2>2, <2>3, <2>4 DEF Layout
<1> QED BY <1>4, <1>18

\* The postings of entry i are those of term i.
EntryHolds(pending, f, terms, lists, ends, i) ==
  /\ f.entries[i].term = terms[i] /\ f.entries[i].n = Len(lists[i])
  /\ f.entries[i].at = ends[i - 1]
  /\ ends[i - 1] \in Nat /\ ends[i] = ends[i - 1] + Len(lists[i])
  /\ ends[i] <= Len(f.postings) /\ ends[i] \in Nat
  /\ lists[i] \in Seq(PostingRecords(pending)) /\ Len(lists[i]) \in Nat \ {0}
  /\ EntryPostings(f, f.entries[i]) = lists[i]

LEMMA EntryIs ==
  ASSUME NEW pending \in Pendings, NEW f, NEW k, NEW terms, NEW lists, NEW ends,
         Layout(pending, f, k, terms, lists, ends), NEW i \in 1..k
  PROVE  EntryHolds(pending, f, terms, lists, ends, i)
<1> DEFINE e == f.entries[i]
           n == Len(lists[i])
           at == ends[i - 1]
<1>1. k \in Nat /\ i - 1 \in 0..k /\ i \in 0..k /\ k \in 0..k
  BY DEF Layout
<1>2. DOMAIN f.entries = 1..k /\ e = [term |-> terms[i], n |-> n, at |-> at]
  BY DEF Layout
<1>3. /\ at \in Nat /\ ends[i] \in Nat /\ ends[i] <= ends[k] /\ ends[k] = Len(f.postings)
      /\ ends[i] = at + n
  <2>1. ends[i] = ends[i - 1] + Len(lists[i])
    BY DEF Layout, Sums, LengthsOf
  <2>2. ends \in [0..k -> Nat] /\ (\A a, b \in 0..k : a <= b => ends[a] <= ends[b])
        /\ ends[k] = Len(f.postings)
    BY DEF Layout
  <2> QED BY <1>1, <2>1, <2>2
<1>4. lists[i] \in Seq(PostingRecords(pending)) /\ n > 0
  BY DEF Layout
<1>5. n \in Nat \ {0} /\ lists[i] = [j \in 1..n |-> lists[i][j]]
  BY <1>4
<1>6. \A j \in 1..n : f.postings[at + j] = lists[i][j]
  BY DEF Layout
<1> HIDE DEF n, at
<1>7. EntryPostings(f, e) = [j \in 1..n |-> f.postings[at + j]]
  <2> DEFINE list == f.postings
  <2>1. list \in Seq(PostingRecords(pending))
    BY DEF Layout
  <2>2. EntryPostings(f, e) = SubSeq(list, at + 1, at + n)
    <3>1. e.at = at /\ e.n = n
      BY <1>2
    <3> HIDE DEF e
    <3> QED BY <3>1 DEF EntryPostings
  <2> HIDE DEF list
  <2>3. at + n <= Len(list)
    BY <1>3, <1>5 DEF list
  <2>4. SubSeq(list, at + 1, at + n) = [j \in 1..n |-> list[at + j]]
    BY <1>3, <1>5, <2>1, <2>3, SliceIs
  <2> QED BY <2>2, <2>4 DEF list
<1>8. EntryPostings(f, e) = lists[i]
  BY <1>5, <1>6, <1>7
<1> QED BY <1>2, <1>3, <1>4, <1>5, <1>8 DEF n, at, EntryHolds

LEMMA TableIsValid ==
  ASSUME NEW pending \in Pendings, NEW f, f.doc_count = Len(pending),
         NEW k, NEW terms, NEW lists, NEW ends,
         Layout(pending, f, k, terms, lists, ends)
  PROVE  ValidTermTable(f) /\ StrictlySorted(f) /\ f.term_count = Len(f.entries)
<1> DEFINE counts == [i \in DOMAIN f.entries |-> f.entries[i].n]
<1>1. k \in Nat /\ f.term_count = k
  BY DEF Layout
<1>2. DOMAIN f.entries = 1..k /\ f.entries = [i \in 1..k |-> f.entries[i]]
  BY DEF Layout
<1>3. Len(f.entries) = k
  BY <1>1, <1>2, LenOfFunction
<1>4. counts = LengthsOf(k, lists) /\ counts \in [1..k -> Int]
  <2>1. \A i \in 1..k : EntryHolds(pending, f, terms, lists, ends, i)
    BY EntryIs
  <2>2. \A i \in 1..k : f.entries[i].n = Len(lists[i]) /\ Len(lists[i]) \in Int
    BY <2>1 DEF EntryHolds
  <2> QED BY <1>2, <2>2 DEF LengthsOf
<1>5. Sums(counts, k, ends) /\ ends[k] = Len(f.postings)
  <2> HIDE DEF counts
  <2> QED BY <1>4 DEF Layout
<1> HIDE DEF counts
<1>6. SumOf(counts) = Len(f.postings)
  BY <1>1, <1>4, <1>5, SumIs
<1>7. ASSUME NEW i \in 1..k
      PROVE  /\ IsNormalizedTerm(f.entries[i].term)
             /\ EntryInRange(f, f.entries[i])
             /\ f.entries[i].at = SumBefore(counts, i)
             /\ f.entries[i].n > 0
             /\ ValidPostings(f, EntryPostings(f, f.entries[i]))
  <2> DEFINE list == lists[i]
             n == Len(list)
             e == f.entries[i]
  <2>0. EntryHolds(pending, f, terms, lists, ends, i)
    BY EntryIs
  <2>1. /\ e.term = terms[i] /\ e.n = n /\ e.at = ends[i - 1]
        /\ ends[i - 1] \in Nat /\ n \in Nat \ {0} /\ ends[i - 1] + n <= Len(f.postings)
        /\ list \in Seq(PostingRecords(pending)) /\ EntryPostings(f, e) = list
    BY <2>0 DEF EntryHolds
  <2>2. terms[i] \in Terms
    BY DEF Layout
  <2>3. SumBefore(counts, i) = ends[i - 1]
    BY <1>1, <1>4, <1>5, SumBeforeIs
  <2>4. IsPostings(pending, terms[i], list)
    BY DEF Layout
  <2> HIDE DEF list, e
  <2>5. DOMAIN list = 1..n
    BY <2>1
  <2>6. \A j \in 1..n : list[j].doc \in 1..f.doc_count /\ list[j].tf > 0
    <3>1. \A j \in 1..n : list[j] \in PostingRecords(pending)
      BY <2>1
    <3>2. \A r \in PostingRecords(pending) : r.doc \in 1..Len(pending) /\ r.tf > 0
      BY DEF PostingRecords
    <3> QED BY <3>1, <3>2
  <2>7. \A j \in 2..n : list[j - 1].doc < list[j].doc
    <3> SUFFICES ASSUME NEW j \in 2..n PROVE list[j - 1].doc < list[j].doc
      OBVIOUS
    <3>1. j - 1 \in 1..n /\ j \in 1..n /\ j - 1 < j
      BY <2>1
    <3>2. \A a, b \in 1..n : a < b => list[a].doc < list[b].doc
      BY <2>4, <2>5 DEF IsPostings
    <3> QED BY <3>1, <3>2
  <2>8. ValidPostings(f, list)
    BY <2>5, <2>6, <2>7 DEF ValidPostings
  <2> QED BY <2>1, <2>2, <2>3, <2>8 DEF e, Terms, EntryInRange
<1>8. ValidTermTable(f)
  BY <1>2, <1>6, <1>7 DEF ValidTermTable, counts
<1>9. StrictlySorted(f)
  <2> SUFFICES ASSUME NEW i \in 2..k
               PROVE  TermBefore(f.entries[i - 1].term, f.entries[i].term)
    BY <1>3 DEF StrictlySorted
  <2>1. i - 1 \in 1..k /\ i \in 1..k /\ i - 1 < i
    BY <1>1
  <2>2. /\ EntryHolds(pending, f, terms, lists, ends, i - 1)
        /\ EntryHolds(pending, f, terms, lists, ends, i)
    BY <2>1, EntryIs
  <2>3. f.entries[i - 1].term = terms[i - 1] /\ f.entries[i].term = terms[i]
    BY <2>2 DEF EntryHolds
  <2>4. \A a, b \in 1..k : a < b => TermBefore(terms[a], terms[b])
    BY DEF Layout
  <2> QED BY <2>1, <2>3, <2>4
<1> QED BY <1>1, <1>3, <1>8, <1>9

\* The postings of a document hold the length of its text.
LEMMA DocLenIs ==
  ASSUME NEW pending \in Pendings, NEW f, NEW k, NEW terms, NEW lists, NEW ends,
         Layout(pending, f, k, terms, lists, ends), NEW d \in 1..Len(pending)
  PROVE  ComputedDocLen(f, d) = Len(pending[d].terms)
<1> DEFINE n == Len(f.postings)
           tfs == [p \in DOMAIN f.postings |->
                     IF f.postings[p].doc = d THEN f.postings[p].tf ELSE 0]
           seq == pending[d].terms
           counts == CountsOf(seq, k, terms)
<1>1. /\ f.postings \in Seq(PostingRecords(pending)) /\ n \in Nat /\ DOMAIN f.postings = 1..n
      /\ k \in Nat /\ ends \in [0..k -> Nat] /\ ends[k] = n /\ ends[0] = 0
  <2>1. /\ f.postings \in Seq(PostingRecords(pending))
        /\ k \in Nat /\ ends \in [0..k -> Nat] /\ ends[k] = n /\ ends[0] = 0
    BY DEF Layout, Sums
  <2> DEFINE list == f.postings
  <2>2. list \in Seq(PostingRecords(pending))
    BY <2>1
  <2> HIDE DEF list
  <2>3. Len(list) \in Nat /\ DOMAIN list = 1..Len(list)
    BY <2>2
  <2> QED BY <2>1, <2>3 DEF list
<1>2. tfs \in [1..n -> Int] /\ \A p \in 1..n : f.postings[p] \in PostingRecords(pending)
  <2>1. \A p \in 1..n : f.postings[p] \in PostingRecords(pending)
    <3> DEFINE list == f.postings
    <3>1. list \in Seq(PostingRecords(pending)) /\ DOMAIN list = 1..n
      BY <1>1
    <3> HIDE DEF list, n
    <3> DEFINE R == PostingRecords(pending)
    <3> HIDE DEF R
    <3>2. list \in Seq(R)
      BY <3>1 DEF R
    <3>3. \A p \in DOMAIN list : list[p] \in R
      BY <3>2
    <3> QED BY <3>1, <3>3 DEF list, R
  <2>2. \A r \in PostingRecords(pending) : r.tf \in Int
    BY DEF PostingRecords
  <2>3. \A p \in 1..n : f.postings[p].tf \in Int
    BY <2>1, <2>2
  <2> HIDE DEF n
  <2> QED BY <1>1, <2>1, <2>3
<1>3. \A p \in 1..n : tfs[p] = IF f.postings[p].doc = d THEN f.postings[p].tf ELSE 0
  BY <1>1
<1>4. ComputedDocLen(f, d) = SumOf(tfs)
  BY DEF ComputedDocLen
<1> HIDE DEF n, tfs
<1>5. PICK h : Sums(tfs, n, h)
  BY <1>1, <1>2, SumsExist
<1>6. SumOf(tfs) = h[n]
  BY <1>1, <1>2, <1>5, SumIs
<1>7. seq \in Seq(Terms) /\ Range(seq) \subseteq Range(terms)
  BY PendingFacts DEF Layout
<1> HIDE DEF seq
<1> DEFINE g == [i \in 0..k |-> h[ends[i]]]
<1>8. ASSUME NEW i \in 1..k PROVE h[ends[i]] = h[ends[i - 1]] + counts[i]
  <2> DEFINE a == ends[i - 1]
             b == ends[i]
             list == lists[i]
             m == Len(list)
  <2>1. /\ a \in Nat /\ b = a + m /\ b <= n /\ m \in Nat /\ a \in 0..n /\ b \in 0..n /\ a <= b
        /\ list \in Seq(PostingRecords(pending)) /\ DOMAIN list = 1..m
    <3>0. EntryHolds(pending, f, terms, lists, ends, i)
      BY EntryIs
    <3>1. /\ ends[i - 1] \in Nat /\ ends[i] = ends[i - 1] + Len(lists[i])
          /\ ends[i] <= n /\ lists[i] \in Seq(PostingRecords(pending)) /\ Len(lists[i]) \in Nat
      BY <3>0 DEF EntryHolds, n
    <3> HIDE DEF list
    <3>2. list \in Seq(PostingRecords(pending)) => DOMAIN list = 1..Len(list)
      OBVIOUS
    <3> QED BY <1>1, <3>1, <3>2 DEF list
  <2>2. \A j \in 1..m : f.postings[a + j] = list[j]
    BY DEF Layout
  <2>3. IsPostings(pending, terms[i], list)
    BY DEF Layout
  <2>4. /\ \A j \in 1..m : list[j].tf = CountIn(pending[list[j].doc].terms, terms[i])
        /\ \A x, y \in 1..m : x < y => list[x].doc < list[y].doc
        /\ CountIn(seq, terms[i]) > 0 => \E j \in 1..m : list[j].doc = d
    BY <2>1, <2>3 DEF IsPostings, seq
  <2>5. counts[i] = CountIn(seq, terms[i]) /\ counts[i] \in Nat
    BY <1>7, CountIs DEF CountsOf
  <2>6. \A j \in 1..m : list[j].doc \in Int
    <3>1. \A j \in 1..m : list[j] \in PostingRecords(pending)
      BY <2>1
    <3>2. \A r \in PostingRecords(pending) : r.doc \in Int
      BY DEF PostingRecords
    <3> QED BY <3>1, <3>2
  <2> HIDE DEF a, b, list, m, counts
  <2>7. ASSUME NEW p \in (a + 1)..b
        PROVE  /\ p - a \in 1..m /\ p \in 1..n
               /\ tfs[p] = IF list[p - a].doc = d THEN list[p - a].tf ELSE 0
    <3>1. p - a \in 1..m /\ p \in 1..n /\ a + (p - a) = p
      <4>1. a \in Nat /\ b = a + m /\ b <= n /\ m \in Nat /\ n \in Nat
        BY <1>1, <2>1
      <4> QED BY <4>1
    <3>2. f.postings[p] = list[p - a]
      <4> DEFINE j == p - a
      <4>1. j \in 1..m /\ a + j = p
        BY <3>1
      <4> HIDE DEF j
      <4>2. f.postings[a + j] = list[j]
        BY <2>2, <4>1
      <4> QED BY <4>1, <4>2 DEF j
    <3> QED BY <1>3, <3>1, <3>2
  <2>8. CASE \E j \in 1..m : list[j].doc = d
    <3>1. PICK j \in 1..m : list[j].doc = d
      BY <2>8
    <3> DEFINE q == a + j
    <3>2. q \in (a + 1)..b /\ q - a = j
      BY <2>1
    <3>3. tfs[q] = CountIn(seq, terms[i])
      BY <2>4, <2>7, <3>1, <3>2 DEF seq
    <3>4. ASSUME NEW p \in (a + 1)..b, p # q PROVE tfs[p] = 0
      <4>1. p - a \in 1..m /\ p - a # j
        BY <2>1, <2>7, <3>4
      <4>2. list[p - a].doc # d
        <5>1. CASE p - a < j
          BY <2>4, <2>6, <3>1, <4>1, <5>1
        <5>2. CASE j < p - a
          BY <2>4, <2>6, <3>1, <4>1, <5>2
        <5> QED BY <2>1, <4>1, <5>1, <5>2
      <4> QED BY <2>7, <4>2
    <3> HIDE DEF q
    <3>5. OnlyAt(tfs, a, b, q)
      BY <3>2, <3>4 DEF OnlyAt
    <3>6. n \in Nat /\ a \in 0..n /\ b \in 0..n /\ tfs \in [1..n -> Int]
      BY <1>1, <1>2, <2>1
    <3>7. GrownBy(h, a, b, tfs[q])
      BY <1>5, <3>5, <3>6, SumOfOne
    <3> QED BY <2>5, <3>3, <3>7 DEF GrownBy, a, b
  <2>9. CASE ~\E j \in 1..m : list[j].doc = d
    <3>1. counts[i] = 0
      BY <2>4, <2>5, <2>9
    <3>2. NoneIn(tfs, a, b)
      BY <2>7, <2>9 DEF NoneIn
    <3>a. n \in Nat /\ a \in 0..n /\ b \in 0..n /\ a <= b /\ tfs \in [1..n -> Int]
      BY <1>1, <1>2, <2>1
    <3>3. h[b] = h[a]
      BY <1>5, <3>2, <3>a, SumOfZeros
    <3>4. h[a] \in Int
      BY <1>5, <2>1 DEF Sums
    <3> QED BY <3>1, <3>3, <3>4 DEF a, b
  <2> QED BY <2>8, <2>9
<1>9. Sums(counts, k, g)
  <2>1. \A i \in 0..k : ends[i] \in 0..n
    <3> SUFFICES ASSUME NEW i \in 0..k PROVE ends[i] \in 0..n
      OBVIOUS
    <3>1. ends[i] <= ends[k] /\ ends[i] \in Nat
      BY <1>1 DEF Layout
    <3> QED BY <1>1, <3>1
  <2>2. \A i \in 0..k : h[ends[i]] \in Int
    BY <1>5, <2>1 DEF Sums
  <2>3. g \in [0..k -> Int]
    BY <2>2
  <2>4. g[0] = 0
    BY <1>1, <1>5 DEF Sums
  <2>5. ASSUME NEW i \in 1..k PROVE g[i] = g[i - 1] + counts[i]
    <3>1. i - 1 \in 0..k /\ i \in 0..k
      BY <1>1
    <3>2. g[i] = h[ends[i]] /\ g[i - 1] = h[ends[i - 1]]
      BY <3>1
    <3> HIDE DEF g, counts
    <3> QED BY <1>8, <3>2
  <2> HIDE DEF g, counts
  <2> QED BY <2>3, <2>4, <2>5 DEF Sums
<1>10. IsInjective(terms)
  <2>0. DOMAIN terms = 1..k
    BY DEF Layout
  <2> SUFFICES ASSUME NEW i \in 1..k, NEW j \in 1..k, terms[i] = terms[j] PROVE i = j
    BY <2>0 DEF IsInjective
  <2>1. terms[i] \in Terms
    BY DEF Layout
  <2>2. /\ i < j => TermBefore(terms[i], terms[j])
        /\ j < i => TermBefore(terms[j], terms[i])
    BY DEF Layout
  <2>3. ~TermBefore(terms[i], terms[i])
    <3>1. terms[i].s \in Int /\ terms[i].base \in Int
      BY <2>1, BaseLengths DEF Terms, Words
    <3> QED BY <3>1 DEF TermBefore
  <2> QED BY <2>2, <2>3
<1>11. g[k] = Len(seq)
  <2> HIDE DEF g
  <2>1. terms \in [1..k -> Terms]
    BY DEF Layout
  <2> QED BY <1>1, <1>7, <1>9, <1>10, <2>1, CountsSum
<1>12. g[k] = h[n]
  BY <1>1
<1> QED BY <1>4, <1>6, <1>11, <1>12 DEF seq

\* A bundle with a term has a text that is not empty.
LEMMA TotalIsPositive ==
  ASSUME NEW pending \in Pendings, NEW f, Documents(pending, f),
         NEW k, NEW terms, NEW lists, NEW ends,
         Layout(pending, f, k, terms, lists, ends), k > 0
  PROVE  f.total > 0
<1> DEFINE n == Len(pending)
           lens == f.doc_lens
<1>1. n \in Nat /\ \A d \in 1..n : pending[d].terms \in Seq(Terms)
  BY PendingFacts
<1>2. lens = [d \in 1..n |-> Len(pending[d].terms)] /\ f.total = SumOf(lens)
  BY DEF Documents
<1>3. lens \in [1..n -> Nat] /\ lens \in [1..n -> Int]
  <2>1. \A d \in 1..n : Len(pending[d].terms) \in Nat
    BY <1>1
  <2> HIDE DEF lens
  <2> QED BY <1>2, <2>1
<1>4. 1 \in 1..k /\ 1 \in 1..1
  BY DEF Layout
<1>5. /\ Len(lists[1]) > 0 /\ IsPostings(pending, terms[1], lists[1])
      /\ lists[1] \in Seq(PostingRecords(pending))
  BY <1>4 DEF Layout
<1>6. 1 \in DOMAIN lists[1]
  BY <1>5
<1>7. lists[1][1] \in PostingRecords(pending)
  BY <1>5, <1>6
<1> DEFINE d == lists[1][1].doc
<1>8. d \in 1..n /\ lists[1][1].tf > 0
  BY <1>7 DEF PostingRecords
<1>9. lists[1][1].tf = CountIn(pending[d].terms, terms[1])
  BY <1>5, <1>6 DEF IsPostings
<1> HIDE DEF d, n, lens
<1>10. terms[1] \in Range(pending[d].terms)
  BY <1>1, <1>8, <1>9, CountIs
<1>11. Len(pending[d].terms) > 0
  <2>1. pending[d].terms \in Seq(Terms)
    BY <1>1, <1>8
  <2> QED BY <1>10, <2>1 DEF Range
<1>12. lens[d] > 0
  BY <1>2, <1>8, <1>11
<1>13. PICK h : Sums(lens, n, h)
  BY <1>1, <1>3, SumsExist
<1>14. SumOf(lens) = h[n]
  BY <1>1, <1>3, <1>13, SumIs
<1>15. h \in [0..n -> Nat] /\ \A i, j \in 0..n : i <= j => h[i] <= h[j]
  BY <1>1, <1>3, <1>13, SumsGrow
<1>16. h[d] = h[d - 1] + lens[d]
  BY <1>8, <1>13 DEF Sums
<1>17. /\ d \in 0..n /\ d - 1 \in 0..n /\ n \in 0..n /\ d <= n
  BY <1>1, <1>8
<1>18. h[d] <= h[n] /\ h[d - 1] \in Nat /\ h[d] \in Nat /\ h[n] \in Nat
  BY <1>15, <1>17
<1>19. lens[d] \in Nat
  BY <1>3, <1>8
<1>20. h[n] > 0
  BY <1>12, <1>16, <1>18, <1>19
<1> QED BY <1>2, <1>14, <1>20

LEMMA BuiltIsValid ==
  ASSUME NEW pending \in Pendings, NEW f, Documents(pending, f),
         NEW k, NEW terms, NEW lists, NEW ends,
         Layout(pending, f, k, terms, lists, ends)
  PROVE  HeaderParses(f) /\ ValidateLayout(f)
<1> DEFINE n == Len(pending)
<1>1. n \in Nat /\ DOMAIN pending = 1..n
  BY PendingFacts
<1>2. /\ f.fixed = TRUE /\ f.file_len = FileLen(f)
      /\ f.doc_count = n /\ f.postings_count = Len(f.postings)
      /\ f.row_ids = [i \in 1..n |-> pending[i].row_id]
      /\ f.doc_lens = [i \in 1..n |-> Len(pending[i].terms)]
      /\ f.total = SumOf(f.doc_lens)
  BY DEF Documents
<1>3. ValidTermTable(f) /\ StrictlySorted(f) /\ f.term_count = Len(f.entries)
  BY <1>2, TableIsValid
<1>4. k \in Nat /\ f.term_count = k /\ Len(f.postings) \in Nat
  <2>1. f.postings \in Seq(PostingRecords(pending))
    BY DEF Layout
  <2>2. Len(f.postings) \in Nat
    <3> DEFINE list == f.postings
    <3>1. list \in Seq(PostingRecords(pending))
      BY <2>1
    <3> HIDE DEF list
    <3>2. Len(list) \in Nat
      BY <3>1
    <3> QED BY <3>2 DEF list
  <2> QED BY <2>2 DEF Layout
<1> HIDE DEF n
<1>5. Len(f.row_ids) = n /\ Len(f.doc_lens) = n
  BY <1>1, <1>2, LenOfFunction
<1>6. SectionsFit(f)
  <2>1. f.postings_count <= Len(f.postings)
    BY <1>2, <1>4
  <2>2. f.doc_count = Len(f.row_ids) /\ f.doc_count = Len(f.doc_lens)
    BY <1>2, <1>5
  <2> QED BY <1>2, <1>3, <2>1, <2>2 DEF SectionsFit
<1>7. f.term_count > 0 => f.total > 0
  BY <1>4, TotalIsPositive
<1>8. IsInjective(f.row_ids)
  <2>1. \A i, j \in 1..n : pending[i].row_id = pending[j].row_id => i = j
    BY <1>1 DEF Pendings
  <2> QED BY <1>2, <2>1 DEF IsInjective
<1>9. \A d \in 1..f.doc_count : f.doc_lens[d] = ComputedDocLen(f, d)
  <2> SUFFICES ASSUME NEW d \in 1..n PROVE f.doc_lens[d] = ComputedDocLen(f, d)
    BY <1>2
  <2>1. ComputedDocLen(f, d) = Len(pending[d].terms)
    BY DocLenIs DEF n
  <2> QED BY <1>2, <2>1
<1> QED BY <1>2, <1>3, <1>6, <1>7, <1>8, <1>9 DEF HeaderParses, ValidateLayout

LEMMA WrittenIsValid ==
  ASSUME NEW corpus \in CorpusRecords, WrittenFile(corpus) # Err
  PROVE  /\ OpenIndex(WrittenFile(corpus)) # Err
         /\ \A i \in DOMAIN PendingDocs(corpus) :
              WrittenFile(corpus).row_ids[i] = PendingDocs(corpus)[i].row_id
<1> DEFINE pending == PendingDocs(corpus)
           f == WrittenFile(corpus)
<1>1. pending \in Pendings
  BY PendingDocsIs
<1>2. f = BuiltFile(corpus.tokenizer, pending)
  BY DEF WrittenFile
<1>3. f # Err
  OBVIOUS
<1> HIDE DEF pending, f
<1>4. /\ Documents(pending, f)
      /\ \E k, terms, lists, ends : Layout(pending, f, k, terms, lists, ends)
  BY <1>1, <1>2, FileIs
<1>5. PICK k, terms, lists, ends : Layout(pending, f, k, terms, lists, ends)
  BY <1>4
<1>6. HeaderParses(f) /\ ValidateLayout(f)
  BY <1>1, <1>4, <1>5, BuiltIsValid
<1>7. OpenIndex(f) # Err
  BY <1>3, <1>6 DEF OpenIndex
<1>8. \A i \in DOMAIN pending : f.row_ids[i] = pending[i].row_id
  <2>1. DOMAIN pending = 1..Len(pending)
    BY <1>1, PendingFacts
  <2> QED BY <1>4, <2>1 DEF Documents
<1> QED BY <1>7, <1>8 DEF pending, f

-----------------------------------------------------------------------------
(* The sparse file beside the bundle: until it is damaged it is what the    *)
(* builder made of one of the corpora.                                      *)

WrittenInv ==
  written.meant # None =>
    \E corpus \in Corpora \cup {FirstCorpus} :
      WrittenFile(corpus) # Err /\ written = Built(corpus)

LEMMA WrittenInit == Init => WrittenInv
  BY CorporaAreTexts DEF Init, WrittenInv

LEMMA WrittenKept ==
  ASSUME WrittenInv, UNCHANGED written
  PROVE  WrittenInv'
  BY DEF WrittenInv

LEMMA WrittenStep == WrittenInv /\ [Next]_vars => WrittenInv'
<1> SUFFICES ASSUME WrittenInv, [Next]_vars PROVE WrittenInv'
  OBVIOUS
<1>1. CASE UNCHANGED vars
  BY <1>1, WrittenKept DEF vars, hybridVars
<1>2. ASSUME NEW corpus \in Corpora, WriteMmap(corpus) PROVE WrittenInv'
  <2>1. CASE WrittenFile(corpus) = Err
    BY <1>2, <2>1, WrittenKept DEF WriteMmap
  <2>2. CASE WrittenFile(corpus) # Err
    <3>1. written' = Built(corpus) /\ corpus \in Corpora \cup {FirstCorpus}
      BY <1>2, <2>2 DEF WriteMmap
    <3> QED BY <2>2, <3>1 DEF WrittenInv
  <2> QED BY <2>1, <2>2
<1>3. CASE Damage
  BY <1>3 DEF Damage, WrittenInv
<1>4. CASE OpenSparseFile
  BY <1>4, WrittenKept DEF OpenSparseFile
<1>5. ASSUME NEW ids \in IdLists, PublishBundle(ids) PROVE WrittenInv'
  BY <1>5, WrittenKept DEF PublishBundle
<1>6. CASE OpenDense
  BY <1>6, WrittenKept DEF OpenDense
<1>7. CASE OpenSparseHalf
  BY <1>7, WrittenKept DEF OpenSparseHalf
<1>8. CASE CloseBundle
  BY <1>8, WrittenKept DEF CloseBundle
<1>9. ASSUME NEW record, LoadModel(record) PROVE WrittenInv'
  BY <1>9, WrittenKept DEF LoadModel
<1>10. CASE UNCHANGED hybridVars
  BY <1>10, WrittenKept DEF hybridVars
<1> QED BY <1>1, <1>2, <1>3, <1>4, <1>5, <1>6, <1>7, <1>8, <1>9, <1>10
        DEF Next, WithdrawBundle

LEMMA WrittenInvOpens == WrittenInv => WrittenFileOpens
<1> SUFFICES ASSUME WrittenInv, written.meant # None
             PROVE  /\ OpenIndex(written.file) # Err
                    /\ \A i \in DOMAIN written.meant :
                         written.file.row_ids[i] = written.meant[i].row_id
  BY DEF WrittenFileOpens
<1>1. PICK corpus \in Corpora \cup {FirstCorpus} :
        WrittenFile(corpus) # Err /\ written = Built(corpus)
  BY DEF WrittenInv
<1>2. corpus \in CorpusRecords
  BY CorporaAreTexts
<1>3. written.file = WrittenFile(corpus) /\ written.meant = PendingDocs(corpus)
  BY <1>1 DEF Built
<1> QED BY <1>1, <1>2, <1>3, WrittenIsValid

\* What write_mmap writes, open accepts, whatever the texts: validate_layout,
\* which recomputes every offset, document length and total and compares the
\* order of the terms, finds nothing to refuse in a file the builder made.
THEOREM WrittenFilesOpen == Spec => []WrittenFileOpens
<1>1. Init => WrittenInv
  BY WrittenInit
<1>2. WrittenInv /\ [Next]_vars => WrittenInv'
  BY WrittenStep
<1>3. WrittenInv => WrittenFileOpens
  BY WrittenInvOpens
<1> QED BY <1>1, <1>2, <1>3, PTL DEF Spec

-----------------------------------------------------------------------------
(* Sparse files, damaged or not                                             *)

EntryRecords == [term : Words, n : Nat, at : Nat]
PostingCells == [doc : Nat, tf : Nat]
NatLists == Seq(Nat)
EntryLists == Seq(EntryRecords)
PostingLists == Seq(PostingCells)

SparseFiles ==
  [fixed : BOOLEAN, tokenizer : TokenizerKinds, doc_count : Nat, term_count : Nat,
   postings_count : Nat, total : Nat, file_len : Nat, row_ids : NatLists, doc_lens : NatLists,
   entries : EntryLists, postings : PostingLists]

LEMMA SumIsNat ==
  ASSUME NEW n \in Nat, NEW seq \in [1..n -> Nat]
  PROVE  SumOf(seq) \in Nat
<1>1. seq \in [1..n -> Int]
  OBVIOUS
<1>2. PICK f : Sums(seq, n, f)
  BY <1>1, SumsExist
<1>3. SumOf(seq) = f[n]
  BY <1>1, <1>2, SumIs
<1>4. f \in [0..n -> Nat]
  BY <1>2, SumsGrow
<1> QED BY <1>3, <1>4

LEMMA FileLenIsNat ==
  ASSUME NEW f, f.row_ids \in NatLists, f.doc_lens \in NatLists,
         f.entries \in EntryLists, f.postings \in PostingLists
  PROVE  FileLen(f) \in Nat
<1> DEFINE entries == f.entries
           lens == [i \in DOMAIN entries |-> TermLen(entries[i].term)]
           n == Len(entries)
<1>1. entries \in Seq(EntryRecords)
  BY DEF EntryLists
<1>2. FileLen(f) = 128 + 8 * Len(f.row_ids) + 4 * Len(f.doc_lens) + 32 * n
                   + SumOf(lens) + 8 * Len(f.postings)
  BY DEF FileLen
<1> HIDE DEF entries
<1>3. n \in Nat /\ DOMAIN entries = 1..n /\ \A i \in 1..n : entries[i] \in EntryRecords
  BY <1>1
<1> HIDE DEF n
<1>4. \A i \in 1..n : TermLen(entries[i].term) \in Nat
  <2> SUFFICES ASSUME NEW i \in 1..n PROVE TermLen(entries[i].term) \in Nat
    OBVIOUS
  <2>1. entries[i].term \in Words
    BY <1>3 DEF EntryRecords
  <2>2. BaseLen[entries[i].term.base] \in Nat /\ entries[i].term.s \in Nat
    BY <2>1, BaseLengths DEF Words
  <2> QED BY <2>2 DEF TermLen
<1>5. lens \in [1..n -> Nat]
  BY <1>3, <1>4
<1> HIDE DEF lens
<1>6. SumOf(lens) \in Nat
  BY <1>3, <1>5, SumIsNat
<1>7. Len(f.row_ids) \in Nat /\ Len(f.doc_lens) \in Nat
  BY DEF NatLists
<1>8. Len(f.postings) \in Nat
  BY DEF PostingLists
<1> DEFINE a == Len(f.row_ids)
           b == Len(f.doc_lens)
           c == Len(f.postings)
           sum == SumOf(lens)
<1>9. /\ FileLen(f) = 128 + 8 * a + 4 * b + 32 * n + sum + 8 * c
      /\ a \in Nat /\ b \in Nat /\ c \in Nat /\ sum \in Nat
  BY <1>2, <1>6, <1>7, <1>8
<1> HIDE DEF a, b, c, sum
<1> QED BY <1>3, <1>9

LEMMA BuiltIsTyped ==
  ASSUME NEW pending \in Pendings, NEW kind \in TokenizerKinds,
         NEW f, f = BuiltFile(kind, pending)
  PROVE  f \in SparseFiles /\ Len(f.row_ids) = Len(pending)
<1> DEFINE n == Len(pending)
<1>1. /\ n \in Nat /\ DOMAIN pending = 1..n
      /\ \A d \in 1..n : pending[d].row_id \in Nat /\ pending[d].terms \in Seq(Terms)
  BY PendingFacts
<1>2. /\ Documents(pending, f)
      /\ \E k, terms, lists, ends : Layout(pending, f, k, terms, lists, ends)
  BY FileIs
<1>3. PICK k, terms, lists, ends : Layout(pending, f, k, terms, lists, ends)
  BY <1>2
<1>4. /\ f.fixed = TRUE /\ f.file_len = FileLen(f)
      /\ f.doc_count = n /\ f.postings_count = Len(f.postings)
      /\ f.row_ids = [i \in 1..n |-> pending[i].row_id]
      /\ f.doc_lens = [i \in 1..n |-> Len(pending[i].terms)]
      /\ f.total = SumOf(f.doc_lens)
  BY <1>2 DEF Documents
<1> HIDE DEF n
<1>5. f.row_ids \in [1..n -> Nat]
  BY <1>1, <1>4
<1>6. f.doc_lens \in [1..n -> Nat]
  <2>1. \A d \in 1..n : Len(pending[d].terms) \in Nat
    BY <1>1
  <2> QED BY <1>4, <2>1
<1>7. f.row_ids \in NatLists /\ f.doc_lens \in NatLists /\ Len(f.row_ids) = n
  <2>1. f.row_ids \in NatLists
    BY <1>1, <1>5, ListIsSeq DEF NatLists
  <2>2. f.doc_lens \in NatLists
    BY <1>1, <1>6, ListIsSeq DEF NatLists
  <2>3. Len(f.row_ids) = n
    BY <1>1, <1>5, LenOfFunction
  <2> QED BY <2>1, <2>2, <2>3
<1>8. f.total \in Nat
  BY <1>1, <1>4, <1>6, SumIsNat
<1>9. f.postings \in PostingLists /\ Len(f.postings) \in Nat
  <2>1. f.postings \in Seq(PostingRecords(pending))
    BY <1>3 DEF Layout
  <2>2. PostingRecords(pending) \subseteq PostingCells
    BY <1>1 DEF PostingRecords, PostingCells
  <2> DEFINE list == f.postings
  <2>3. list \in Seq(PostingRecords(pending))
    BY <2>1
  <2> HIDE DEF list
  <2>4. list \in Seq(PostingCells) /\ Len(list) \in Nat
    BY <2>2, <2>3
  <2> QED BY <2>4 DEF list, PostingLists
<1>10. k \in Nat /\ f.term_count = k
  BY <1>3 DEF Layout
<1>11. f.entries \in EntryLists
  <2>1. /\ f.entries = [i \in 1..k |-> [term |-> terms[i], n |-> Len(lists[i]), at |-> ends[i - 1]]]
        /\ terms \in [1..k -> Terms]
        /\ lists \in [1..k -> Seq(PostingRecords(pending))]
        /\ ends \in [0..k -> Nat]
    BY <1>3 DEF Layout
  <2>2. ASSUME NEW i \in 1..k
        PROVE  [term |-> terms[i], n |-> Len(lists[i]), at |-> ends[i - 1]] \in EntryRecords
    <3>1. terms[i] \in Words
      BY <2>1 DEF Terms
    <3>2. Len(lists[i]) \in Nat
      BY <2>1
    <3>3. ends[i - 1] \in Nat
      <4>1. i - 1 \in 0..k
        BY <1>10
      <4> QED BY <2>1, <4>1
    <3> QED BY <3>1, <3>2, <3>3 DEF EntryRecords
  <2>3. f.entries \in [1..k -> EntryRecords]
    BY <2>1, <2>2
  <2> QED BY <1>10, <2>3, ListIsSeq DEF EntryLists
<1>12. f.file_len \in Nat
  BY <1>4, <1>7, <1>9, <1>11, FileLenIsNat
<1>13. f \in SparseFiles
  <2> DEFINE w == [fixed |-> f.fixed, tokenizer |-> f.tokenizer, doc_count |-> f.doc_count,
                   term_count |-> f.term_count, postings_count |-> f.postings_count,
                   total |-> f.total, file_len |-> f.file_len, row_ids |-> f.row_ids,
                   doc_lens |-> f.doc_lens, entries |-> f.entries, postings |-> f.postings]
  <2>1. f = w /\ f.tokenizer = kind
    BY DEF BuiltFile
  <2>2. f.doc_count \in Nat /\ f.postings_count \in Nat /\ f.term_count \in Nat /\ f.fixed \in BOOLEAN
    BY <1>1, <1>4, <1>9, <1>10
  <2> HIDE DEF n
  <2>3. w \in SparseFiles
    BY <1>7, <1>8, <1>9, <1>11, <1>12, <2>1, <2>2 DEF SparseFiles
  <2> QED BY <2>1, <2>3
<1> QED BY <1>7, <1>13 DEF n

-----------------------------------------------------------------------------
(* Damage keeps the types, and the number of rows.                          *)

LEMMA OneChanged ==
  ASSUME NEW S, NEW list \in Seq(S), NEW i \in DOMAIN list, NEW x \in S
  PROVE  [list EXCEPT ![i] = x] \in Seq(S) /\ Len([list EXCEPT ![i] = x]) = Len(list)
  OBVIOUS

LEMMA FileFields ==
  ASSUME NEW f \in SparseFiles
  PROVE  /\ f.doc_count \in Nat /\ f.term_count \in Nat /\ f.row_ids \in Seq(Nat)
         /\ f.doc_lens \in Seq(Nat) /\ f.entries \in Seq(EntryRecords)
         /\ f.postings \in Seq(PostingCells)
         /\ \A i \in DOMAIN f.entries : f.entries[i] \in EntryRecords
         /\ \A i \in DOMAIN f.postings : f.postings[i] \in PostingCells
<1>1. /\ f.doc_count \in Nat /\ f.term_count \in Nat /\ f.row_ids \in NatLists
      /\ f.doc_lens \in NatLists /\ f.entries \in EntryLists /\ f.postings \in PostingLists
  BY DEF SparseFiles
<1> DEFINE entries == f.entries
           postings == f.postings
<1>2. entries \in Seq(EntryRecords) /\ postings \in Seq(PostingCells)
  BY <1>1 DEF EntryLists, PostingLists
<1> HIDE DEF entries, postings
<1>3. /\ \A i \in DOMAIN entries : entries[i] \in EntryRecords
      /\ \A i \in DOMAIN postings : postings[i] \in PostingCells
  BY <1>2
<1> QED BY <1>1, <1>2, <1>3 DEF NatLists, entries, postings

\* g is a sparse file with as many rows as f.
SameRows(f, g) == g \in SparseFiles /\ Len(g.row_ids) = Len(f.row_ids)

LEMMA FieldChanged ==
  ASSUME NEW f \in SparseFiles
  PROVE  /\ SameRows(f, [f EXCEPT !.fixed = FALSE])
         /\ \A n \in Nat : SameRows(f, [f EXCEPT !.file_len = n])
         /\ \A n \in Nat : SameRows(f, [f EXCEPT !.doc_count = n])
         /\ \A n \in Nat : SameRows(f, [f EXCEPT !.term_count = n])
         /\ \A n \in Nat : SameRows(f, [f EXCEPT !.postings_count = n])
         /\ \A n \in Nat : SameRows(f, [f EXCEPT !.total = n])
         /\ \A list \in NatLists : SameRows(f, [f EXCEPT !.doc_lens = list])
         /\ \A list \in EntryLists : SameRows(f, [f EXCEPT !.entries = list])
         /\ \A list \in PostingLists : SameRows(f, [f EXCEPT !.postings = list])
         /\ \A list \in NatLists :
              Len(list) = Len(f.row_ids) => SameRows(f, [f EXCEPT !.row_ids = list])
  BY DEF SameRows, SparseFiles

LEMMA EntryChanged ==
  ASSUME NEW f \in SparseFiles, NEW i \in DOMAIN f.entries, NEW e \in EntryRecords
  PROVE  SameRows(f, [f EXCEPT !.entries[i] = e])
<1>1. [f.entries EXCEPT ![i] = e] \in EntryLists
  <2> DEFINE list == f.entries
  <2>1. list \in Seq(EntryRecords) /\ i \in DOMAIN list
    BY FileFields
  <2> HIDE DEF list
  <2>2. [list EXCEPT ![i] = e] \in Seq(EntryRecords)
    BY <2>1, OneChanged
  <2> QED BY <2>2 DEF list, EntryLists
<1>2. [f EXCEPT !.entries[i] = e] = [f EXCEPT !.entries = [f.entries EXCEPT ![i] = e]]
  BY DEF SparseFiles
<1> QED BY <1>1, <1>2, FieldChanged

LEMMA PostingChanged ==
  ASSUME NEW f \in SparseFiles, NEW i \in DOMAIN f.postings, NEW p \in PostingCells
  PROVE  SameRows(f, [f EXCEPT !.postings[i] = p])
<1>1. [f.postings EXCEPT ![i] = p] \in PostingLists
  <2> DEFINE list == f.postings
  <2>1. list \in Seq(PostingCells) /\ i \in DOMAIN list
    BY FileFields
  <2> HIDE DEF list
  <2>2. [list EXCEPT ![i] = p] \in Seq(PostingCells)
    BY <2>1, OneChanged
  <2> QED BY <2>2 DEF list, PostingLists
<1>2. [f EXCEPT !.postings[i] = p] = [f EXCEPT !.postings = [f.postings EXCEPT ![i] = p]]
  BY DEF SparseFiles
<1> QED BY <1>1, <1>2, FieldChanged

LEMMA HeaderDamage ==
  ASSUME NEW f \in SparseFiles, NEW g \in DamagedHeaders(f)
  PROVE  SameRows(f, g)
<1>1. \A n : \A m \in Around(n) : m \in Nat
  BY DEF Around
<1> DEFINE WithFixed == [f EXCEPT !.fixed = FALSE]
           WithFileLen(n) == [f EXCEPT !.file_len = n]
           WithDocCount(n) == [f EXCEPT !.doc_count = n]
           WithTermCount(n) == [f EXCEPT !.term_count = n]
           WithPostingsCount(n) == [f EXCEPT !.postings_count = n]
           WithTotal(n) == [f EXCEPT !.total = n]
<1>2. /\ SameRows(f, WithFixed)
      /\ \A n \in Nat : SameRows(f, WithFileLen(n))
      /\ \A n \in Nat : SameRows(f, WithDocCount(n))
      /\ \A n \in Nat : SameRows(f, WithTermCount(n))
      /\ \A n \in Nat : SameRows(f, WithPostingsCount(n))
      /\ \A n \in Nat : SameRows(f, WithTotal(n))
  BY FieldChanged
<1>3. \/ g = WithFixed
      \/ \E n \in Around(f.file_len) : g = WithFileLen(n)
      \/ \E n \in Around(f.doc_count) : g = WithDocCount(n)
      \/ \E n \in Around(f.term_count) : g = WithTermCount(n)
      \/ \E n \in Around(f.postings_count) : g = WithPostingsCount(n)
      \/ \E n \in Around(f.total) : g = WithTotal(n)
  BY Zenon DEF DamagedHeaders
<1> HIDE DEF WithFixed, WithFileLen, WithDocCount, WithTermCount, WithPostingsCount, WithTotal
<1> QED BY <1>1, <1>2, <1>3

LEMMA DocDamage ==
  ASSUME NEW f \in SparseFiles, NEW g \in DamagedDocs(f)
  PROVE  SameRows(f, g)
<1> DEFINE Rows(i, id) == [f EXCEPT !.row_ids[i] = id]
           Lens(i, n) == [f EXCEPT !.doc_lens[i] = n]
<1>1. ASSUME NEW i \in DOMAIN f.row_ids, NEW id \in DOMAIN DenseScore
      PROVE  SameRows(f, Rows(i, id))
  <2> DEFINE list == f.row_ids
             g1 == [f EXCEPT !.row_ids[i] = id]
  <2>1. list \in Seq(Nat) /\ id \in Nat /\ i \in DOMAIN list
    BY FileFields, InputsAreTyped
  <2>2. g1 = [f EXCEPT !.row_ids = [list EXCEPT ![i] = id]]
    BY DEF SparseFiles
  <2> HIDE DEF list, g1
  <2>3. [list EXCEPT ![i] = id] \in Seq(Nat) /\ Len([list EXCEPT ![i] = id]) = Len(list)
    BY <2>1, OneChanged
  <2>4. SameRows(f, g1)
    BY <2>2, <2>3, FieldChanged DEF NatLists, list
  <2> QED BY <2>4 DEF g1
<1>2. ASSUME NEW i \in DOMAIN f.doc_lens, NEW n \in 0..3
      PROVE  SameRows(f, Lens(i, n))
  <2> DEFINE list == f.doc_lens
             g1 == [f EXCEPT !.doc_lens[i] = n]
  <2>1. list \in Seq(Nat) /\ n \in Nat /\ i \in DOMAIN list
    BY FileFields
  <2>2. g1 = [f EXCEPT !.doc_lens = [list EXCEPT ![i] = n]]
    BY DEF SparseFiles
  <2> HIDE DEF list, g1
  <2>3. [list EXCEPT ![i] = n] \in Seq(Nat)
    BY <2>1, OneChanged
  <2>4. SameRows(f, g1)
    BY <2>2, <2>3, FieldChanged DEF NatLists
  <2> QED BY <2>4 DEF g1
<1>3. \/ g \in {Rows(i, id) : i \in DOMAIN f.row_ids, id \in DOMAIN DenseScore}
      \/ g \in {Lens(i, n) : i \in DOMAIN f.doc_lens, n \in 0..3}
  BY DEF DamagedDocs
<1> HIDE DEF Rows, Lens
<1> QED BY <1>1, <1>2, <1>3

LEMMA PostingDamage ==
  ASSUME NEW f \in SparseFiles, NEW g \in DamagedPostings(f)
  PROVE  SameRows(f, g)
<1>1. ASSUME NEW i \in DOMAIN f.postings, NEW d \in 1..(f.doc_count + 1)
      PROVE  SameRows(f, [f EXCEPT !.postings[i].doc = d])
  <2>1. f.postings[i] \in PostingCells
    BY FileFields
  <2>2. [f.postings[i] EXCEPT !.doc = d] \in PostingCells
    BY <2>1 DEF PostingCells
  <2>3. [f EXCEPT !.postings[i].doc = d] = [f EXCEPT !.postings[i] = [f.postings[i] EXCEPT !.doc = d]]
    BY DEF SparseFiles
  <2> QED BY <2>2, <2>3, PostingChanged
<1>2. ASSUME NEW i \in DOMAIN f.postings, NEW n \in 0..MaxTf
      PROVE  SameRows(f, [f EXCEPT !.postings[i].tf = n])
  <2>1. f.postings[i] \in PostingCells
    BY FileFields
  <2>2. [f.postings[i] EXCEPT !.tf = n] \in PostingCells
    BY <2>1 DEF PostingCells
  <2>3. [f EXCEPT !.postings[i].tf = n] = [f EXCEPT !.postings[i] = [f.postings[i] EXCEPT !.tf = n]]
    BY DEF SparseFiles
  <2> QED BY <2>2, <2>3, PostingChanged
<1> QED BY <1>1, <1>2 DEF DamagedPostings

LEMMA EntryDamage ==
  ASSUME NEW f \in SparseFiles, NEW g \in DamagedEntries(f)
  PROVE  SameRows(f, g)
<1>1. PICK i \in DOMAIN f.entries : \E e \in DamagedEntry(f.entries[i]) : g = [f EXCEPT !.entries[i] = e]
  BY DEF DamagedEntries
<1>2. PICK e \in DamagedEntry(f.entries[i]) : g = [f EXCEPT !.entries[i] = e]
  BY <1>1
<1>3. f.entries[i] \in EntryRecords
  BY FileFields
<1>4. e \in EntryRecords
  BY <1>2, <1>3 DEF DamagedEntry, Around, EntryRecords, Words
<1> QED BY <1>2, <1>4, EntryChanged

LEMMA TermChanged ==
  ASSUME NEW f \in SparseFiles, NEW i \in DOMAIN f.entries, NEW term \in Words
  PROVE  SameRows(f, WithTerm(f, i, term)) /\ DOMAIN WithTerm(f, i, term).entries = DOMAIN f.entries
<1> DEFINE e == [f.entries[i] EXCEPT !.term = term]
           g == [f EXCEPT !.entries[i] = e]
<1>1. WithTerm(f, i, term) = g
  BY DEF WithTerm, SparseFiles
<1>2. DOMAIN g.entries = DOMAIN f.entries
  BY DEF SparseFiles
<1>3. e \in EntryRecords
  <2>1. f.entries[i] \in EntryRecords
    BY FileFields
  <2> QED BY <2>1 DEF EntryRecords
<1> HIDE DEF e
<1>4. SameRows(f, g)
  BY <1>3, EntryChanged
<1> QED BY <1>1, <1>2, <1>4

LEMMA SwapDamage ==
  ASSUME NEW f \in SparseFiles, NEW g \in SwappedTerms(f)
  PROVE  SameRows(f, g)
<1>1. PICK i \in DOMAIN f.entries, j \in DOMAIN f.entries :
        g = WithTerm(WithTerm(f, i, f.entries[j].term), j, f.entries[i].term)
  BY DEF SwappedTerms
<1> DEFINE first == WithTerm(f, i, f.entries[j].term)
           second == WithTerm(first, j, f.entries[i].term)
<1>2. f.entries[i].term \in Words /\ f.entries[j].term \in Words
  BY FileFields DEF EntryRecords
<1>3. SameRows(f, first) /\ DOMAIN first.entries = DOMAIN f.entries
  BY <1>2, TermChanged
<1> HIDE DEF first
<1>4. first \in SparseFiles /\ j \in DOMAIN first.entries
  BY <1>3 DEF SameRows
<1>5. SameRows(first, second)
  BY <1>2, <1>4, TermChanged
<1> HIDE DEF second
<1>6. SameRows(f, second)
  BY <1>3, <1>5 DEF SameRows
<1> QED BY <1>1, <1>6 DEF first, second

LEMMA CutDamage ==
  ASSUME NEW f \in SparseFiles, NEW g \in CutFiles(f)
  PROVE  SameRows(f, g)
<1> DEFINE list == f.postings
           short == SubSeq(list, 1, Len(list) - 1)
           cut == [f EXCEPT !.postings = short]
<1>1. list # <<>> /\ g \in {cut, [cut EXCEPT !.file_len = FileLen(cut)]}
  BY DEF CutFiles
<1>2. list \in Seq(PostingCells)
  BY FileFields
<1> HIDE DEF list
<1>3. short \in PostingLists
  <2>1. Len(list) \in Nat /\ Len(list) - 1 \in Int /\ Len(list) - 1 <= Len(list)
    BY <1>2
  <2> QED BY <1>2, <2>1 DEF PostingLists
<1> HIDE DEF short
<1>4. SameRows(f, cut)
  BY <1>3, FieldChanged
<1> HIDE DEF cut
<1>5. FileLen(cut) \in Nat
  <2>1. /\ cut.row_ids \in NatLists /\ cut.doc_lens \in NatLists
        /\ cut.entries \in EntryLists /\ cut.postings \in PostingLists
    BY <1>4 DEF SameRows, SparseFiles
  <2> QED BY <2>1, FileLenIsNat
<1>6. SameRows(cut, [cut EXCEPT !.file_len = FileLen(cut)])
  BY <1>4, <1>5, FieldChanged DEF SameRows
<1>7. SameRows(f, [cut EXCEPT !.file_len = FileLen(cut)])
  BY <1>4, <1>6 DEF SameRows
<1> QED BY <1>1, <1>4, <1>7

LEMMA DamageIsTyped ==
  ASSUME NEW f \in SparseFiles, NEW g \in DamagedFiles(f)
  PROVE  SameRows(f, g)
<1>1. \/ g \in DamagedHeaders(f) \/ g \in DamagedDocs(f) \/ g \in DamagedPostings(f)
      \/ g \in DamagedEntries(f) \/ g \in SwappedTerms(f) \/ g \in CutFiles(f)
  BY DEF DamagedFiles
<1> QED BY <1>1, HeaderDamage, DocDamage, PostingDamage, EntryDamage, SwapDamage, CutDamage

-----------------------------------------------------------------------------
(* Every file and every row list the system meets is typed: damage changes   *)
(* what a file says but not how many rows it has.                            *)

GoodFile(f) ==
  /\ f \in SparseFiles
  /\ \E corpus \in Corpora \cup {FirstCorpus} : Len(f.row_ids) = Len(PendingDocs(corpus))

RowLists == {ids \in Seq(DOMAIN DenseScore) : IsInjective(ids)}

DataInv ==
  /\ GoodFile(written.file) /\ GoodFile(published.sparse.file) /\ published.ids \in RowLists
  /\ halves # None => halves.ids \in RowLists
  /\ halves # None /\ halves.sparse # None =>
       GoodFile(halves.sparse.file) /\ OpenIndex(halves.sparse.file) # Err

LEMMA WrittenIsGood ==
  ASSUME NEW corpus \in Corpora \cup {FirstCorpus}, WrittenFile(corpus) # Err
  PROVE  GoodFile(WrittenFile(corpus))
<1>1. corpus \in CorpusRecords
  BY CorporaAreTexts
<1> DEFINE pending == PendingDocs(corpus)
           f == WrittenFile(corpus)
<1>2. pending \in Pendings
  BY <1>1, PendingDocsIs
<1>3. f = BuiltFile(corpus.tokenizer, pending) /\ corpus.tokenizer \in TokenizerKinds
  BY <1>1 DEF WrittenFile, CorpusRecords
<1> HIDE DEF pending, f
<1>4. f \in SparseFiles /\ Len(f.row_ids) = Len(pending)
  BY <1>2, <1>3, BuiltIsTyped
<1> QED BY <1>4 DEF GoodFile, f, pending

LEMMA FirstRows == WrittenFile(FirstCorpus).row_ids \in RowLists
<1> DEFINE f == WrittenFile(FirstCorpus)
           rows == f.row_ids
<1>1. f # Err /\ FirstCorpus \in CorpusRecords
  BY CorporaAreTexts
<1>2. OpenIndex(f) # Err /\ GoodFile(f)
  BY <1>1, WrittenIsValid, WrittenIsGood
<1>3. Range(rows) \subseteq DOMAIN DenseScore
  BY InputsAreTyped
<1> HIDE DEF f
<1>4. IsInjective(rows)
  BY <1>2 DEF OpenIndex, ValidateLayout
<1>5. rows \in Seq(Nat)
  BY <1>2, FileFields DEF GoodFile
<1> HIDE DEF rows
<1>6. rows \in Seq(DOMAIN DenseScore)
  <2>1. Len(rows) \in Nat /\ DOMAIN rows = 1..Len(rows) /\ rows = [i \in 1..Len(rows) |-> rows[i]]
    BY <1>5
  <2>2. \A i \in 1..Len(rows) : rows[i] \in DOMAIN DenseScore
    BY <1>3, <2>1 DEF Range
  <2> DEFINE n == Len(rows)
  <2> HIDE DEF n
  <2>3. rows \in [1..n -> DOMAIN DenseScore] /\ n \in Nat
    BY <2>1, <2>2 DEF n
  <2> QED BY <2>3, ListIsSeq
<1> QED BY <1>4, <1>6 DEF RowLists, rows, f

LEMMA DataInit == Init => DataInv
<1> SUFFICES ASSUME Init PROVE DataInv
  OBVIOUS
<1>1. /\ written = Built(FirstCorpus) /\ published = [ids |-> written.file.row_ids, sparse |-> written]
      /\ halves = None
  BY DEF Init
<1>2. written.file = WrittenFile(FirstCorpus)
  BY <1>1 DEF Built
<1>3. GoodFile(written.file)
  BY <1>2, CorporaAreTexts, WrittenIsGood
<1>4. published.sparse = written /\ published.ids = written.file.row_ids
  BY <1>1
<1>5. published.ids \in RowLists
  BY <1>2, <1>4, FirstRows
<1> QED BY <1>1, <1>3, <1>4, <1>5 DEF DataInv

LEMMA DataKept ==
  ASSUME DataInv, UNCHANGED <<written, published, halves>>
  PROVE  DataInv'
  BY DEF DataInv, GoodFile

LEMMA DataStep == HalvesInv /\ DataInv /\ [Next]_vars => DataInv'
<1> SUFFICES ASSUME HalvesInv, DataInv, [Next]_vars PROVE DataInv'
  OBVIOUS
<1>1. CASE UNCHANGED vars
  BY <1>1, DataKept DEF vars, hybridVars
<1>2. ASSUME NEW corpus \in Corpora, WriteMmap(corpus) PROVE DataInv'
  <2>1. UNCHANGED <<published, halves>>
    BY <1>2 DEF WriteMmap
  <2>2. CASE WrittenFile(corpus) = Err
    BY <1>2, <2>1, <2>2, DataKept DEF WriteMmap
  <2>3. CASE WrittenFile(corpus) # Err
    <3>1. written'.file = WrittenFile(corpus)
      BY <1>2, <2>3 DEF WriteMmap, Built
    <3>2. GoodFile(WrittenFile(corpus))
      BY <2>3, WrittenIsGood
    <3> QED BY <2>1, <3>1, <3>2 DEF DataInv, GoodFile
  <2> QED BY <2>2, <2>3
<1>3. CASE Damage
  <2>1. UNCHANGED <<published, halves>>
    BY <1>3 DEF Damage
  <2>2. PICK f \in DamagedFiles(written.file) : written' = [file |-> f, meant |-> None]
    BY <1>3 DEF Damage
  <2>3. SameRows(written.file, f)
    BY DamageIsTyped DEF DataInv, GoodFile
  <2>4. GoodFile(f)
    BY <2>3 DEF DataInv, GoodFile, SameRows
  <2>5. written'.file = f
    BY <2>2
  <2> QED BY <2>1, <2>4, <2>5 DEF DataInv, GoodFile
<1>4. CASE OpenSparseFile
  BY <1>4, DataKept DEF OpenSparseFile
<1>5. ASSUME NEW ids \in IdLists, PublishBundle(ids) PROVE DataInv'
  <2>1. /\ published' = [ids |-> ids, sparse |-> written] /\ UNCHANGED <<written, halves>>
    BY <1>5 DEF PublishBundle
  <2>2. ids \in RowLists
    BY InputsAreTyped DEF RowLists
  <2>3. published'.ids = ids /\ published'.sparse = written
    BY <2>1
  <2> QED BY <2>1, <2>2, <2>3 DEF DataInv, GoodFile
<1>6. CASE OpenDense
  <2>1. /\ halves' = [ids |-> published.ids, sparse |-> None]
        /\ UNCHANGED <<written, published>>
    BY <1>6 DEF OpenDense
  <2>2. halves'.ids = published.ids /\ halves'.sparse = None
    BY <2>1
  <2> QED BY <2>1, <2>2 DEF DataInv, GoodFile
<1>7. CASE OpenSparseHalf
  <2>1. /\ halves # None /\ UNCHANGED <<written, published>>
    BY <1>7 DEF OpenSparseHalf
  <2>2. CASE halves' = None
    BY <2>1, <2>2 DEF DataInv, GoodFile
  <2>3. CASE halves' # None
    <3>1. /\ halves' = [halves EXCEPT !.sparse = published.sparse]
          /\ OpenIndex(published.sparse.file) # Err
      BY <1>7, <2>3 DEF OpenSparseHalf
    <3>2. halves'.ids = halves.ids /\ halves'.sparse = published.sparse
      BY <2>1, <3>1 DEF HalvesInv
    <3> QED BY <2>1, <3>1, <3>2 DEF DataInv, GoodFile
  <2> QED BY <2>2, <2>3
<1>8. CASE CloseBundle
  BY <1>8 DEF CloseBundle, DataInv, GoodFile
<1>9. ASSUME NEW record, LoadModel(record) PROVE DataInv'
  BY <1>9, DataKept DEF LoadModel
<1>10. CASE UNCHANGED hybridVars
  BY <1>10, DataKept DEF hybridVars
<1> QED BY <1>1, <1>2, <1>3, <1>4, <1>5, <1>6, <1>7, <1>8, <1>9, <1>10
        DEF Next, WithdrawBundle

-----------------------------------------------------------------------------
(* Binary search                                                            *)

SearchStart(f) == [lo |-> 0, hi |-> f.term_count, at |-> NoEntry]

FindBody(f, term, u) ==
  [i \in 0..f.term_count |->
     IF i = 0 THEN SearchStart(f) ELSE SearchStep(f, term, u[i - 1])]

\* find_term goes through the states of g, all of them in X.
Searches(f, term, X, g) ==
  /\ g \in [0..f.term_count -> X] /\ g[0] = SearchStart(f)
  /\ \A i \in 1..f.term_count : g[i] = SearchStep(f, term, g[i - 1])
  /\ FindTerm(f, term) = g[f.term_count].at

LEMMA SearchExists ==
  ASSUME NEW f, f.term_count \in Nat, NEW term, NEW X, SearchStart(f) \in X,
         \A s \in X : SearchStep(f, term, s) \in X
  PROVE  \E g : Searches(f, term, X, g)
<1> DEFINE n == f.term_count
           step == [i \in 1..n |-> [s \in X |-> SearchStep(f, term, s)]]
           start == SearchStart(f)
<1>1. step \in [1..n -> [X -> X]]
  OBVIOUS
<1>2. start \in X /\ n \in Nat
  OBVIOUS
<1>3. PICK g : Steps(g, n, X, start, step)
  <2> HIDE DEF step, start, n
  <2> QED BY <1>1, <1>2, StepsExist
<1>4. /\ g \in [0..n -> X] /\ g[0] = start
      /\ \A i \in 1..n : g[i] = SearchStep(f, term, g[i - 1])
  <2>1. g \in [0..n -> X] /\ g[0] = start /\ \A i \in 1..n : g[i] = step[i][g[i - 1]]
    BY <1>3 DEF Steps
  <2>2. ASSUME NEW i \in 1..n PROVE g[i] = SearchStep(f, term, g[i - 1])
    <3>1. i - 1 \in 0..n
      OBVIOUS
    <3> HIDE DEF n
    <3>2. g[i - 1] \in X
      BY <2>1, <3>1
    <3> QED BY <2>1, <3>2
  <2> HIDE DEF step, start, n
  <2> QED BY <2>1, <2>2
<1> HIDE DEF step
<1> DEFINE u == CHOOSE u : u = FindBody(f, term, u)
<1>5. FindTerm(f, term) = u[n].at
  BY DEF FindTerm, FindBody, SearchStart
<1>6. g = FindBody(f, term, g)
  <2>1. g = [i \in 0..n |-> g[i]]
    BY <1>4
  <2>2. FindBody(f, term, g) = [i \in 0..n |-> FindBody(f, term, g)[i]]
    BY DEF FindBody
  <2>3. \A i \in 0..n : g[i] = FindBody(f, term, g)[i]
    <3> SUFFICES ASSUME NEW i \in 0..n PROVE g[i] = FindBody(f, term, g)[i]
      OBVIOUS
    <3>1. FindBody(f, term, g)[i] = IF i = 0 THEN start ELSE SearchStep(f, term, g[i - 1])
      BY DEF FindBody
    <3>2. i = 0 \/ i \in 1..n
      BY <1>2
    <3> HIDE DEF start, n
    <3> QED BY <1>4, <3>1, <3>2
  <2> QED BY <2>1, <2>2, <2>3
<1>7. u = FindBody(f, term, u)
  BY <1>6
<1> HIDE DEF u
<1>8. u = [i \in 0..n |-> IF i = 0 THEN start ELSE SearchStep(f, term, u[i - 1])]
  BY <1>7 DEF FindBody
<1> HIDE DEF start, n
<1> DEFINE P == {i \in 0..n : u[i] = g[i]}
<1>9. 0 \in P
  BY <1>2, <1>4, <1>8
<1>10. \A k \in 0..n : k \in P /\ k < n => k + 1 \in P
  <2> SUFFICES ASSUME NEW k \in 0..n, u[k] = g[k], k < n PROVE k + 1 \in P
    OBVIOUS
  <2>1. k + 1 \in 1..n /\ (k + 1) - 1 = k /\ k + 1 \in 0..n /\ k + 1 # 0
    BY <1>2
  <2>2. g[k + 1] = SearchStep(f, term, g[k])
    BY <1>4, <2>1
  <2>3. u[k + 1] = SearchStep(f, term, u[k])
    BY <1>8, <2>1
  <2> QED BY <2>1, <2>2, <2>3
<1>11. P = 0..n
  <2> HIDE DEF P
  <2>1. P \in SUBSET (0..n)
    BY DEF P
  <2> QED BY <1>2, <1>9, <1>10, <2>1, CountUp
<1>12. u[n] = g[n]
  <2>1. n \in P
    BY <1>2, <1>11
  <2> QED BY <2>1
<1>13. FindTerm(f, term) = g[n].at
  BY <1>5, <1>12
<1> QED BY <1>4, <1>13 DEF Searches, n, start

\* The states of the search: what is not yet excluded is in lo..hi.
SearchStates(f) ==
  {s \in [lo : 0..f.term_count, hi : 0..f.term_count, at : 0..f.term_count] : s.lo <= s.hi}

LEMMA HalfIs ==
  ASSUME NEW lo \in Nat, NEW hi \in Nat, lo < hi
  PROVE  LET mid == lo + (hi - lo) \div 2 IN mid \in Nat /\ lo <= mid /\ mid < hi
  OBVIOUS

LEMMA StepStays ==
  ASSUME NEW f, f.term_count \in Nat, NEW term, NEW s \in SearchStates(f)
  PROVE  SearchStep(f, term, s) \in SearchStates(f)
<1> DEFINE mid == s.lo + (s.hi - s.lo) \div 2
           n == f.term_count
<1>1. /\ s \in [lo : 0..n, hi : 0..n, at : 0..n] /\ s.lo <= s.hi /\ n \in Nat
      /\ s.lo \in 0..n /\ s.hi \in 0..n /\ s.at \in 0..n
  BY DEF SearchStates
<1>2. CASE s.lo >= s.hi
  BY <1>2 DEF SearchStep
<1>3. CASE ~(s.lo >= s.hi)
  <2>1. mid \in Nat /\ s.lo <= mid /\ mid < s.hi
    BY <1>1, <1>3, HalfIs
  <2>2. SearchStep(f, term, s) \in
          {[s EXCEPT !.lo = mid + 1], [s EXCEPT !.hi = mid], [lo |-> mid, hi |-> mid, at |-> mid + 1]}
    BY <1>3 DEF SearchStep
  <2> HIDE DEF mid, n
  <2>3. mid + 1 \in 0..n /\ mid \in 0..n /\ mid + 1 <= s.hi
    BY <1>1, <2>1
  <2> QED BY <1>1, <2>1, <2>2, <2>3 DEF SearchStates, n
<1> QED BY <1>2, <1>3

LEMMA FindTermIs ==
  ASSUME NEW f, f.term_count \in Nat, NEW term
  PROVE  FindTerm(f, term) \in 0..f.term_count
<1> DEFINE X == SearchStates(f)
<1>1. SearchStart(f) \in X
  BY DEF SearchStart, SearchStates, NoEntry
<1>2. \A s \in X : SearchStep(f, term, s) \in X
  BY StepStays
<1> HIDE DEF X
<1>3. PICK g : Searches(f, term, X, g)
  BY <1>1, <1>2, SearchExists
<1>4. g[f.term_count] \in X
  BY <1>3 DEF Searches
<1> QED BY <1>3, <1>4 DEF Searches, SearchStates, X

-----------------------------------------------------------------------------
(* The postings of a file that open accepts                                 *)

LEMMA PostingsFit ==
  ASSUME NEW n \in Nat, NEW list \in Seq(PostingCells),
         \A i \in DOMAIN list : list[i].doc \in 1..n,
         \A i \in 2..Len(list) : list[i - 1].doc < list[i].doc
  PROVE  Len(list) <= n
<1> DEFINE m == Len(list)
           P == {i \in 0..m : i = 0 \/ i <= list[i].doc}
<1>1. m \in Nat /\ DOMAIN list = 1..m
  OBVIOUS
<1>2. \A i \in 1..m : list[i].doc \in 1..n
  BY <1>1
<1>3. \A i \in 2..m : list[i - 1].doc < list[i].doc
  OBVIOUS
<1> HIDE DEF m
<1>4. 0 \in P
  BY <1>1
<1>5. \A k \in 0..m : k \in P /\ k < m => k + 1 \in P
  <2> SUFFICES ASSUME NEW k \in 0..m, k = 0 \/ k <= list[k].doc, k < m
               PROVE  k + 1 \in 0..m /\ k + 1 <= list[k + 1].doc
    OBVIOUS
  <2>1. k + 1 \in 1..m /\ (k + 1) - 1 = k /\ k + 1 \in 0..m
    BY <1>1
  <2>2. list[k + 1].doc \in 1..n
    BY <1>2, <2>1
  <2>3. CASE k = 0
    BY <2>1, <2>2, <2>3
  <2>4. CASE k # 0
    <3>1. k + 1 \in 2..m /\ k \in 1..m
      BY <1>1, <2>4
    <3>2. list[k].doc < list[k + 1].doc
      BY <1>3, <2>1, <3>1
    <3>3. list[k].doc \in 1..n
      BY <1>2, <3>1
    <3> QED BY <2>1, <2>2, <2>4, <3>2, <3>3
  <2> QED BY <2>3, <2>4
<1>6. P = 0..m
  <2> HIDE DEF P
  <2>1. P \in SUBSET (0..m)
    BY DEF P
  <2> QED BY <1>1, <1>4, <1>5, <2>1, CountUp
<1>7. CASE m = 0
  BY <1>7 DEF m
<1>8. CASE m # 0
  <2>1. m \in 1..m /\ m \in P
    BY <1>1, <1>6, <1>8
  <2>2. m <= list[m].doc /\ list[m].doc \in 1..n
    BY <1>2, <1>8, <2>1
  <2>3. m <= n
    BY <1>1, <2>2
  <2> QED BY <2>3 DEF m
<1> QED BY <1>7, <1>8

\* The postings of entry i of a file f that open accepts
PostingsHold(f, i) ==
  LET e == f.entries[i]
      list == EntryPostings(f, e)
  IN /\ e.n \in 1..f.doc_count /\ e.at \in Nat /\ e.at + e.n <= Len(f.postings)
     /\ list \in Seq(PostingCells) /\ Len(list) = e.n
     /\ \A j \in 1..e.n : /\ list[j] = f.postings[e.at + j]
                          /\ list[j].doc \in 1..f.doc_count /\ list[j].tf \in Nat \ {0}
     /\ \A j \in 2..e.n : list[j - 1].doc < list[j].doc

LEMMA AcceptedPostings ==
  ASSUME NEW f \in SparseFiles, ValidateLayout(f), NEW i \in DOMAIN f.entries
  PROVE  PostingsHold(f, i)
<1> DEFINE e == f.entries[i]
           list == EntryPostings(f, e)
           all == f.postings
           d == f.doc_count
<1>1. /\ e \in EntryRecords /\ all \in Seq(PostingCells) /\ d \in Nat
  BY FileFields
<1>2. e.n \in Nat /\ e.at \in Nat
  BY <1>1 DEF EntryRecords
<1>3. /\ e.at + e.n <= Len(all) /\ e.n > 0
      /\ \A j \in DOMAIN list : list[j].doc \in 1..d /\ list[j].tf > 0
      /\ \A j \in 2..Len(list) : list[j - 1].doc < list[j].doc
  <2>1. /\ EntryInRange(f, e) /\ e.n > 0 /\ ValidPostings(f, list)
    BY DEF ValidateLayout, ValidTermTable
  <2> HIDE DEF e, list
  <2> QED BY <2>1 DEF EntryInRange, ValidPostings
<1>4. list = SubSeq(all, e.at + 1, e.at + e.n)
  BY DEF EntryPostings
<1> HIDE DEF e, list, all, d
<1> DEFINE a == e.at
           n == e.n
<1>5. a \in Nat /\ n \in Nat /\ a + n <= Len(all)
  BY <1>2, <1>3
<1>6. list = SubSeq(all, a + 1, a + n)
  BY <1>4
<1> HIDE DEF a, n
<1>7. SubSeq(all, a + 1, a + n) = [j \in 1..n |-> all[a + j]]
  BY <1>1, <1>5, SliceIs
<1>8. list = [j \in 1..n |-> all[a + j]]
  BY <1>6, <1>7
<1>9. \A j \in 1..n : all[a + j] \in PostingCells
  <2>1. Len(all) \in Nat /\ DOMAIN all = 1..Len(all) /\ \A k \in DOMAIN all : all[k] \in PostingCells
    BY <1>1
  <2>2. \A j \in 1..n : a + j \in 1..Len(all)
    BY <1>5, <2>1
  <2> QED BY <2>1, <2>2
<1>10. list \in [1..n -> PostingCells]
  BY <1>8, <1>9
<1>11. list \in Seq(PostingCells) /\ DOMAIN list = 1..n /\ Len(list) = n
  <2>1. list \in Seq(PostingCells)
    BY <1>5, <1>10, ListIsSeq
  <2>2. DOMAIN list = 1..n /\ list = [j \in 1..n |-> list[j]]
    BY <1>10
  <2>3. Len(list) = n
    BY <1>5, <2>2, LenOfFunction
  <2> QED BY <2>1, <2>2, <2>3
<1>12. n <= d
  BY <1>1, <1>3, <1>11, PostingsFit
<1>13. \A j \in 1..n : list[j].tf \in Nat \ {0}
  <2>1. \A j \in 1..n : list[j].tf > 0
    BY <1>3, <1>11
  <2>2. \A j \in 1..n : list[j].tf \in Nat
    BY <1>10 DEF PostingCells
  <2> QED BY <2>1, <2>2
<1>14. n \in 1..d
  BY <1>1, <1>3, <1>5, <1>12 DEF n
<1> QED BY <1>2, <1>3, <1>8, <1>11, <1>13, <1>14 DEF PostingsHold, e, list, all, d, a, n

-----------------------------------------------------------------------------
(* Scores                                                                   *)

LEMMA QuotientIsInt ==
  ASSUME NEW a \in Int, NEW b \in Nat, b > 0
  PROVE  a \div b \in Int
  OBVIOUS

LEMMA ProductIsNat ==
  ASSUME NEW a \in Nat, NEW b \in Nat
  PROVE  a * b \in Nat
  OBVIOUS

LEMMA ProductIsInt ==
  ASSUME NEW a \in Int, NEW b \in Int
  PROVE  a * b \in Int
  OBVIOUS

LEMMA WeightIs ==
  ASSUME NEW n \in Nat, n > 0, NEW df, Idf[n][df] \in Int, NEW tf \in Nat, NEW len \in Nat,
         NEW total \in Nat
  PROVE  Weight(n, df, tf, len, total) \in Int
<1> DEFINE floor == Max({total, n})
           idf == Idf[n][df]
           above == idf * tf * 22 * floor
           a == 10 * tf * floor
           b == 9 * len * n
           below == a + 3 * floor + b
<1>1. Weight(n, df, tf, len, total) = above \div below
  BY DEF Weight
<1>2. floor \in Nat /\ floor > 0
  <2>1. floor = IF total >= n THEN total ELSE n
    BY MaxOfTwo
  <2> HIDE DEF floor
  <2> QED BY <2>1
<1>3. idf \in Int
  OBVIOUS
<1> HIDE DEF floor, idf
<1>4. above \in Int
  <2>1. idf * tf \in Int
    BY <1>3, ProductIsInt
  <2>2. idf * tf * 22 \in Int
    BY <2>1
  <2> QED BY <1>2, <2>2, ProductIsInt
<1>5. a \in Nat /\ b \in Nat
  <2>1. 10 * tf \in Nat /\ 9 * len \in Nat
    OBVIOUS
  <2> QED BY <1>2, <2>1, ProductIsNat
<1> HIDE DEF above, a, b
<1>6. below \in Nat /\ below > 0
  BY <1>2, <1>5
<1> HIDE DEF below
<1> QED BY <1>1, <1>4, <1>6, QuotientIsInt

LEMMA SumIsInt ==
  ASSUME NEW n \in Nat, NEW seq \in [1..n -> Int]
  PROVE  SumOf(seq) \in Int
<1>1. PICK f : Sums(seq, n, f)
  BY SumsExist
<1>2. SumOf(seq) = f[n] /\ f \in [0..n -> Int]
  BY <1>1, SumIs DEF Sums
<1> QED BY <1>2

\* Idf is given for the documents of a file.
IdfFits(f) == \A df \in 1..f.doc_count : Idf[f.doc_count][df] \in Int

LEMMA GoodIdf ==
  ASSUME NEW f, GoodFile(f), ValidateLayout(f)
  PROVE  IdfFits(f)
<1>1. PICK corpus \in Corpora \cup {FirstCorpus} : Len(f.row_ids) = Len(PendingDocs(corpus))
  BY DEF GoodFile
<1>2. f.doc_count = Len(PendingDocs(corpus))
  BY <1>1 DEF ValidateLayout, SectionsFit
<1>3. \A df \in 1..Len(PendingDocs(corpus)) : Idf[Len(PendingDocs(corpus))][df] \in Int
  BY IdfIsGiven
<1> QED BY <1>2, <1>3 DEF IdfFits

\* What a query term adds to the score of document d
TermWeight(f, docs, d, term) ==
  LET found == FindTerm(f, term)
      e == f.entries[found]
      places == {j \in 1..e.n : EntryPostings(f, e)[j].doc = d}
  IN IF found = NoEntry \/ places = {} THEN 0
     ELSE Weight(f.doc_count, DocumentFrequency(f, e, docs),
                 EntryPostings(f, e)[Min(places)].tf, f.doc_lens[d], f.total)

LEMMA AcceptedFile ==
  ASSUME NEW f \in SparseFiles, ValidateLayout(f)
  PROVE  /\ f.doc_count \in Nat /\ f.term_count \in Nat /\ f.total \in Nat
         /\ DOMAIN f.row_ids = 1..f.doc_count /\ DOMAIN f.doc_lens = 1..f.doc_count
         /\ DOMAIN f.entries = 1..f.term_count
         /\ \A d \in 1..f.doc_count : f.row_ids[d] \in Nat /\ f.doc_lens[d] \in Nat
         /\ \A c, d \in 1..f.doc_count : f.row_ids[c] = f.row_ids[d] => c = d
<1>1. /\ f.doc_count \in Nat /\ f.term_count \in Nat /\ f.row_ids \in Seq(Nat)
      /\ f.doc_lens \in Seq(Nat) /\ f.entries \in Seq(EntryRecords)
  BY FileFields
<1>2. f.total \in Nat
  BY DEF SparseFiles
<1>3. /\ f.doc_count = Len(f.row_ids) /\ f.doc_count = Len(f.doc_lens)
      /\ f.term_count = Len(f.entries) /\ IsInjective(f.row_ids)
  BY DEF ValidateLayout, SectionsFit
<1>4. /\ DOMAIN f.row_ids = 1..f.doc_count /\ DOMAIN f.doc_lens = 1..f.doc_count
      /\ DOMAIN f.entries = 1..f.term_count
  <2> DEFINE rows == f.row_ids
             lens == f.doc_lens
             entries == f.entries
  <2>1. rows \in Seq(Nat) /\ lens \in Seq(Nat) /\ entries \in Seq(EntryRecords)
    BY <1>1
  <2>2. f.doc_count = Len(rows) /\ f.doc_count = Len(lens) /\ f.term_count = Len(entries)
    BY <1>3
  <2> HIDE DEF rows, lens, entries
  <2>3. DOMAIN rows = 1..Len(rows) /\ DOMAIN lens = 1..Len(lens) /\ DOMAIN entries = 1..Len(entries)
    BY <2>1
  <2> QED BY <2>2, <2>3 DEF rows, lens, entries
<1>5. \A d \in 1..f.doc_count : f.row_ids[d] \in Nat /\ f.doc_lens[d] \in Nat
  BY <1>1, <1>4
<1>6. \A c, d \in 1..f.doc_count : f.row_ids[c] = f.row_ids[d] => c = d
  BY <1>3, <1>4 DEF IsInjective
<1> QED BY <1>1, <1>2, <1>4, <1>5, <1>6

LEMMA TermWeightIs ==
  ASSUME NEW f \in SparseFiles, ValidateLayout(f), IdfFits(f), NEW docs,
         NEW d \in 1..f.doc_count, NEW term
  PROVE  TermWeight(f, docs, d, term) \in Int
<1> DEFINE found == FindTerm(f, term)
           e == f.entries[found]
           list == EntryPostings(f, e)
           places == {j \in 1..e.n : list[j].doc = d}
<1>1. CASE found = NoEntry \/ places = {}
  <2>1. TermWeight(f, docs, d, term) = 0
    BY <1>1 DEF TermWeight
  <2> QED BY <2>1
<1>2. CASE ~(found = NoEntry \/ places = {})
  <2>1. /\ f.doc_count \in Nat /\ f.term_count \in Nat /\ f.total \in Nat
        /\ DOMAIN f.entries = 1..f.term_count /\ f.doc_lens[d] \in Nat
    BY AcceptedFile
  <2>2. found \in 1..f.term_count
    <3>1. found \in 0..f.term_count
      BY <2>1, FindTermIs
    <3> HIDE DEF found
    <3> QED BY <1>2, <2>1, <3>1 DEF NoEntry
  <2>3. PostingsHold(f, found)
    BY <2>1, <2>2, AcceptedPostings
  <2>4. /\ e.n \in 1..f.doc_count
        /\ \A j \in 1..e.n : list[j].tf \in Nat
    BY <2>3 DEF PostingsHold
  <2>5. TermWeight(f, docs, d, term)
          = Weight(f.doc_count, e.n, list[Min(places)].tf, f.doc_lens[d], f.total)
    BY <1>2 DEF TermWeight, DocumentFrequency
  <2> HIDE DEF found, e, list
  <2>6. Min(places) \in 1..e.n
    <3>1. IsFiniteSet(1..e.n) /\ 1..e.n \subseteq Int
      BY <2>4, FS_Interval
    <3>2. IsFiniteSet(places) /\ places \subseteq Int /\ places \subseteq 1..e.n
      BY <3>1, FS_Subset
    <3> HIDE DEF places
    <3>3. Min(places) \in places
      BY <1>2, <3>2, LeastIsMin
    <3> QED BY <3>2, <3>3
  <2>7. Idf[f.doc_count][e.n] \in Int
    BY <2>4 DEF IdfFits
  <2>8. f.doc_count > 0
    BY <2>1
  <2>9. list[Min(places)].tf \in Nat
    BY <2>4, <2>6
  <2> HIDE DEF places
  <2> DEFINE tf == list[Min(places)].tf
  <2>10. tf \in Nat
    BY <2>9
  <2> HIDE DEF tf
  <2>11. Weight(f.doc_count, e.n, tf, f.doc_lens[d], f.total) \in Int
    BY <2>1, <2>7, <2>8, <2>10, WeightIs
  <2> QED BY <2>5, <2>11 DEF tf
<1> QED BY <1>1, <1>2

LEMMA DocScoreIs ==
  ASSUME NEW f \in SparseFiles, ValidateLayout(f), IdfFits(f), NEW docs,
         NEW d \in 1..f.doc_count, NEW terms \in Seq(Terms)
  PROVE  DocScore(f, terms, docs, d) \in Int
<1> DEFINE n == Len(terms)
           weights == [i \in DOMAIN terms |-> TermWeight(f, docs, d, terms[i])]
<1>1. n \in Nat /\ DOMAIN terms = 1..n
  OBVIOUS
<1>2. DocScore(f, terms, docs, d) = SumOf(weights)
  BY DEF DocScore, TermWeight
<1> HIDE DEF n
<1>3. weights \in [1..n -> Int]
  BY <1>1, TermWeightIs
<1> HIDE DEF weights
<1> QED BY <1>1, <1>2, <1>3, SumIsInt

LEMMA FirstOccurrencesAre ==
  ASSUME NEW S, NEW seq \in Seq(S)
  PROVE  FirstOccurrences(seq) \in Seq(S)
<1> DEFINE n == Len(seq)
           places == {i \in DOMAIN seq : \A j \in 1..(i - 1) : seq[j] # seq[i]}
<1>1. n \in Nat /\ DOMAIN seq = 1..n
  OBVIOUS
<1> HIDE DEF n
<1>2. places \in SUBSET (1..n)
  BY <1>1
<1>3. FirstOccurrences(seq) = Kept(seq, places)
  BY DEF FirstOccurrences
<1> HIDE DEF places
<1>4. PICK m, order : KeptBy(seq, places, m, order)
  BY <1>1, <1>2, KeptIs
<1>5. /\ m \in Nat /\ order \in [1..m -> places]
      /\ Kept(seq, places) = [i \in 1..m |-> seq[order[i]]]
  BY <1>4 DEF KeptBy
<1>6. \A i \in 1..m : seq[order[i]] \in S
  <2>1. \A p \in 1..n : seq[p] \in S
    BY <1>1
  <2>2. \A i \in 1..m : order[i] \in 1..n
    BY <1>2, <1>5
  <2> QED BY <2>1, <2>2
<1>7. Kept(seq, places) \in [1..m -> S]
  BY <1>5, <1>6
<1> QED BY <1>3, <1>5, <1>7, ListIsSeq

-----------------------------------------------------------------------------
(* Search                                                                   *)

\* The documents a search returns, and their rows
AllowedDocs(f, allowlist) ==
  {d \in 1..f.doc_count : allowlist = None \/ f.row_ids[d] \in Range(allowlist)}

QueryList(f, query) == FirstOccurrences(TokenizeText(f.tokenizer, query))

HitDocs(f, query, allowlist) ==
  LET terms == QueryList(f, query)
      found == {FindTerm(f, terms[i]) : i \in DOMAIN terms} \ {NoEntry}
  IN {d \in AllowedDocs(f, allowlist) :
        \E e \in found : \E p \in Range(EntryPostings(f, f.entries[e])) : p.doc = d}

SearchRows(f, query, allowlist) ==
  {[row_id |-> f.row_ids[d],
    score |-> DocScore(f, QueryList(f, query), AllowedDocs(f, allowlist), d)] :
     d \in HitDocs(f, query, allowlist)}

\* A search ranks the documents that contain a query term and are allowed.
LEMMA SparseSearchIs ==
  ASSUME NEW f \in SparseFiles, ValidateLayout(f), IdfFits(f), NEW query \in Texts, NEW k,
         NEW allowlist, allowlist = None \/ Range(allowlist) \subseteq Range(f.row_ids)
  PROVE  /\ SparseSearch(f, query, k, allowlist)
              = Take(RankOrder(SearchRows(f, query, allowlist)), k)
         /\ IsFiniteSet(SearchRows(f, query, allowlist))
         /\ RowsOf(SearchRows(f, query, allowlist))
<1> DEFINE terms == QueryList(f, query)
           docs == AllowedDocs(f, allowlist)
           hit == HitDocs(f, query, allowlist)
           rows == SearchRows(f, query, allowlist)
           Row(d) == [row_id |-> f.row_ids[d], score |-> DocScore(f, terms, docs, d)]
<1>1. SparseSearch(f, query, k, allowlist) = Take(RankOrder(rows), k)
  BY DEF SparseSearch, SearchRows, HitDocs, AllowedDocs, QueryList
<1>2. terms \in Seq(Terms)
  BY TokenizeIs, FirstOccurrencesAre DEF QueryList
<1>3. hit \subseteq 1..f.doc_count
  BY DEF HitDocs, AllowedDocs
<1>4. rows = {Row(d) : d \in hit}
  BY DEF SearchRows
<1>5. \A d \in hit : Row(d).row_id = f.row_ids[d] /\ Row(d).score = DocScore(f, terms, docs, d)
  OBVIOUS
<1> HIDE DEF terms, docs, hit, rows, Row
<1>6. \A d \in hit : f.row_ids[d] \in Nat /\ DocScore(f, terms, docs, d) \in Int
  BY <1>2, <1>3, AcceptedFile, DocScoreIs
<1>7. \A c, d \in hit : f.row_ids[c] = f.row_ids[d] => c = d
  BY <1>3, AcceptedFile
<1>8. RowsOf(rows)
  BY <1>4, <1>5, <1>6, <1>7 DEF RowsOf
<1>9. IsFiniteSet(rows)
  <2>1. f.doc_count \in Nat
    BY AcceptedFile
  <2>2. IsFiniteSet(hit)
    <3>1. IsFiniteSet(1..f.doc_count)
      BY <2>1, FS_Interval
    <3> QED BY <1>3, <3>1, FS_Subset
  <2> DEFINE fun == [d \in hit |-> Row(d)]
  <2>3. fun \in Surjection(hit, rows)
    BY <1>4 DEF Surjection
  <2> HIDE DEF fun
  <2> QED BY <2>2, <2>3, FS_Surjection
<1> QED BY <1>1, <1>8, <1>9 DEF rows

-----------------------------------------------------------------------------
(* Fusion of the two searches                                               *)

LEMMA DenseListIs ==
  ASSUME NEW ids \in RowLists
  PROVE  DenseList(ids) \in Seq([row_id : DOMAIN DenseScore, score : Int])
<1> DEFINE n == Len(ids)
           S == DOMAIN DenseScore
           R == [row_id : S, score : Int]
           list == [i \in DOMAIN ids |-> [row_id |-> ids[i], score |-> DenseScore[ids[i]]]]
<1>1. n \in Nat /\ DOMAIN ids = 1..n /\ \A i \in 1..n : ids[i] \in S
  BY DEF RowLists
<1>2. NonFinite \notin Int /\ \A id \in S : id \in Int /\ DenseScore[id] \in Int
  BY InputsAreTyped
<1>3. DenseList(ids) = NormalizeRankedList(list)
  BY DEF DenseList
<1>4. \A i, j \in 1..n : ids[i] = ids[j] => i = j
  BY <1>1 DEF RowLists, IsInjective
<1> HIDE DEF n, S
<1>5. list \in [1..n -> R]
  BY <1>1, <1>2
<1>6. \A i, j \in 1..n : list[i].row_id = list[j].row_id => i = j
  BY <1>1, <1>4
<1>7. S \subseteq Int
  BY <1>2
<1> HIDE DEF list
<1>8. NormalizeRankedList(list) \in [1..n -> R]
  BY <1>1, <1>2, <1>5, <1>6, <1>7, NormalizeRanks
<1> HIDE DEF R
<1>9. DenseList(ids) \in Seq(R)
  BY <1>1, <1>3, <1>8, ListIsSeq
<1> QED BY <1>9 DEF R, S

LEMMA SparseListIs ==
  ASSUME NEW f \in SparseFiles, ValidateLayout(f), IdfFits(f), NEW query \in Texts
  PROVE  /\ SparseSearch(f, query, Unlimited, None) \in Seq(SearchRows(f, query, None))
         /\ \A r \in SearchRows(f, query, None) : r.row_id \in Int
<1> DEFINE rows == SearchRows(f, query, None)
           list == RankOrder(rows)
<1>1. /\ SparseSearch(f, query, Unlimited, None) = Take(list, Unlimited)
      /\ IsFiniteSet(rows) /\ RowsOf(rows)
  BY SparseSearchIs
<1>2. Take(list, Unlimited) = list
  BY DEF Take
<1> HIDE DEF rows
<1>3. list \in [1..Cardinality(rows) -> rows] /\ Cardinality(rows) \in Nat
  BY <1>1, RankOrderLists
<1>4. list \in Seq(rows)
  BY <1>3, ListIsSeq
<1> QED BY <1>1, <1>2, <1>4 DEF RowsOf, rows

LEMMA FuseListsIs ==
  ASSUME NEW S, NEW dense \in Seq(S), NEW sparse \in Seq(S), NEW config \in RrfConfigs
  PROVE  RrfFuseBatch(<<dense>>, <<sparse>>, config)[1]
           = Take(RankOrder(FusedRows(dense, sparse, config)), config.top_k)
<1>1. /\ config.dense_window \in Windows /\ config.sparse_window \in Windows
      /\ config.rank_constant > 0
  BY DEF RrfConfigs
<1>2. RrfFuseBatch(<<dense>>, <<sparse>>, config)[1] = FuseLists(dense, sparse, config)
  <2>1. Len(<<dense>>) = 1 /\ Len(<<sparse>>) = 1 /\ DOMAIN <<dense>> = 1..1
        /\ <<dense>>[1] = dense /\ <<sparse>>[1] = sparse
    OBVIOUS
  <2>2. RrfFuseBatch(<<dense>>, <<sparse>>, config)
          = [q \in DOMAIN <<dense>> |-> FuseLists(<<dense>>[q], <<sparse>>[q], config)]
    BY <1>1, <2>1 DEF RrfFuseBatch
  <2>3. 1 \in DOMAIN <<dense>>
    BY <2>1
  <2> QED BY <2>1, <2>2, <2>3
<1> DEFINE ids == {Take(dense, config.dense_window)[i].row_id :
                     i \in DOMAIN Take(dense, config.dense_window)}
                  \cup {Take(sparse, config.sparse_window)[i].row_id :
                          i \in DOMAIN Take(sparse, config.sparse_window)}
<1>3. ids = FusedIds(dense, sparse, config)
  BY <1>1, TakenIds DEF FusedIds
<1>4. FuseLists(dense, sparse, config)
        = Take(RankOrder({FusedRow(dense, sparse, config, id) : id \in ids}), config.top_k)
  BY DEF FuseLists
<1> HIDE DEF ids
<1> QED BY <1>2, <1>3, <1>4 DEF FusedRows

LEMMA RankIsRight ==
  ASSUME NEW S, NEW list \in Seq(S), NEW w \in Windows, NEW id, NEW rank, RankFits(list, w, id, rank)
  PROVE  IF rank = NoRank
         THEN \A i \in DOMAIN list : list[i].row_id = id => w # Unlimited /\ i > w
         ELSE list[rank].row_id = id /\ (w = Unlimited \/ rank <= w)
<1> DEFINE n == Len(list)
           m == Cut(n, w)
<1>1. n \in Nat /\ DOMAIN list = 1..n /\ m \in 0..n
  BY TakeIs
<1>2. (w = Unlimited \/ w \in Nat) /\ m = IF w = Unlimited \/ w >= n THEN n ELSE w
  BY DEF Windows, Cut
<1>3. \/ rank = NoRank /\ \A i \in 1..m : list[i].row_id # id
      \/ rank \in 1..m /\ list[rank].row_id = id
  BY DEF RankFits
<1> HIDE DEF n, m
<1>4. CASE rank = NoRank
  <2>1. \A i \in 1..m : list[i].row_id # id
    BY <1>1, <1>3, <1>4 DEF NoRank
  <2>2. ASSUME NEW i \in 1..n, list[i].row_id = id PROVE w # Unlimited /\ i > w
    <3>1. i \notin 1..m
      BY <2>1, <2>2
    <3> QED BY <1>1, <1>2, <3>1
  <2> QED BY <1>1, <1>4, <2>2
<1>5. CASE rank # NoRank
  <2>1. rank \in 1..m /\ list[rank].row_id = id
    BY <1>3, <1>5
  <2> QED BY <1>1, <1>2, <1>5, <2>1
<1> QED BY <1>4, <1>5

\* What FusionIsSound says of one query: best is what fusion returns, all what
\* it returns without top_k.
FusionRight(dense, sparse, config, best, all) ==
    LET RankIs(list, window, id, rank) ==
          IF rank = NoRank
          THEN \A i \in DOMAIN list : list[i].row_id = id => window # Unlimited /\ i > window
          ELSE list[rank].row_id = id /\ (window = Unlimited \/ rank <= window)
        NotWorse(a, b) == a # NoRank /\ (b = NoRank \/ a <= b)
        AtLeast(a, b) == a = b \/ NotWorse(a, b)
    IN /\ best = Take(all, config.top_k)
       /\ \A i, j \in DOMAIN all : all[i].row_id = all[j].row_id => i = j
       /\ {all[i].row_id : i \in DOMAIN all}
            = {Take(dense, config.dense_window)[i].row_id :
                 i \in DOMAIN Take(dense, config.dense_window)}
              \cup {Take(sparse, config.sparse_window)[i].row_id :
                      i \in DOMAIN Take(sparse, config.sparse_window)}
       /\ \A i \in DOMAIN all :
            /\ RankIs(dense, config.dense_window, all[i].row_id, all[i].dense_rank)
            /\ RankIs(sparse, config.sparse_window, all[i].row_id, all[i].sparse_rank)
       /\ \A i, j \in DOMAIN all :
            /\ AtLeast(all[i].dense_rank, all[j].dense_rank)
            /\ AtLeast(all[i].sparse_rank, all[j].sparse_rank)
            /\ i # j
            => i < j \/ (all[i].dense_rank = all[j].dense_rank
                         /\ all[i].sparse_rank = all[j].sparse_rank)

LEMMA FusedIsRight ==
  ASSUME NEW S, NEW dense \in Seq(S), NEW sparse \in Seq(S), NEW config \in RrfConfigs,
         \A r \in S : r.row_id \in Int
  PROVE  FusionRight(dense, sparse, config,
                     RrfFuseBatch(<<dense>>, <<sparse>>, config)[1],
                     RrfFuseBatch(<<dense>>, <<sparse>>, [config EXCEPT !.top_k = Unlimited])[1])
<1> DEFINE whole == [config EXCEPT !.top_k = Unlimited]
           all == RrfFuseBatch(<<dense>>, <<sparse>>, whole)[1]
           ranked == RankOrder(FusedRows(dense, sparse, config))
<1>1. /\ whole \in RrfConfigs /\ whole.top_k = Unlimited
      /\ whole.rank_constant = config.rank_constant
      /\ whole.dense_window = config.dense_window /\ whole.sparse_window = config.sparse_window
      /\ config.dense_window \in Windows /\ config.sparse_window \in Windows
  BY DEF RrfConfigs, Windows
<1> HIDE DEF whole
<1>2. FusedRows(dense, sparse, whole) = FusedRows(dense, sparse, config)
  BY <1>1 DEF FusedRows, FusedRow, FusedIds
<1>3. all = ranked
  <2>1. all = Take(RankOrder(FusedRows(dense, sparse, whole)), Unlimited)
    BY <1>1, FuseListsIs
  <2> QED BY <1>2, <2>1 DEF Take
<1>4. RrfFuseBatch(<<dense>>, <<sparse>>, config)[1] = Take(ranked, config.top_k)
  BY FuseListsIs
<1>5. FusedRight(dense, sparse, config, ranked)
  BY FusedRowsRight
<1> DEFINE ids == {Take(dense, config.dense_window)[i].row_id :
                     i \in DOMAIN Take(dense, config.dense_window)}
                  \cup {Take(sparse, config.sparse_window)[i].row_id :
                          i \in DOMAIN Take(sparse, config.sparse_window)}
<1>6. ids = FusedIds(dense, sparse, config)
  BY <1>1, TakenIds DEF FusedIds
<1> HIDE DEF ids, ranked
<1> DEFINE RankIs(list, window, id, rank) ==
             IF rank = NoRank
             THEN \A i \in DOMAIN list : list[i].row_id = id => window # Unlimited /\ i > window
             ELSE list[rank].row_id = id /\ (window = Unlimited \/ rank <= window)
<1>7. \A i \in DOMAIN ranked :
        /\ RankIs(dense, config.dense_window, ranked[i].row_id, ranked[i].dense_rank)
        /\ RankIs(sparse, config.sparse_window, ranked[i].row_id, ranked[i].sparse_rank)
  <2> SUFFICES ASSUME NEW i \in DOMAIN ranked
               PROVE /\ RankIs(dense, config.dense_window, ranked[i].row_id, ranked[i].dense_rank)
                     /\ RankIs(sparse, config.sparse_window, ranked[i].row_id, ranked[i].sparse_rank)
    OBVIOUS
  <2>1. /\ RankFits(dense, config.dense_window, ranked[i].row_id, ranked[i].dense_rank)
        /\ RankFits(sparse, config.sparse_window, ranked[i].row_id, ranked[i].sparse_rank)
    BY <1>5 DEF FusedRight, RowFits
  <2>2. RankIs(dense, config.dense_window, ranked[i].row_id, ranked[i].dense_rank)
    BY <1>1, <2>1, RankIsRight
  <2>3. RankIs(sparse, config.sparse_window, ranked[i].row_id, ranked[i].sparse_rank)
    BY <1>1, <2>1, RankIsRight
  <2> QED BY <2>2, <2>3
<1> HIDE DEF RankIs
<1>8. /\ \A i, j \in DOMAIN ranked : ranked[i].row_id = ranked[j].row_id => i = j
      /\ {ranked[i].row_id : i \in DOMAIN ranked} = ids
      /\ \A i, j \in DOMAIN ranked :
           /\ AtLeastRank(ranked[i].dense_rank, ranked[j].dense_rank)
           /\ AtLeastRank(ranked[i].sparse_rank, ranked[j].sparse_rank)
           /\ i # j
           => i < j \/ (ranked[i].dense_rank = ranked[j].dense_rank
                        /\ ranked[i].sparse_rank = ranked[j].sparse_rank)
  BY <1>5, <1>6 DEF FusedRight
<1>9. FusionRight(dense, sparse, config, Take(ranked, config.top_k), ranked)
  BY <1>7, <1>8 DEF FusionRight, AtLeastRank, RankIs, ids
<1> QED BY <1>3, <1>4, <1>9 DEF whole

LEMMA DataFuses == DataInv => FusionIsSound
<1> SUFFICES ASSUME DataInv, BothOpen, NEW q \in QueryTexts, NEW config \in FusionConfigs
             PROVE  LET dense == DenseList(halves.ids)
                        sparse == SparseList(q)
                    IN FusionRight(dense, sparse, config,
                         RrfFuseBatch(<<dense>>, <<sparse>>, config)[1],
                         RrfFuseBatch(<<dense>>, <<sparse>>, [config EXCEPT !.top_k = Unlimited])[1])
  BY DEF FusionIsSound, FusionRight
<1> DEFINE f == halves.sparse.file
           A == [row_id : DOMAIN DenseScore, score : Int]
           B == SearchRows(f, q, None)
           S == A \cup B
           dense == DenseList(halves.ids)
           sparse == SparseList(q)
<1>1. halves.ids \in RowLists /\ GoodFile(f) /\ OpenIndex(f) # Err
  BY DEF DataInv, BothOpen
<1>2. q \in Texts /\ config \in RrfConfigs
  BY InputsAreTyped
<1>3. f \in SparseFiles /\ ValidateLayout(f) /\ IdfFits(f)
  BY <1>1, GoodIdf DEF GoodFile, OpenIndex
<1>4. dense \in Seq(A)
  BY <1>1, DenseListIs
<1>5. sparse \in Seq(B) /\ \A r \in B : r.row_id \in Int
  BY <1>2, <1>3, SparseListIs DEF SparseList
<1>6. \A r \in A : r.row_id \in Int
  BY InputsAreTyped
<1> HIDE DEF A, B, f, dense, sparse
<1>7. dense \in Seq(S) /\ sparse \in Seq(S) /\ \A r \in S : r.row_id \in Int
  BY <1>4, <1>5, <1>6
<1> HIDE DEF S
<1>8. FusionRight(dense, sparse, config,
        RrfFuseBatch(<<dense>>, <<sparse>>, config)[1],
        RrfFuseBatch(<<dense>>, <<sparse>>, [config EXCEPT !.top_k = Unlimited])[1])
  BY <1>2, <1>7, FusedIsRight
<1> QED BY <1>8 DEF dense, sparse

\* Fusion returns the rows of both windows and nothing else, each once, with
\* the rank it has in each source; a row that is at least as good in both
\* sources and better in one comes first, and top_k is a prefix: for any
\* corpora, texts, damage, dense scores, windows and rank constants.
THEOREM FusionsAreSound == Spec => []FusionIsSound
<1>1. Spec => []HalvesInv
  BY HalvesInit, HalvesStep, PTL DEF Spec
<1>2. Spec => []DataInv
  BY <1>1, DataInit, DataStep, PTL DEF Spec
<1> QED BY <1>2, DataFuses, PTL

-----------------------------------------------------------------------------
(* Reranking the fused candidates                                           *)

RankedRow == [row_id : Nat, score : Int]

\* What a fused row says of the lists it was made from
RowSeen(dense, sparse, row) ==
  /\ row.row_id \in Nat /\ row.score \in Int
  /\ row.dense_rank = RankIn(dense, Unlimited, row.row_id)
  /\ row.sparse_rank = RankIn(sparse, Unlimited, row.row_id)
  /\ row.dense_score = ScoreAt(dense, row.dense_rank)
  /\ row.sparse_score = ScoreAt(sparse, row.sparse_rank)

LEMMA DefaultIs ==
  /\ DefaultFusion \in RrfConfigs
  /\ DefaultFusion.dense_window = Unlimited /\ DefaultFusion.sparse_window = Unlimited
  /\ DefaultFusion.top_k = Unlimited
  BY DEF DefaultFusion, RrfConfigs, Windows

LEMMA FusedSees ==
  ASSUME NEW dense \in Seq(RankedRow), NEW sparse \in Seq(RankedRow),
         NEW row \in FusedRows(dense, sparse, DefaultFusion), row.score \in Int
  PROVE  RowSeen(dense, sparse, row)
<1> DEFINE c == DefaultFusion
<1>1. /\ c.dense_window = Unlimited /\ c.sparse_window = Unlimited
  BY DefaultIs
<1> HIDE DEF c
<1>2. PICK id \in FusedIds(dense, sparse, c) : row = FusedRow(dense, sparse, c, id)
  BY DEF FusedRows, c
<1>3. /\ row.row_id = id
      /\ row.dense_rank = RankIn(dense, Unlimited, id)
      /\ row.sparse_rank = RankIn(sparse, Unlimited, id)
      /\ row.dense_score = ScoreAt(dense, RankIn(dense, Unlimited, id))
      /\ row.sparse_score = ScoreAt(sparse, RankIn(sparse, Unlimited, id))
  BY <1>1, <1>2 DEF FusedRow
<1>4. id \in Nat
  <2>1. ASSUME NEW list \in Seq(RankedRow), NEW i \in 1..Cut(Len(list), Unlimited)
        PROVE  list[i].row_id \in Nat
    <3>1. i \in DOMAIN list
      BY <2>1 DEF Cut
    <3>2. list[i] \in RankedRow
      BY <3>1
    <3> QED BY <3>2 DEF RankedRow
  <2>2. id \in IdsOf(dense, Unlimited) \/ id \in IdsOf(sparse, Unlimited)
    BY <1>1, <1>2 DEF FusedIds
  <2> QED BY <2>1, <2>2 DEF IdsOf
<1> QED BY <1>3, <1>4 DEF RowSeen

LEMMA FusedListIs ==
  ASSUME NEW dense \in Seq(RankedRow), NEW sparse \in Seq(RankedRow)
  PROVE  LET fused == RrfFuseBatch(<<dense>>, <<sparse>>, DefaultFusion)
             rows == FusedRows(dense, sparse, DefaultFusion)
         IN /\ fused = [q \in 1..1 |-> fused[1]]
            /\ fused[1] \in Seq(rows)
            /\ \A i, j \in DOMAIN fused[1] : fused[1][i].row_id = fused[1][j].row_id => i = j
            /\ \A row \in rows : RowSeen(dense, sparse, row)
<1> DEFINE fused == RrfFuseBatch(<<dense>>, <<sparse>>, DefaultFusion)
           rows == FusedRows(dense, sparse, DefaultFusion)
           all == RankOrder(rows)
<1>1. DefaultFusion \in RrfConfigs /\ DefaultFusion.top_k = Unlimited
  BY DefaultIs
<1>2. \A r \in RankedRow : r.row_id \in Int
  BY DEF RankedRow
<1>3. fused = [q \in 1..1 |-> fused[1]]
  <2>1. Len(<<dense>>) = 1 /\ Len(<<sparse>>) = 1 /\ DOMAIN <<dense>> = 1..1
    OBVIOUS
  <2>2. DefaultFusion.rank_constant > 0
    BY DEF DefaultFusion
  <2>3. fused = [q \in DOMAIN <<dense>> |-> FuseLists(<<dense>>[q], <<sparse>>[q], DefaultFusion)]
    BY <2>1, <2>2 DEF RrfFuseBatch
  <2>4. fused = [q \in 1..1 |-> FuseLists(<<dense>>[q], <<sparse>>[q], DefaultFusion)]
    BY <2>1, <2>3
  <2> HIDE DEF fused
  <2>5. \A q \in 1..1 : fused[q] = FuseLists(<<dense>>[q], <<sparse>>[q], DefaultFusion) /\ q = 1
    BY <2>4
  <2> QED BY <2>4, <2>5
<1>4. fused[1] = all
  <2>1. fused[1] = Take(all, DefaultFusion.top_k)
    BY <1>1, FuseListsIs
  <2> QED BY <1>1, <2>1 DEF Take
<1>5. all \in Seq(rows) /\ FusedRight(dense, sparse, DefaultFusion, all)
  BY <1>1, <1>2, FusedRowsRight
<1>6. RowsOf(rows)
  BY <1>1, <1>2, FusedRowsAre
<1>7. ASSUME NEW row \in rows PROVE RowSeen(dense, sparse, row)
  <2>1. row.score \in Int
    BY <1>6 DEF RowsOf
  <2> QED BY <2>1, FusedSees
<1>8. \A i, j \in DOMAIN all : all[i].row_id = all[j].row_id => i = j
  BY <1>5 DEF FusedRight
<1> HIDE DEF fused, rows, all
<1>9. /\ fused[1] \in Seq(rows)
      /\ \A i, j \in DOMAIN fused[1] : fused[1][i].row_id = fused[1][j].row_id => i = j
  BY <1>4, <1>5, <1>8
<1> QED BY <1>3, <1>7, <1>9 DEF fused, rows

\* What the model is given, and what it can be given for a feature name
RerankInputs(fused, dense, sparse, len) ==
  [fused |-> fused, bm25 |-> <<sparse>>, dense_cos |-> <<dense>>,
   rank_cos |-> None, doc_len |-> None, query_len |-> <<len>>]

Computed == {"bm25_score", "bm25_rank", "dense_cos", "dense_rank", "rrf_score", "query_len_chars"}

NameLacks(name, row) ==
  \/ name \in {"bm25_score", "bm25_rank"} /\ row.sparse_rank = NoRank
  \/ name \in {"dense_cos", "dense_rank"} /\ row.dense_rank = NoRank
  \/ name \notin Computed

SeenBy(name, row, len) ==
  CASE name = "bm25_rank" -> row.sparse_rank [] name = "dense_rank" -> row.dense_rank
    [] name = "bm25_score" -> row.sparse_score [] name = "dense_cos" -> row.dense_score
    [] name = "rrf_score" -> row.score [] OTHER -> len

LEMMA RankedScore ==
  ASSUME NEW list \in Seq(RankedRow), NEW id,
         RankIn(list, Unlimited, id) # NoRank
  PROVE  /\ RankIn(list, Unlimited, id) \in Int
         /\ ScoreAt(list, RankIn(list, Unlimited, id)) = list[RankIn(list, Unlimited, id)].score
         /\ list[RankIn(list, Unlimited, id)].score \in Int
<1> DEFINE rank == RankIn(list, Unlimited, id)
<1>1. Unlimited \in Windows
  BY DEF Windows
<1>2. rank \in 0..Len(list)
  BY <1>1, RankInIs
<1> HIDE DEF rank
<1>3. rank \in DOMAIN list
  BY <1>2 DEF rank, NoRank
<1>4. list[rank] \in RankedRow
  BY <1>3
<1>5. list[rank].score \in Int
  BY <1>4 DEF RankedRow
<1>6. ScoreAt(list, rank) = list[rank].score
  BY DEF ScoreAt, rank
<1> QED BY <1>2, <1>5, <1>6 DEF rank

\* A feature read from a source
LEMMA SourceFeature ==
  ASSUME NEW name, name \in DOMAIN SourceOf, NEW row, NEW inputs, NEW list,
         name \notin {"rrf_score", "doc_len_chars", "query_len_chars"},
         inputs[SourceOf[name]] = <<list>>, <<list>> # None
  PROVE  FeatureValue(name, row, 1, inputs)
           = IF RankIn(list, Unlimited, row.row_id) = NoRank THEN Err
             ELSE IF name \in RankFeatures THEN SourceRank(list, row.row_id)
             ELSE list[RankIn(list, Unlimited, row.row_id)].score
<1> DEFINE batch == inputs[SourceOf[name]]
           found == IF batch = None THEN Err
                    ELSE IF RankIn(batch[1], Unlimited, row.row_id) = NoRank THEN Err
                    ELSE IF name \in RankFeatures THEN SourceRank(batch[1], row.row_id)
                    ELSE batch[1][RankIn(batch[1], Unlimited, row.row_id)].score
<1>1. FeatureValue(name, row, 1, inputs) = found
  BY DEF FeatureValue
<1>2. batch = <<list>> /\ batch # None /\ <<list>>[1] = list
  OBVIOUS
<1> HIDE DEF batch
<1>3. batch[1] = list /\ batch # None
  BY <1>2
<1> QED BY <1>1, <1>3

LEMMA FeatureIs ==
  ASSUME NEW dense \in Seq(RankedRow), NEW sparse \in Seq(RankedRow), NEW len \in Nat,
         NEW fused, NEW row, RowSeen(dense, sparse, row), NEW name
  PROVE  LET value == FeatureValue(name, row, 1, RerankInputs(fused, dense, sparse, len)) IN
         /\ NameLacks(name, row) => value = Err
         /\ ~NameLacks(name, row) => value = SeenBy(name, row, len) /\ value \in Int
<1> DEFINE inputs == RerankInputs(fused, dense, sparse, len)
           value == FeatureValue(name, row, 1, inputs)
           id == row.row_id
<1> SUFFICES /\ NameLacks(name, row) => value = Err
             /\ ~NameLacks(name, row) => value = SeenBy(name, row, len) /\ value \in Int
  OBVIOUS
<1>1. /\ inputs["bm25"] = <<sparse>> /\ inputs["dense_cos"] = <<dense>>
      /\ inputs["rank_cos"] = None /\ inputs.doc_len = None /\ inputs.query_len = <<len>>
  BY DEF RerankInputs
<1>2. <<sparse>> # None /\ <<dense>> # None /\ <<len>> # None
  <2>1. <<len>> \in Seq(Int) /\ <<sparse>> \in Seq(Seq(RankedRow)) /\ <<dense>> \in Seq(Seq(RankedRow))
    OBVIOUS
  <2> QED BY <2>1, ResultsAreNeither DEF RankedRow
<1>3. /\ row.dense_rank = RankIn(dense, Unlimited, id) /\ row.sparse_rank = RankIn(sparse, Unlimited, id)
      /\ row.dense_score = ScoreAt(dense, RankIn(dense, Unlimited, id))
      /\ row.sparse_score = ScoreAt(sparse, RankIn(sparse, Unlimited, id))
      /\ row.score \in Int
  BY DEF RowSeen
<1>4. <<sparse>>[1] = sparse /\ <<dense>>[1] = dense /\ <<len>>[1] = len
  OBVIOUS
<1>5. /\ DOMAIN SourceOf = {"bm25_score", "bm25_rank", "rank_cos", "rank_cos_rank", "dense_cos", "dense_rank"}
      /\ SourceOf["bm25_score"] = "bm25" /\ SourceOf["bm25_rank"] = "bm25"
      /\ SourceOf["rank_cos"] = "rank_cos" /\ SourceOf["rank_cos_rank"] = "rank_cos"
      /\ SourceOf["dense_cos"] = "dense_cos" /\ SourceOf["dense_rank"] = "dense_cos"
  BY DEF SourceOf
<1> HIDE DEF inputs
<1>6. CASE name = "rrf_score"
  <2>1. value = row.score
    BY <1>5, <1>6 DEF FeatureValue
  <2> HIDE DEF value
  <2> QED BY <1>3, <1>6, <2>1 DEF NameLacks, SeenBy, Computed
<1>7. CASE name = "query_len_chars"
  <2>1. value = len
    BY <1>1, <1>2, <1>4, <1>5, <1>7 DEF FeatureValue
  <2> HIDE DEF value
  <2> QED BY <1>7, <2>1 DEF NameLacks, SeenBy, Computed
<1>8. CASE name \in {"bm25_score", "bm25_rank"}
  <2> DEFINE rank == RankIn(sparse, Unlimited, id)
  <2>1. value = IF rank = NoRank THEN Err
                ELSE IF name \in RankFeatures THEN SourceRank(sparse, id) ELSE sparse[rank].score
    <3>1. /\ name \in DOMAIN SourceOf /\ SourceOf[name] = "bm25"
          /\ name \notin {"rrf_score", "doc_len_chars", "query_len_chars"}
      BY <1>5, <1>8
    <3>2. inputs[SourceOf[name]] = <<sparse>>
      BY <1>1, <3>1
    <3> QED BY <1>2, <3>1, <3>2, SourceFeature
  <2>2. name \in RankFeatures <=> name = "bm25_rank"
    BY <1>8 DEF RankFeatures
  <2>3. SourceRank(sparse, id) = rank
    BY DEF SourceRank
  <2>4. NameLacks(name, row) <=> rank = NoRank
    BY <1>3, <1>8 DEF NameLacks, Computed
  <2>5. rank # NoRank => /\ rank \in Int /\ ScoreAt(sparse, rank) = sparse[rank].score
                         /\ sparse[rank].score \in Int
    BY RankedScore
  <2> HIDE DEF value, rank
  <2>6. SeenBy(name, row, len) = IF name = "bm25_rank" THEN rank ELSE ScoreAt(sparse, rank)
    BY <1>3, <1>8 DEF SeenBy, rank
  <2> QED BY <2>1, <2>2, <2>3, <2>4, <2>5, <2>6 DEF value
<1>9. CASE name \in {"dense_cos", "dense_rank"}
  <2> DEFINE rank == RankIn(dense, Unlimited, id)
  <2>1. value = IF rank = NoRank THEN Err
                ELSE IF name \in RankFeatures THEN SourceRank(dense, id) ELSE dense[rank].score
    <3>1. /\ name \in DOMAIN SourceOf /\ SourceOf[name] = "dense_cos"
          /\ name \notin {"rrf_score", "doc_len_chars", "query_len_chars"}
      BY <1>5, <1>9
    <3>2. inputs[SourceOf[name]] = <<dense>>
      BY <1>1, <3>1
    <3> QED BY <1>2, <3>1, <3>2, SourceFeature
  <2>2. name \in RankFeatures <=> name = "dense_rank"
    BY <1>9 DEF RankFeatures
  <2>3. SourceRank(dense, id) = rank
    BY DEF SourceRank
  <2>4. NameLacks(name, row) <=> rank = NoRank
    BY <1>3, <1>9 DEF NameLacks, Computed
  <2>5. rank # NoRank => /\ rank \in Int /\ ScoreAt(dense, rank) = dense[rank].score
                         /\ dense[rank].score \in Int
    BY RankedScore
  <2> HIDE DEF value, rank
  <2>6. SeenBy(name, row, len) = IF name = "dense_rank" THEN rank ELSE ScoreAt(dense, rank)
    BY <1>3, <1>9 DEF SeenBy, rank
  <2> QED BY <2>1, <2>2, <2>3, <2>4, <2>5, <2>6 DEF value
<1>10. CASE name \notin Computed
  <2>1. value = Err
    <3>1. CASE name \in {"rank_cos", "rank_cos_rank"}
      BY <1>1, <1>5, <3>1 DEF FeatureValue
    <3>2. CASE name = "doc_len_chars"
      BY <1>1, <1>5, <3>2 DEF FeatureValue
    <3>3. CASE name \notin {"rank_cos", "rank_cos_rank", "doc_len_chars"}
      BY <1>5, <1>10, <3>3 DEF FeatureValue, Computed
    <3> QED BY <3>1, <3>2, <3>3
  <2> HIDE DEF value
  <2> QED BY <1>10, <2>1 DEF NameLacks
<1> QED BY <1>6, <1>7, <1>8, <1>9, <1>10 DEF Computed

LEMMA TreeValueIs ==
  ASSUME NEW m, ModelTyped(m), LoadOptions.max_depth >= 1, NEW i \in DOMAIN m.trees,
         TreeAccepted(m.trees[i]), NEW features
  PROVE  ScoreTree(m.trees[i], features) \in Int
<1> DEFINE tree == m.trees[i]
<1>1. LoadOptions.max_depth \in Nat
  BY TreeLists
<1>2. TreeIsTotal(tree, features, LoadOptions.max_depth)
  BY <1>1, ValidTreeIsTotal DEF TreeAccepted
<1>3. \A n \in DOMAIN tree : tree[n].kind = "leaf" => tree[n].value \in Int
  BY DEF ModelTyped
<1> HIDE DEF tree
<1>4. PICK depth \in 1..LoadOptions.max_depth :
        \E path \in [1..depth -> DOMAIN tree] :
          tree[path[depth]].kind = "leaf" /\ ScoreTree(tree, features) = tree[path[depth]].value
  BY <1>2 DEF TreeIsTotal
<1>5. PICK path \in [1..depth -> DOMAIN tree] :
        tree[path[depth]].kind = "leaf" /\ ScoreTree(tree, features) = tree[path[depth]].value
  BY <1>4
<1>6. path[depth] \in DOMAIN tree
  <2>1. depth \in 1..depth
    BY <1>1
  <2> QED BY <2>1
<1> QED BY <1>3, <1>5, <1>6 DEF tree

LEMMA ScoreIsInt ==
  ASSUME NEW m, ModelTyped(m), LoadOptions.max_depth >= 1,
         \A i \in DOMAIN m.trees : TreeAccepted(m.trees[i]),
         NEW features, Len(features) = Len(m.names)
  PROVE  ScoreFeatures(m, features) \in Int /\ ScoreFeatures(m, features) # Err
<1> DEFINE n == Len(m.trees)
           leaves == [i \in DOMAIN m.trees |-> ScoreTree(m.trees[i], features)]
<1>1. n \in Nat /\ DOMAIN m.trees = 1..n /\ m.base \in Int /\ m.rate \in Int
  BY DEF ModelTyped
<1> HIDE DEF n
<1>2. leaves \in [1..n -> Int]
  BY <1>1, TreeValueIs
<1>3. Err \notin Int
  BY ResultsAreNeither
<1>4. ScoreFeatures(m, features)
        = IF Len(features) # Len(m.names) \/ \E i \in DOMAIN leaves : leaves[i] = Err THEN Err
          ELSE m.base + m.rate * SumOf(leaves)
  BY DEF ScoreFeatures
<1> HIDE DEF leaves
<1>5. \A i \in DOMAIN leaves : leaves[i] # Err
  BY <1>2, <1>3
<1>6. SumOf(leaves) \in Int
  BY <1>1, <1>2, SumIsInt
<1>7. ScoreFeatures(m, features) = m.base + m.rate * SumOf(leaves)
  BY <1>4, <1>5
<1>8. m.rate * SumOf(leaves) \in Int
  BY <1>1, <1>6, ProductIsInt
<1> QED BY <1>1, <1>3, <1>7, <1>8

\* What RerankIsSound says of one query of n words
RerankRight(m, n, dense, sparse, k) ==
    LET fused == RrfFuseBatch(<<dense>>, <<sparse>>, DefaultFusion)
        inputs == [fused |-> fused, bm25 |-> <<sparse>>, dense_cos |-> <<dense>>,
                   rank_cos |-> None, doc_len |-> None, query_len |-> <<n>>]
        result == Rerank(m, inputs, k)
        Needs(name) == \E i \in DOMAIN m.names : m.names[i] = name
        Lacks(row) ==
          \/ (Needs("bm25_score") \/ Needs("bm25_rank")) /\ row.sparse_rank = NoRank
          \/ (Needs("dense_cos") \/ Needs("dense_rank")) /\ row.dense_rank = NoRank
          \/ \E i \in DOMAIN m.names :
               m.names[i] \notin {"bm25_score", "bm25_rank", "dense_cos", "dense_rank",
                                  "rrf_score", "query_len_chars"}
        Seen(name, row) ==
          CASE name = "bm25_rank" -> row.sparse_rank [] name = "dense_rank" -> row.dense_rank
            [] name = "bm25_score" -> row.sparse_score [] name = "dense_cos" -> row.dense_score
            [] name = "rrf_score" -> row.score [] OTHER -> n
        ScoreOf(row) ==
          ScoreFeatures(m, [i \in DOMAIN m.names |-> Seen(m.names[i], row)])
        rows == {[row_id |-> fused[1][i].row_id, score |-> ScoreOf(fused[1][i])] : i \in DOMAIN fused[1]}
    IN IF \E i \in DOMAIN fused[1] : Lacks(fused[1][i]) THEN result = Err
       ELSE /\ result # Err
            /\ Len(result[1]) = Len(Take(fused[1], k))
            /\ {result[1][i] : i \in DOMAIN result[1]} \subseteq rows
            /\ \A i \in 2..Len(result[1]) : RanksBefore(result[1][i - 1], result[1][i])
            /\ \A r \in rows : \/ \E i \in DOMAIN result[1] : result[1][i] = r
                               \/ \A i \in DOMAIN result[1] : RanksBefore(result[1][i], r)

\* A row a model of these feature names cannot score, and what it scores
RowLacks(names, row) == \E i \in DOMAIN names : NameLacks(names[i], row)
RowFeatures(names, row, n) == [i \in DOMAIN names |-> SeenBy(names[i], row, n)]

RerankedRows(m, n, list) ==
  {[row_id |-> list[i].row_id, score |-> ScoreFeatures(m, RowFeatures(m.names, list[i], n))] :
     i \in DOMAIN list}

\* The same, of a list of fused rows and the result of its reranking
ListReranked(m, n, list, result, k) ==
  IF \E i \in DOMAIN list : RowLacks(m.names, list[i]) THEN result = Err
  ELSE /\ result # Err
       /\ Len(result[1]) = Len(Take(list, k))
       /\ {result[1][i] : i \in DOMAIN result[1]} \subseteq RerankedRows(m, n, list)
       /\ \A i \in 2..Len(result[1]) : RanksBefore(result[1][i - 1], result[1][i])
       /\ \A r \in RerankedRows(m, n, list) :
            \/ \E i \in DOMAIN result[1] : result[1][i] = r
            \/ \A i \in DOMAIN result[1] : RanksBefore(result[1][i], r)

LEMMA RerankedIsRight ==
  ASSUME NEW m, NEW n, NEW dense, NEW sparse, NEW k,
         LET fused == RrfFuseBatch(<<dense>>, <<sparse>>, DefaultFusion)
         IN ListReranked(m, n, fused[1], Rerank(m, RerankInputs(fused, dense, sparse, n), k), k)
  PROVE  RerankRight(m, n, dense, sparse, k)
<1> DEFINE fused == RrfFuseBatch(<<dense>>, <<sparse>>, DefaultFusion)
           Needs(name) == \E i \in DOMAIN m.names : m.names[i] = name
           Lacks(row) ==
             \/ (Needs("bm25_score") \/ Needs("bm25_rank")) /\ row.sparse_rank = NoRank
             \/ (Needs("dense_cos") \/ Needs("dense_rank")) /\ row.dense_rank = NoRank
             \/ \E i \in DOMAIN m.names :
                  m.names[i] \notin {"bm25_score", "bm25_rank", "dense_cos", "dense_rank",
                                     "rrf_score", "query_len_chars"}
<1>1. \A row : Lacks(row) <=> RowLacks(m.names, row)
  BY DEF RowLacks, NameLacks, Computed
<1>2. (\E i \in DOMAIN fused[1] : Lacks(fused[1][i]))
        <=> \E i \in DOMAIN fused[1] : RowLacks(m.names, fused[1][i])
  <2> HIDE DEF Lacks
  <2> QED BY <1>1
<1>3. ListReranked(m, n, fused[1], Rerank(m, RerankInputs(fused, dense, sparse, n), k), k)
  OBVIOUS
<1> QED BY <1>2, <1>3 DEF RerankRight, ListReranked, RerankInputs, RerankedRows, RowFeatures, SeenBy

\* A list of fused rows as a feature batch of one query
FeatureBatch(names, n, list) ==
  [q \in 1..1 |-> [i \in DOMAIN list |->
     [row_id |-> list[i].row_id, features |-> RowFeatures(names, list[i], n)]]]

SeenList(dense, sparse, list) ==
  /\ list \in Seq(FusedRows(dense, sparse, DefaultFusion))
  /\ \A i \in DOMAIN list : RowSeen(dense, sparse, list[i])
  /\ \A i, j \in DOMAIN list : list[i].row_id = list[j].row_id => i = j

LEMMA FeaturesAre ==
  ASSUME NEW dense \in Seq(RankedRow), NEW sparse \in Seq(RankedRow), NEW n \in Nat,
         NEW list, SeenList(dense, sparse, list),
         NEW fused, fused = [q \in 1..1 |-> list],
         NEW names \in Seq(STRING), IsFeatureList(names)
  PROVE  FeaturesOf(RerankInputs(fused, dense, sparse, n), names)
           = IF \E i \in DOMAIN list : RowLacks(names, list[i]) THEN Err
             ELSE FeatureBatch(names, n, list)
<1> DEFINE inputs == RerankInputs(fused, dense, sparse, n)
           Value(i, j) == FeatureValue(names[j], list[i], 1, inputs)
           Row(q, row) == [row_id |-> row.row_id,
                           features |-> [i \in DOMAIN names |-> FeatureValue(names[i], row, q, inputs)]]
           batch == [q \in DOMAIN inputs.fused |->
                       [i \in DOMAIN inputs.fused[q] |-> Row(q, inputs.fused[q][i])]]
<1>1. /\ inputs.fused = fused /\ inputs["bm25"] = <<sparse>> /\ inputs["dense_cos"] = <<dense>>
      /\ inputs["rank_cos"] = None /\ inputs["query_len"] = <<n>>
  BY DEF RerankInputs
<1>2. QueryCountsAgree(inputs)
  <2>1. Len(<<sparse>>) = 1 /\ Len(<<dense>>) = 1 /\ Len(<<n>>) = 1
    OBVIOUS
  <2>2. Len(fused) = 1
    BY LenOfFunction
  <2> HIDE DEF inputs
  <2> QED BY <1>1, <2>1, <2>2 DEF QueryCountsAgree
<1>3. FeaturesOf(inputs, names)
        = IF \E q \in DOMAIN batch : \E i \in DOMAIN batch[q] :
               \E f \in DOMAIN names : batch[q][i].features[f] = Err
          THEN Err ELSE batch
  <2> HIDE DEF inputs
  <2> QED BY <1>2 DEF FeaturesOf
<1>4. batch = [q \in 1..1 |-> [i \in DOMAIN list |->
                 [row_id |-> list[i].row_id, features |-> [j \in DOMAIN names |-> Value(i, j)]]]]
  <2> HIDE DEF inputs
  <2>1. DOMAIN inputs.fused = 1..1 /\ \A q \in 1..1 : inputs.fused[q] = list /\ q = 1
    BY <1>1
  <2> QED BY <2>1
<1>5. \A i \in DOMAIN list, j \in DOMAIN names :
        /\ NameLacks(names[j], list[i]) => Value(i, j) = Err
        /\ ~NameLacks(names[j], list[i]) =>
             Value(i, j) = SeenBy(names[j], list[i], n) /\ Value(i, j) \in Int
  BY FeatureIs DEF SeenList
<1>6. Err \notin Int
  BY ResultsAreNeither
<1> HIDE DEF Value, batch
<1>7. (\E q \in DOMAIN batch : \E i \in DOMAIN batch[q] :
         \E f \in DOMAIN names : batch[q][i].features[f] = Err)
        <=> \E i \in DOMAIN list : RowLacks(names, list[i])
  <2>1. (\E q \in DOMAIN batch : \E i \in DOMAIN batch[q] :
           \E f \in DOMAIN names : batch[q][i].features[f] = Err)
          <=> \E i \in DOMAIN list : \E j \in DOMAIN names : Value(i, j) = Err
    <3>1. DOMAIN batch = 1..1 /\ 1 \in 1..1
      BY <1>4
    <3>2. \A q \in 1..1 : /\ DOMAIN batch[q] = DOMAIN list
                          /\ \A i \in DOMAIN list : \A j \in DOMAIN names :
                               batch[q][i].features[j] = Value(i, j)
      BY <1>4
    <3> QED BY <3>1, <3>2
  <2>2. \A i \in DOMAIN list : RowLacks(names, list[i]) <=> \E j \in DOMAIN names : Value(i, j) = Err
    BY <1>5, <1>6 DEF RowLacks
  <2> QED BY <2>1, <2>2
<1>8. ASSUME ~\E i \in DOMAIN list : RowLacks(names, list[i])
      PROVE  batch = FeatureBatch(names, n, list)
  <2>1. \A i \in DOMAIN list, j \in DOMAIN names : Value(i, j) = SeenBy(names[j], list[i], n)
    BY <1>5, <1>8 DEF RowLacks
  <2>2. \A i \in DOMAIN list :
          [j \in DOMAIN names |-> Value(i, j)] = RowFeatures(names, list[i], n)
    BY <2>1 DEF RowFeatures
  <2> QED BY <1>4, <2>2 DEF FeatureBatch
<1>9. FeaturesOf(inputs, names)
        = IF \E i \in DOMAIN list : RowLacks(names, list[i]) THEN Err
          ELSE FeatureBatch(names, n, list)
  BY <1>3, <1>7, <1>8
<1> QED BY <1>9 DEF inputs

LEMMA BatchIsResult ==
  ASSUME NEW dense \in Seq(RankedRow), NEW sparse \in Seq(RankedRow), NEW n \in Nat,
         NEW list, SeenList(dense, sparse, list), NEW names \in Seq(STRING),
         ~\E i \in DOMAIN list : RowLacks(names, list[i])
  PROVE  /\ FeatureBatch(names, n, list) # Err
         /\ \A i \in DOMAIN list : Len(RowFeatures(names, list[i], n)) = Len(names)
<1> DEFINE T == [row_id : Nat, features : Seq(Int)]
           m == Len(names)
           l == Len(list)
           batch == FeatureBatch(names, n, list)
           Row(i) == [row_id |-> list[i].row_id, features |-> RowFeatures(names, list[i], n)]
<1>1. m \in Nat /\ DOMAIN names = 1..m
  OBVIOUS
<1>2. l \in Nat /\ DOMAIN list = 1..l
  BY DEF SeenList
<1> HIDE DEF m, l
<1>3. ASSUME NEW i \in 1..l
      PROVE  RowFeatures(names, list[i], n) \in Seq(Int) /\ Len(RowFeatures(names, list[i], n)) = m
  <2> DEFINE row == list[i]
             features == RowFeatures(names, row, n)
             inputs == RerankInputs(<<>>, dense, sparse, n)
  <2>1. RowSeen(dense, sparse, row)
    BY <1>2 DEF SeenList
  <2>2. \A j \in 1..m : ~NameLacks(names[j], row)
    BY <1>1, <1>2 DEF RowLacks
  <2> HIDE DEF row
  <2>3. ASSUME NEW j \in 1..m PROVE SeenBy(names[j], row, n) \in Int
    <3>1. LET value == FeatureValue(names[j], row, 1, inputs)
          IN value = SeenBy(names[j], row, n) /\ value \in Int
      <4> HIDE DEF inputs
      <4> QED BY <2>1, <2>2, FeatureIs DEF inputs
    <3> QED BY <3>1
  <2>4. features \in [1..m -> Int]
    BY <1>1, <2>3 DEF RowFeatures
  <2> HIDE DEF features
  <2>5. features \in Seq(Int) /\ Len(features) = m
    BY <1>1, <2>4, ListIsSeq, LenOfFunction
  <2> QED BY <2>5 DEF features, row
<1>4. batch = [q \in 1..1 |-> [i \in 1..l |-> Row(i)]]
  BY <1>2 DEF FeatureBatch
<1>5. \A i \in 1..l : Row(i) \in T
  <2> SUFFICES ASSUME NEW i \in 1..l PROVE Row(i) \in T
    OBVIOUS
  <2>1. list[i].row_id \in Nat
    BY <1>2 DEF SeenList, RowSeen
  <2> QED BY <1>3, <2>1
<1> HIDE DEF batch, Row, T
<1>6. [i \in 1..l |-> Row(i)] \in Seq(T)
  <2> DEFINE rows == [i \in 1..l |-> Row(i)]
  <2>1. rows \in [1..l -> T]
    BY <1>5
  <2> HIDE DEF rows
  <2> QED BY <1>2, <2>1, ListIsSeq DEF rows
<1>7. batch \in [1..1 -> Seq(T)]
  BY <1>4, <1>6
<1>8. batch \in Seq(Seq(T))
  <2> DEFINE ST == Seq(T)
  <2> HIDE DEF ST
  <2>1. batch \in Seq(ST)
    <3>1. batch \in [1..1 -> ST] /\ 1 \in Nat
      BY <1>7 DEF ST
    <3> QED BY <3>1, ListIsSeq
  <2> QED BY <2>1 DEF ST
<1>9. batch # Err
  BY <1>8, ResultsAreNeither DEF T
<1> QED BY <1>2, <1>3, <1>9 DEF batch, m

LEMMA RerankedRowsAre ==
  ASSUME NEW m, ModelAccepted(m), NEW dense, NEW sparse, NEW n \in Nat,
         NEW list, SeenList(dense, sparse, list),
         \A i \in DOMAIN list : Len(RowFeatures(m.names, list[i], n)) = Len(m.names)
  PROVE  /\ IsFiniteSet(RerankedRows(m, n, list)) /\ RowsOf(RerankedRows(m, n, list))
         /\ Cardinality(RerankedRows(m, n, list)) = Len(list)
         /\ RerankedRows(m, n, list) \subseteq RankedRow
<1> DEFINE l == Len(list)
           Score(i) == ScoreFeatures(m, RowFeatures(m.names, list[i], n))
           Row(i) == [row_id |-> list[i].row_id, score |-> Score(i)]
           rows == RerankedRows(m, n, list)
           f == [i \in 1..l |-> Row(i)]
<1>1. l \in Nat /\ DOMAIN list = 1..l
  BY DEF SeenList
<1>2. rows = {Row(i) : i \in DOMAIN list}
  BY DEF RerankedRows
<1>3. \A i \in DOMAIN list : Score(i) \in Int
  BY ScoreIsInt DEF ModelAccepted
<1>4. \A i \in DOMAIN list : list[i].row_id \in Nat
  BY DEF SeenList, RowSeen
<1>5. \A i, j \in DOMAIN list : list[i].row_id = list[j].row_id => i = j
  BY DEF SeenList
<1> HIDE DEF l, Score, rows
<1>6. rows \subseteq RankedRow
  BY <1>2, <1>3, <1>4 DEF RankedRow
<1>7. \A i, j \in DOMAIN list : Row(i).row_id = Row(j).row_id => i = j
  BY <1>5
<1>8. \A s, t \in rows : s.row_id = t.row_id => s = t
  <2> HIDE DEF Row
  <2> QED BY <1>2, <1>7
<1>9. RowsOf(rows)
  BY <1>6, <1>8 DEF RowsOf, RankedRow
<1>10. f \in Bijection(1..l, rows)
  <2>1. \A i, j \in 1..l : Row(i) = Row(j) => i = j
    BY <1>1, <1>7
  <2> HIDE DEF Row
  <2> QED BY <1>1, <1>2, <2>1 DEF Bijection, Injection, IsInjective, Surjection
<1> HIDE DEF f
<1>11. ExistsBijection(1..l, rows)
  BY <1>10 DEF ExistsBijection
<1>12. IsFiniteSet(rows) /\ Cardinality(rows) = l
  BY <1>1, <1>11, FS_CountingElements, FS_Interval, FS_Bijection
<1> QED BY <1>6, <1>9, <1>12 DEF l, rows

LEMMA SparseRowsAre ==
  ASSUME NEW f \in SparseFiles, ValidateLayout(f), IdfFits(f), NEW query \in Texts
  PROVE  RowsOf(SearchRows(f, query, None)) /\ \A r \in SearchRows(f, query, None) : r \in RankedRow
<1> DEFINE terms == QueryList(f, query)
           docs == AllowedDocs(f, None)
           hit == HitDocs(f, query, None)
           Score(d) == DocScore(f, terms, docs, d)
<1>1. terms \in Seq(Terms)
  BY TokenizeIs, FirstOccurrencesAre DEF QueryList
<1>2. hit \subseteq 1..f.doc_count
  BY DEF HitDocs, AllowedDocs
<1>3. SearchRows(f, query, None) = {[row_id |-> f.row_ids[d], score |-> Score(d)] : d \in hit}
  BY DEF SearchRows
<1> HIDE DEF terms, docs, hit
<1>4. \A d \in hit : f.row_ids[d] \in Nat /\ Score(d) \in Int
  BY <1>1, <1>2, AcceptedFile, DocScoreIs
<1> HIDE DEF Score
<1>5. \A r \in SearchRows(f, query, None) : r \in RankedRow
  BY <1>3, <1>4 DEF RankedRow
<1> QED BY <1>5, SparseSearchIs

LEMMA RerankIs ==
  ASSUME NonFinite \notin Int, NEW m, ModelAccepted(m), NEW k \in Windows, NEW n \in Nat,
         NEW dense \in Seq(RankedRow), NEW sparse \in Seq(RankedRow),
         NEW list, SeenList(dense, sparse, list),
         NEW fused, fused = [q \in 1..1 |-> list]
  PROVE  ListReranked(m, n, list, Rerank(m, RerankInputs(fused, dense, sparse, n), k), k)
<1> DEFINE inputs == RerankInputs(fused, dense, sparse, n)
           result == Rerank(m, inputs, k)
           rows == RerankedRows(m, n, list)
           best == Take(RankOrder(rows), k)
           batch == FeatureBatch(m.names, n, list)
<1>1. m.names \in Seq(STRING) /\ IsFeatureList(m.names)
  BY DEF ModelAccepted, ModelTyped
<1>2. FeaturesOf(inputs, m.names)
        = IF \E i \in DOMAIN list : RowLacks(m.names, list[i]) THEN Err ELSE batch
  BY <1>1, FeaturesAre
<1> HIDE DEF inputs
<1>3. CASE \E i \in DOMAIN list : RowLacks(m.names, list[i])
  <2>1. FeaturesOf(inputs, m.names) = Err
    BY <1>2, <1>3
  <2>2. result = Err
    BY <2>1 DEF Rerank
  <2> HIDE DEF result
  <2>3. ListReranked(m, n, list, result, k)
    BY <1>3, <2>2 DEF ListReranked
  <2> QED BY <2>3 DEF result, inputs
<1>4. CASE ~\E i \in DOMAIN list : RowLacks(m.names, list[i])
  <2>1. FeaturesOf(inputs, m.names) = batch
    BY <1>2, <1>4
  <2>2. batch # Err /\ \A i \in DOMAIN list : Len(RowFeatures(m.names, list[i], n)) = Len(m.names)
    BY <1>1, <1>4, BatchIsResult
  <2>3. /\ IsFiniteSet(rows) /\ RowsOf(rows) /\ Cardinality(rows) = Len(list)
        /\ rows \subseteq RankedRow
    BY <2>2, RerankedRowsAre
  <2>4. \A i \in DOMAIN list : ScoreFeatures(m, RowFeatures(m.names, list[i], n)) # Err
    BY <2>2, ScoreIsInt DEF ModelAccepted
  <2>5. /\ DOMAIN batch = 1..1 /\ batch[1] = batch[1]
        /\ DOMAIN batch[1] = DOMAIN list
        /\ \A i \in DOMAIN list : /\ batch[1][i].row_id = list[i].row_id
                                  /\ batch[1][i].features = RowFeatures(m.names, list[i], n)
    BY DEF FeatureBatch
  <2> DEFINE lists == [q \in DOMAIN batch |-> RerankQuery(m, batch[q], k)]
  <2> HIDE DEF batch
  <2>6. result = FromSortedOffsetsHits(OffsetsOf(lists), SeqExt!FlattenSeq(lists))
    <3>1. ~\E q \in DOMAIN batch : \E i \in DOMAIN batch[q] :
             ScoreFeatures(m, batch[q][i].features) = Err
      <4> SUFFICES ASSUME NEW q \in 1..1, NEW i \in DOMAIN batch[q]
                   PROVE  ScoreFeatures(m, batch[q][i].features) # Err
        BY <2>5
      <4>1. q = 1
        OBVIOUS
      <4> QED BY <2>4, <2>5, <4>1
    <3> QED BY <2>1, <2>2, <3>1 DEF Rerank
  <2>7. lists = [q \in 1..1 |-> best]
    <3>1. RerankQuery(m, batch[1], k) = best
      <4>1. {[row_id |-> batch[1][i].row_id, score |-> ScoreFeatures(m, batch[1][i].features)] :
               i \in DOMAIN batch[1]} = rows
        BY <2>5 DEF RerankedRows
      <4> HIDE DEF rows
      <4> QED BY <4>1 DEF RerankQuery
    <3>2. \A q \in 1..1 : q = 1
      OBVIOUS
    <3> HIDE DEF best
    <3> QED BY <2>5, <3>1, <3>2
  <2> DEFINE c == Cut(Cardinality(rows), k)
  <2> HIDE DEF rows
  <2>8. BestRows(rows, c, best)
    BY <2>3, BestTaken
  <2> HIDE DEF best, c
  <2>9. IsRankedSlice(best) /\ Len(best) = c /\ DOMAIN best = 1..c /\ best \in Seq(rows)
    BY <2>3, <2>8, BestAreRanked
  <2>10. lists \in [1..1 -> Seq(rows)] /\ 1 \in Nat /\ lists[1] = best
    BY <2>7, <2>9
  <2> HIDE DEF lists
  <2>11. \A q \in 1..1 : IsRankedSlice(lists[q])
    BY <2>9, <2>10
  <2>12. result = lists
    BY <2>6, <2>10, <2>11, LaidEndToEnd
  <2>13. result # Err
    <3> DEFINE Rows == Seq(RankedRow)
    <3>1. best \in Rows
      <4>1. \A i \in 1..c : best[i] \in RankedRow
        BY <2>3, <2>8 DEF BestRows
      <4>2. best = [i \in 1..c |-> best[i]]
        BY <2>8 DEF BestRows
      <4>3. best \in [1..c -> RankedRow]
        BY <4>1, <4>2
      <4>4. c \in Nat
        BY <2>9
      <4> QED BY <4>3, <4>4, ListIsSeq
    <3> HIDE DEF Rows
    <3>2. lists \in [1..1 -> Rows]
      BY <2>7, <3>1
    <3>3. lists \in Seq(Rows)
      BY <2>10, <3>2, ListIsSeq
    <3> QED BY <2>12, <3>3, ResultsAreNeither DEF Rows, RankedRow
  <2>14. Len(Take(list, k)) = c
    <3>1. list \in Seq(FusedRows(dense, sparse, DefaultFusion))
      BY DEF SeenList
    <3>2. Take(list, k) \in Seq(FusedRows(dense, sparse, DefaultFusion))
          /\ DOMAIN Take(list, k) = 1..Cut(Len(list), k) /\ Cut(Len(list), k) \in 0..Len(list)
      BY <3>1, TakeIs
    <3>3. Cut(Len(list), k) = c
      BY <2>3 DEF c
    <3> QED BY <2>9, <3>2, <3>3
  <2>15. /\ \A i \in 1..c : best[i] \in rows
         /\ \A i, j \in 1..c : i < j => RanksBefore(best[i], best[j])
         /\ \A r \in rows : (\E i \in 1..c : best[i] = r) \/ \A i \in 1..c : RanksBefore(best[i], r)
    BY <2>8 DEF BestRows
  <2>16. \A i \in 2..c : RanksBefore(best[i - 1], best[i])
    <3> SUFFICES ASSUME NEW i \in 2..c PROVE RanksBefore(best[i - 1], best[i])
      OBVIOUS
    <3>1. i - 1 \in 1..c /\ i \in 1..c /\ i - 1 < i
      BY <2>9
    <3> QED BY <2>15, <3>1
  <2>17. result[1] = best
    BY <2>10, <2>12
  <2> HIDE DEF result
  <2>18. ListReranked(m, n, list, result, k)
    BY <1>4, <2>9, <2>13, <2>14, <2>15, <2>16, <2>17 DEF ListReranked, rows
  <2> QED BY <2>18 DEF result, inputs
<1> QED BY <1>3, <1>4

LEMMA ModelReranks == DataInv /\ ModelInv => RerankIsSound
<1> SUFFICES ASSUME DataInv, ModelInv, BothOpen, model \notin {None, Err},
                    NEW q \in QueryTexts, NEW k \in {0, 1, Unlimited}
             PROVE  RerankRight(model, Len(q), DenseList(halves.ids), SparseList(q), k)
  BY DEF RerankIsSound, RerankRight
<1> DEFINE f == halves.sparse.file
           dense == DenseList(halves.ids)
           sparse == SparseList(q)
           fused == RrfFuseBatch(<<dense>>, <<sparse>>, DefaultFusion)
           list == fused[1]
<1>1. halves.ids \in RowLists /\ GoodFile(f) /\ OpenIndex(f) # Err
  BY DEF DataInv, BothOpen
<1>2. q \in Texts /\ NonFinite \notin Int /\ DOMAIN DenseScore \subseteq Nat
  BY InputsAreTyped
<1>3. f \in SparseFiles /\ ValidateLayout(f) /\ IdfFits(f)
  BY <1>1, GoodIdf DEF GoodFile, OpenIndex
<1>4. dense \in Seq(RankedRow)
  <2> DEFINE A == [row_id : DOMAIN DenseScore, score : Int]
  <2>1. dense \in Seq(A)
    BY <1>1, DenseListIs
  <2>2. A \subseteq RankedRow
    BY <1>2 DEF RankedRow
  <2> HIDE DEF dense, A
  <2> QED BY <2>1, <2>2
<1>5. sparse \in Seq(RankedRow)
  <2> DEFINE B == SearchRows(f, q, None)
  <2>1. sparse \in Seq(B)
    BY <1>2, <1>3, SparseListIs DEF SparseList
  <2>2. RowsOf(B) /\ \A r \in B : r \in RankedRow
    BY <1>2, <1>3, SparseRowsAre
  <2> HIDE DEF sparse, B
  <2> QED BY <2>1, <2>2
<1>6. Len(q) \in Nat /\ k \in Windows
  BY <1>2 DEF Texts, Windows
<1>7. ModelAccepted(model)
  BY DEF ModelInv
<1> HIDE DEF dense, sparse
<1>8. /\ fused = [i \in 1..1 |-> list]
      /\ list \in Seq(FusedRows(dense, sparse, DefaultFusion))
      /\ \A i, j \in DOMAIN list : list[i].row_id = list[j].row_id => i = j
      /\ \A row \in FusedRows(dense, sparse, DefaultFusion) : RowSeen(dense, sparse, row)
  BY <1>4, <1>5, FusedListIs
<1> HIDE DEF fused, list
<1>9. SeenList(dense, sparse, list)
  BY <1>8 DEF SeenList
<1>10. ListReranked(model, Len(q), list,
                    Rerank(model, RerankInputs(fused, dense, sparse, Len(q)), k), k)
  BY <1>2, <1>4, <1>5, <1>6, <1>7, <1>8, <1>9, RerankIs
<1>11. RerankRight(model, Len(q), dense, sparse, k)
  BY <1>10, RerankedIsRight DEF fused, list
<1> QED BY <1>11 DEF dense, sparse

\* Reranking returns the fused candidates themselves, scored by the trees of
\* the model over the ranks and scores fusion gave them, in order and cut at
\* top_k, and fails exactly when a candidate lacks a feature: for any corpora,
\* texts, damage, dense scores and models that were accepted.
THEOREM RerankingsAreSound == Spec => []RerankIsSound
<1>1. Spec => []HalvesInv
  BY HalvesInit, HalvesStep, PTL DEF Spec
<1>2. Spec => []DataInv
  BY <1>1, DataInit, DataStep, PTL DEF Spec
<1>3. Spec => []ModelInv
  BY ModelInit, ModelStep, PTL DEF Spec
<1> QED BY <1>2, <1>3, ModelReranks, PTL

-----------------------------------------------------------------------------
(* Sums in any order                                                       *)

\* A sum without one of its items
Without(s, n, p, t) == \A i \in 1..n : t[i] = IF i < p THEN s[i] ELSE s[i + 1]

LEMMA SumWithout ==
  ASSUME NEW n \in Nat, NEW s \in [1..(n + 1) -> Int], NEW p \in 1..(n + 1),
         NEW F, Sums(s, n + 1, F),
         NEW t, Without(s, n, p, t),
         NEW G, Sums(t, n, G)
  PROVE  G[n] = F[n + 1] - s[p]
<1> DEFINE P == {i \in 0..n : G[i] = IF i < p THEN F[i] ELSE F[i + 1] - s[p]}
<1>1. /\ \A i \in 0..(n + 1) : F[i] \in Int
      /\ F[0] = 0 /\ \A i \in 1..(n + 1) : F[i] = F[i - 1] + s[i] /\ s[i] \in Int
  BY DEF Sums
<1>2. /\ G[0] = 0 /\ \A i \in 1..n : G[i] = G[i - 1] + t[i]
  BY DEF Sums
<1>3. 0 \in P
  BY <1>1, <1>2
<1>4. \A k \in 0..n : k \in P /\ k < n => k + 1 \in P
  <2> SUFFICES ASSUME NEW k \in 0..n, k \in P, k < n PROVE k + 1 \in P
    OBVIOUS
  <2>1. k + 1 \in 1..n /\ (k + 1) - 1 = k /\ k + 1 \in 0..n
    OBVIOUS
  <2>2. G[k] = IF k < p THEN F[k] ELSE F[k + 1] - s[p]
    OBVIOUS
  <2>3. G[k + 1] = G[k] + t[k + 1]
    BY <1>2, <2>1
  <2>4. t[k + 1] = IF k + 1 < p THEN s[k + 1] ELSE s[k + 1 + 1]
    BY <2>1 DEF Without
  <2>5. /\ k + 1 \in 1..(n + 1) /\ k + 1 + 1 \in 1..(n + 1) /\ (k + 1 + 1) - 1 = k + 1
        /\ k \in 0..(n + 1) /\ k + 1 \in 0..(n + 1) /\ k + 1 + 1 \in 0..(n + 1)
    BY <2>1
  <2>6. /\ F[k + 1] = F[k] + s[k + 1] /\ F[k + 1 + 1] = F[k + 1] + s[k + 1 + 1]
        /\ F[k] \in Int /\ s[k + 1] \in Int /\ s[k + 1 + 1] \in Int /\ s[p] \in Int
    BY <1>1, <2>1, <2>5
  <2>7. G[k + 1] = IF k + 1 < p THEN F[k + 1] ELSE F[k + 1 + 1] - s[p]
    <3>1. CASE k + 1 < p
      <4>1. k < p
        BY <3>1
      <4> QED BY <3>1, <4>1, <2>2, <2>3, <2>4, <2>6
    <3>2. CASE k + 1 = p
      <4>1. k < p /\ ~(k + 1 < p)
        BY <3>2
      <4>2. G[k + 1] = F[k] + s[k + 1 + 1]
        BY <4>1, <2>2, <2>3, <2>4
      <4>3. F[k + 1 + 1] - s[p] = F[k] + s[k + 1 + 1]
        <5> DEFINE x == F[k]
                   y == s[k + 1]
                   z == s[k + 1 + 1]
                   end == F[k + 1 + 1]
        <5>1. s[p] = y
          BY <3>2
        <5>2. x \in Int /\ y \in Int /\ z \in Int /\ end = x + y + z
          BY <2>6
        <5> HIDE DEF x, y, z, end
        <5>3. end - y = x + z
          BY <5>2
        <5> QED BY <5>1, <5>3 DEF x, z, end
      <4> QED BY <4>1, <4>2, <4>3
    <3>3. CASE k + 1 > p
      <4>1. ~(k < p) /\ ~(k + 1 < p)
        BY <3>3
      <4>2. G[k + 1] = F[k + 1] - s[p] + s[k + 1 + 1]
        BY <4>1, <2>2, <2>3, <2>4
      <4>3. F[k + 1 + 1] - s[p] = F[k + 1] - s[p] + s[k + 1 + 1]
        BY <2>6
      <4> QED BY <4>1, <4>2, <4>3
    <3> QED BY <3>1, <3>2, <3>3
  <2> QED BY <2>1, <2>7
<1>5. P = 0..n
  <2> HIDE DEF P
  <2>1. P \in SUBSET (0..n)
    BY DEF P
  <2> QED BY <1>3, <1>4, <2>1, CountUp
<1>6. G[n] = IF n < p THEN F[n] ELSE F[n + 1] - s[p]
  <2>1. n \in P
    BY <1>5
  <2> QED BY <2>1
<1>7. CASE n < p
  <2>1. p = n + 1 /\ (n + 1) - 1 = n /\ n + 1 \in 1..(n + 1) /\ n \in 0..(n + 1)
    BY <1>7
  <2>2. F[n + 1] = F[n] + s[n + 1] /\ F[n] \in Int /\ s[n + 1] \in Int
    BY <1>1, <2>1
  <2> QED BY <1>6, <1>7, <2>1, <2>2
<1>8. CASE ~(n < p)
  BY <1>6, <1>8
<1> QED BY <1>7, <1>8

\* a lists m members of Q, each once.
ListsOnce(a, m, Q) == a \in [1..m -> Q] /\ \A i, j \in 1..m : a[i] = a[j] => i = j

\* F are the sums of what h gives the members a lists.
ListSums(Q, h, m, a, F) == ListsOnce(a, m, Q) /\ Sums([i \in 1..m |-> h[a[i]]], m, F)

\* Item p of k + 1 is left out.
LeftOut(Q, h, k, a, F, p, c, G) ==
  /\ ListSums(Q, h, k, c, G)
  /\ F[k + 1] \in Int /\ h[a[p]] \in Int /\ G[k] = F[k + 1] - h[a[p]]
  /\ \A j \in 1..k : \E i \in 1..(k + 1) : i # p /\ c[j] = a[i]
  /\ \A i \in 1..(k + 1) : i # p => \E j \in 1..k : c[j] = a[i]

LEMMA OneLeftOut ==
  ASSUME NEW Q, NEW h \in [Q -> Int], NEW k \in Nat, NEW a, NEW F, ListSums(Q, h, k + 1, a, F),
         NEW p \in 1..(k + 1)
  PROVE  \E c, G : LeftOut(Q, h, k, a, F, p, c, G)
<1> DEFINE s == [i \in 1..(k + 1) |-> h[a[i]]]
           Other(j) == IF j < p THEN j ELSE j + 1
           c == [j \in 1..k |-> a[Other(j)]]
           t == [j \in 1..k |-> h[c[j]]]
<1>1. /\ a \in [1..(k + 1) -> Q] /\ \A i, j \in 1..(k + 1) : a[i] = a[j] => i = j
      /\ Sums(s, k + 1, F)
  BY DEF ListSums, ListsOnce
<1>2. \A j \in 1..k : /\ Other(j) \in 1..(k + 1) /\ Other(j) # p
                      /\ \A i \in 1..k : Other(i) = Other(j) => i = j
  OBVIOUS
<1>3. \A i \in 1..(k + 1) : i # p => \E j \in 1..k : Other(j) = i
  <2> SUFFICES ASSUME NEW i \in 1..(k + 1), i # p PROVE \E j \in 1..k : Other(j) = i
    OBVIOUS
  <2>1. CASE i < p
    <3>1. i \in 1..k /\ Other(i) = i
      BY <2>1
    <3> QED BY <3>1
  <2>2. CASE i > p
    <3>1. i - 1 \in 1..k /\ Other(i - 1) = i
      BY <2>2
    <3> QED BY <3>1
  <2> QED BY <2>1, <2>2
<1>4. s \in [1..(k + 1) -> Int] /\ \A i \in 1..(k + 1) : s[i] = h[a[i]]
  BY <1>1
<1>5. \A j \in 1..k : t[j] = IF j < p THEN s[j] ELSE s[j + 1]
  <2> SUFFICES ASSUME NEW j \in 1..k PROVE t[j] = IF j < p THEN s[j] ELSE s[j + 1]
    OBVIOUS
  <2>1. t[j] = h[a[Other(j)]] /\ Other(j) \in 1..(k + 1)
    BY <1>2
  <2>2. t[j] = s[Other(j)]
    <3> HIDE DEF t, s, Other
    <3> QED BY <1>4, <2>1
  <2> HIDE DEF s, t
  <2> QED BY <2>2
<1> HIDE DEF Other
<1>7. ListsOnce(c, k, Q)
  <2>1. c \in [1..k -> Q]
    BY <1>1, <1>2
  <2>2. ASSUME NEW i \in 1..k, NEW j \in 1..k, c[i] = c[j] PROVE i = j
    <3>1. a[Other(i)] = a[Other(j)]
      BY <2>2
    <3>2. Other(i) = Other(j)
      BY <1>1, <1>2, <3>1
    <3> QED BY <1>2, <3>2
  <2> HIDE DEF c
  <2> QED BY <2>1, <2>2 DEF ListsOnce
<1>8. t \in [1..k -> Int]
  <2> HIDE DEF c
  <2> QED BY <1>7 DEF ListsOnce
<1>9. /\ \A j \in 1..k : \E i \in 1..(k + 1) : i # p /\ c[j] = a[i]
      /\ \A i \in 1..(k + 1) : i # p => \E j \in 1..k : c[j] = a[i]
  <2>1. \A j \in 1..k : c[j] = a[Other(j)]
    OBVIOUS
  <2> HIDE DEF c
  <2> QED BY <1>2, <1>3, <2>1
<1> HIDE DEF s
<1>10. PICK G : Sums(t, k, G)
  <2> HIDE DEF t
  <2> QED BY <1>8, SumsExist
<1>11. G[k] = F[k + 1] - s[p]
  <2>1. Sums(s, k + 1, F) /\ s \in [1..(k + 1) -> Int]
    BY <1>1, <1>4
  <2> HIDE DEF t
  <2>2. Without(s, k, p, t)
    BY <1>5 DEF Without
  <2> QED BY <1>10, <2>1, <2>2, SumWithout
<1>12. s[p] = h[a[p]] /\ s[p] \in Int
  BY <1>4
<1>13. F[k + 1] \in Int
  <2>1. F \in [0..(k + 1) -> Int] /\ k + 1 \in 0..(k + 1)
    BY <1>1 DEF Sums
  <2> QED BY <2>1
<1>14. ListSums(Q, h, k, c, G)
  <2> HIDE DEF c
  <2> QED BY <1>7, <1>10 DEF ListSums
<1> HIDE DEF c
<1>15. LeftOut(Q, h, k, a, F, p, c, G)
  BY <1>9, <1>11, <1>12, <1>13, <1>14 DEF LeftOut
<1> QED BY <1>15

\* The order in which a set of numbers is listed does not change the sum.
SameSums(Q, h, m) ==
  \A a, b, F, G :
    /\ ListSums(Q, h, m, a, F) /\ ListSums(Q, h, m, b, G)
    /\ \A i \in 1..m : \E j \in 1..m : b[j] = a[i]
    => F[m] = G[m]

LEMMA SumsReordered ==
  ASSUME NEW Q, NEW h \in [Q -> Int], NEW m \in Nat
  PROVE  SameSums(Q, h, m)
<1> DEFINE P == {k \in 0..m : SameSums(Q, h, k)}
<1>1. 0 \in P
  <2>1. SameSums(Q, h, 0)
    BY DEF SameSums, ListSums, Sums
  <2> QED BY <2>1
<1>2. \A k \in 0..m : k \in P /\ k < m => k + 1 \in P
  <2> SUFFICES ASSUME NEW k \in 0..m, SameSums(Q, h, k), k < m PROVE SameSums(Q, h, k + 1)
    OBVIOUS
  <2>0. k \in Nat
    OBVIOUS
  <2> SUFFICES ASSUME NEW a, NEW b, NEW F, NEW G,
                      ListSums(Q, h, k + 1, a, F), ListSums(Q, h, k + 1, b, G),
                      \A i \in 1..(k + 1) : \E j \in 1..(k + 1) : b[j] = a[i]
               PROVE  F[k + 1] = G[k + 1]
    BY DEF SameSums
  <2>1. k + 1 \in 1..(k + 1)
    BY <2>0
  <2>2. PICK p \in 1..(k + 1) : b[p] = a[k + 1]
    BY <2>1
  <2>3. PICK c, F1 : LeftOut(Q, h, k, a, F, k + 1, c, F1)
    BY <2>0, <2>1, OneLeftOut
  <2>4. PICK d, G1 : LeftOut(Q, h, k, b, G, p, d, G1)
    BY <2>0, OneLeftOut
  <2>5. \A i \in 1..k : \E j \in 1..k : d[j] = c[i]
    <3> SUFFICES ASSUME NEW i \in 1..k PROVE \E j \in 1..k : d[j] = c[i]
      OBVIOUS
    <3>1. PICK l \in 1..(k + 1) : l # k + 1 /\ c[i] = a[l]
      BY <2>3 DEF LeftOut
    <3>2. PICK j \in 1..(k + 1) : b[j] = a[l]
      OBVIOUS
    <3>3. a[l] # a[k + 1]
      BY <2>1, <3>1 DEF ListSums, ListsOnce
    <3>4. j # p
      BY <2>2, <3>2, <3>3
    <3> QED BY <2>4, <3>1, <3>2, <3>4 DEF LeftOut
  <2>6. ListSums(Q, h, k, c, F1) /\ ListSums(Q, h, k, d, G1)
    BY <2>3, <2>4 DEF LeftOut
  <2>7. F1[k] = G1[k]
    BY <2>5, <2>6 DEF SameSums
  <2>8. /\ F1[k] = F[k + 1] - h[a[k + 1]] /\ G1[k] = G[k + 1] - h[b[p]]
        /\ F[k + 1] \in Int /\ G[k + 1] \in Int /\ h[b[p]] \in Int
    BY <2>3, <2>4 DEF LeftOut
  <2> DEFINE x == F[k + 1]
             y == G[k + 1]
             z == h[b[p]]
  <2>9. x \in Int /\ y \in Int /\ z \in Int /\ x - z = y - z
    BY <2>2, <2>7, <2>8
  <2> HIDE DEF x, y, z
  <2>10. x = y
    BY <2>9
  <2> QED BY <2>10 DEF x, y
<1>3. P = 0..m
  <2> HIDE DEF P
  <2>1. P \in SUBSET (0..m)
    BY DEF P
  <2> QED BY <1>1, <1>2, <2>1, CountUp
<1>4. m \in P
  BY <1>3
<1> QED BY <1>4

\* A list of the members of a finite set is what SetToSeq gives, but for the order.
LEMMA SetListed ==
  ASSUME NEW Q, NEW m \in Nat, NEW a, ListsOnce(a, m, Q), \A q \in Q : \E i \in 1..m : a[i] = q
  PROVE  LET b == SeqExt!SetToSeq(Q) IN
         ListsOnce(b, m, Q) /\ (\A q \in Q : \E i \in 1..m : b[i] = q) /\ DOMAIN b = 1..m
<1> DEFINE b == SeqExt!SetToSeq(Q)
<1>1. a \in [1..m -> Q] /\ \A i, j \in 1..m : a[i] = a[j] => i = j
  BY DEF ListsOnce
<1>2. IsFiniteSet(1..m)
  BY FS_Interval
<1>2a. Cardinality(1..m) = m
  <2>1. Cardinality(1..m) = IF 1 > m THEN 0 ELSE m - 1 + 1
    BY FS_Interval
  <2> QED BY <2>1
<1>3. a \in Surjection(1..m, Q) /\ a \in Injection(1..m, Q)
  BY <1>1 DEF Surjection, Injection, IsInjective
<1>4. IsFiniteSet(Q) /\ Cardinality(Q) = m
  BY <1>2, <1>2a, <1>3, FS_Surjection
<1>5. b = CHOOSE f \in [1..m -> Q] : IsInjective(f)
  <2>1. SeqExt!Cardinality(Q) = Cardinality(Q)
    BY DEF SeqExt!Cardinality, Cardinality
  <2>2. \A f : SeqExt!IsInjective(f) <=> IsInjective(f)
    BY DEF SeqExt!IsInjective, IsInjective
  <2> QED BY <1>4, <2>1, <2>2 DEF SeqExt!SetToSeq
<1>6. IsInjective(a)
  BY <1>1 DEF IsInjective
<1>7. b \in [1..m -> Q] /\ IsInjective(b)
  <2> HIDE DEF b
  <2> QED BY <1>1, <1>5, <1>6
<1> HIDE DEF b
<1>8. b \in Injection(1..m, Q)
  BY <1>7 DEF Injection
<1>9. b \in Surjection(1..m, Q)
  BY <1>2a, <1>4, <1>8, FS_Injection
<1>10. ListsOnce(b, m, Q)
  BY <1>7 DEF ListsOnce, IsInjective
<1>11. \A q \in Q : \E i \in 1..m : b[i] = q
  BY <1>9 DEF Surjection
<1> QED BY <1>7, <1>10, <1>11 DEF b

\* A list is in order when each of its items is before the next; before is
\* the pairs of places whose items are in order.
LEMMA Chained ==
  ASSUME NEW m \in Nat, NEW before,
         \A i \in 2..m : <<i - 1, i>> \in before,
         \A i, j, l \in 1..m : <<i, j>> \in before /\ <<j, l>> \in before => <<i, l>> \in before
  PROVE  \A i, j \in 1..m : i < j => <<i, j>> \in before
<1> DEFINE P == {j \in 0..m : \A i \in 1..m : i < j => <<i, j>> \in before}
<1>1. 0 \in P
  OBVIOUS
<1>2. \A k \in 0..m : k \in P /\ k < m => k + 1 \in P
  <2> SUFFICES ASSUME NEW k \in 0..m, k \in P, k < m, NEW i \in 1..m, i < k + 1
               PROVE  k + 1 \in 0..m /\ <<i, k + 1>> \in before
    OBVIOUS
  <2>1. k + 1 \in 2..m /\ (k + 1) - 1 = k /\ k \in 1..m /\ k + 1 \in 1..m /\ k + 1 \in 0..m
    OBVIOUS
  <2>2. <<k, k + 1>> \in before
    BY <2>1
  <2>3. CASE i = k
    BY <2>1, <2>2, <2>3
  <2>4. CASE i < k
    <3>1. <<i, k>> \in before
      BY <2>4
    <3> QED BY <2>1, <2>2, <3>1
  <2> QED BY <2>3, <2>4
<1>3. P = 0..m
  <2> HIDE DEF P
  <2>1. P \in SUBSET (0..m)
    BY DEF P
  <2> QED BY <1>1, <1>2, <2>1, CountUp
<1> SUFFICES ASSUME NEW i \in 1..m, NEW j \in 1..m, i < j PROVE <<i, j>> \in before
  OBVIOUS
<1>4. j \in P
  BY <1>3
<1> QED BY <1>4

-----------------------------------------------------------------------------
(* The term table of a file that open accepts                               *)

LEMMA TermsCompare ==
  ASSUME NEW t \in Terms, NEW u \in Terms, NEW v \in Terms
  PROVE  /\ t = u \/ TermBefore(t, u) \/ TermBefore(u, t)
         /\ TermBefore(t, u) => t # u /\ ~TermBefore(u, t)
         /\ TermBefore(t, u) /\ TermBefore(u, v) => TermBefore(t, v)
<1>1. \A w \in Terms : /\ w.base \in Int /\ w.s \in Int
                       /\ w = [base |-> w.base, s |-> w.s, form |-> "lower"]
  <2> SUFFICES ASSUME NEW w \in Terms
               PROVE  /\ w.base \in Int /\ w.s \in Int
                      /\ w = [base |-> w.base, s |-> w.s, form |-> "lower"]
    OBVIOUS
  <2>1. w \in Words /\ w.form = "lower"
    BY DEF Terms, IsNormalizedTerm
  <2>2. w.base \in DOMAIN BaseLen
    BY <2>1 DEF Words
  <2> QED BY <2>1, <2>2, BaseLengths DEF Words
<1> QED BY <1>1 DEF TermBefore

\* The terms of the k entries stand in the order of their bytes.
TermsStand(f, k) ==
  /\ \A i \in 1..k : f.entries[i].term \in Terms
  /\ \A i, j \in 1..k : i < j => TermBefore(f.entries[i].term, f.entries[j].term)

LEMMA TermsAreSorted ==
  ASSUME NEW f \in SparseFiles, ValidateLayout(f)
  PROVE  TermsStand(f, f.term_count)
<1> DEFINE k == f.term_count
           before == {p \in (1..k) \X (1..k) :
                        TermBefore(f.entries[p[1]].term, f.entries[p[2]].term)}
<1>1. k \in Nat /\ DOMAIN f.entries = 1..k
  BY AcceptedFile
<1>2. \A i \in 1..k : f.entries[i].term \in Terms
  <2> SUFFICES ASSUME NEW i \in 1..k PROVE f.entries[i].term \in Terms
    OBVIOUS
  <2>1. f.entries[i] \in EntryRecords
    BY <1>1, FileFields
  <2>2. f.entries[i].term \in Words
    BY <2>1 DEF EntryRecords
  <2>3. IsNormalizedTerm(f.entries[i].term)
    BY <1>1 DEF ValidateLayout, ValidTermTable
  <2> QED BY <2>2, <2>3 DEF Terms
<1>3. \A i \in 2..k : TermBefore(f.entries[i - 1].term, f.entries[i].term)
  <2>1. f.term_count = Len(f.entries)
    BY DEF ValidateLayout, SectionsFit
  <2> QED BY <2>1 DEF ValidateLayout, StrictlySorted
<1> HIDE DEF k
<1>4. \A i, j \in 1..k : <<i, j>> \in before <=> TermBefore(f.entries[i].term, f.entries[j].term)
  OBVIOUS
<1> HIDE DEF before
<1>5. \A i \in 2..k : <<i - 1, i>> \in before
  <2> SUFFICES ASSUME NEW i \in 2..k PROVE <<i - 1, i>> \in before
    OBVIOUS
  <2>1. i - 1 \in 1..k /\ i \in 1..k
    BY <1>1
  <2> QED BY <1>3, <1>4, <2>1
<1>6. ASSUME NEW i \in 1..k, NEW j \in 1..k, NEW l \in 1..k, <<i, j>> \in before, <<j, l>> \in before
      PROVE  <<i, l>> \in before
  BY <1>2, <1>4, <1>6, TermsCompare
<1>7. \A i, j \in 1..k : i < j => <<i, j>> \in before
  BY <1>1, <1>5, <1>6, Chained
<1>8. \A i, j \in 1..k : i < j => TermBefore(f.entries[i].term, f.entries[j].term)
  BY <1>4, <1>7
<1> QED BY <1>2, <1>8 DEF TermsStand, k

\* The states of the search for term: nothing outside lo..hi has it.
SearchBounds(f, term) ==
  {s \in SearchStates(f) :
     /\ s.at = NoEntry =>
          \A i \in 1..f.term_count : f.entries[i].term = term => s.lo < i /\ i <= s.hi
     /\ s.at # NoEntry => s.lo = s.hi /\ f.entries[s.at].term = term}

LEMMA BoundsStay ==
  ASSUME NEW f \in SparseFiles, ValidateLayout(f), NEW term \in Terms, NEW s \in SearchBounds(f, term)
  PROVE  LET next == SearchStep(f, term, s) IN
         next \in SearchBounds(f, term) /\ (s.lo < s.hi => next.hi - next.lo < s.hi - s.lo)
                                        /\ (s.lo >= s.hi => next = s)
<1> DEFINE n == f.term_count
           mid == s.lo + (s.hi - s.lo) \div 2
           next == SearchStep(f, term, s)
           t(i) == f.entries[i].term
<1>1. n \in Nat /\ TermsStand(f, n)
  BY AcceptedFile, TermsAreSorted
<1>2. s \in SearchStates(f) /\ next \in SearchStates(f)
  BY <1>1, StepStays DEF SearchBounds
<1>3. /\ s \in [lo : 0..n, hi : 0..n, at : 0..n] /\ s.lo <= s.hi
      /\ s.lo \in 0..n /\ s.hi \in 0..n /\ s.at \in 0..n
  BY <1>2 DEF SearchStates
<1>4. CASE s.lo >= s.hi
  <2>1. next = s
    BY <1>4 DEF SearchStep
  <2> QED BY <1>3, <1>4, <2>1
<1>5. CASE s.lo < s.hi
  <2>0. ~(s.lo >= s.hi) /\ s.at = NoEntry
    BY <1>3, <1>5 DEF SearchBounds
  <2>1. mid \in Nat /\ s.lo <= mid /\ mid < s.hi
    BY <1>3, <1>5, HalfIs
  <2>2. \/ TermBefore(t(mid + 1), term) /\ next = [s EXCEPT !.lo = mid + 1]
        \/ TermBefore(term, t(mid + 1)) /\ next = [s EXCEPT !.hi = mid]
        \/ /\ ~TermBefore(t(mid + 1), term) /\ ~TermBefore(term, t(mid + 1))
           /\ next = [lo |-> mid, hi |-> mid, at |-> mid + 1]
    BY <2>0 DEF SearchStep
  <2>3. \A i \in 1..n : t(i) = term => s.lo < i /\ i <= s.hi
    BY <2>0 DEF SearchBounds
  <2>4. \A i \in 1..n : t(i) \in Terms
    BY <1>1 DEF TermsStand
  <2>5. \A i, j \in 1..n : i < j => TermBefore(t(i), t(j))
    BY <1>1 DEF TermsStand
  <2> HIDE DEF mid, next, t, n
  <2>6. mid + 1 \in 1..n /\ t(mid + 1) \in Terms
    BY <1>1, <1>3, <2>1, <2>4
  <2>7. CASE TermBefore(t(mid + 1), term) /\ next = [s EXCEPT !.lo = mid + 1]
    <3>1. next.lo = mid + 1 /\ next.hi = s.hi /\ next.at = NoEntry
      BY <1>3, <2>0, <2>7
    <3>2. ASSUME NEW i \in 1..n, t(i) = term PROVE mid + 1 < i
      <4>1. TermBefore(t(mid + 1), t(i))
        BY <2>7, <3>2
      <4>2. i # mid + 1 /\ ~TermBefore(t(i), t(mid + 1))
        BY <2>4, <2>6, <4>1, TermsCompare
      <4>3. ~(i < mid + 1)
        BY <2>5, <2>6, <4>2
      <4> QED BY <2>1, <4>2, <4>3
    <3>3. next \in SearchBounds(f, term)
      BY <1>2, <2>3, <3>1, <3>2 DEF SearchBounds, n, t
    <3>4. next.hi - next.lo < s.hi - s.lo
      BY <1>3, <2>1, <3>1
    <3> QED BY <1>3, <1>5, <3>3, <3>4 DEF next
  <2>8. CASE TermBefore(term, t(mid + 1)) /\ next = [s EXCEPT !.hi = mid]
    <3>1. next.lo = s.lo /\ next.hi = mid /\ next.at = NoEntry
      BY <1>3, <2>0, <2>8
    <3>2. ASSUME NEW i \in 1..n, t(i) = term PROVE i <= mid
      <4>1. TermBefore(t(i), t(mid + 1))
        BY <2>8, <3>2
      <4>2. i # mid + 1 /\ ~TermBefore(t(mid + 1), t(i))
        BY <2>4, <2>6, <4>1, TermsCompare
      <4>3. ~(mid + 1 < i)
        BY <2>5, <2>6, <4>2
      <4> QED BY <2>1, <4>2, <4>3
    <3>3. next \in SearchBounds(f, term)
      BY <1>2, <2>3, <3>1, <3>2 DEF SearchBounds, n, t
    <3>4. next.hi - next.lo < s.hi - s.lo
      BY <1>3, <2>1, <3>1
    <3> QED BY <1>3, <1>5, <3>3, <3>4 DEF next
  <2>9. CASE /\ ~TermBefore(t(mid + 1), term) /\ ~TermBefore(term, t(mid + 1))
             /\ next = [lo |-> mid, hi |-> mid, at |-> mid + 1]
    <3>1. next.lo = mid /\ next.hi = mid /\ next.at = mid + 1
      BY <2>9
    <3>2. t(mid + 1) = term
      BY <2>6, <2>9, TermsCompare
    <3>3. next.at # NoEntry
      BY <2>1, <3>1 DEF NoEntry
    <3>4. next \in SearchBounds(f, term)
      BY <1>2, <3>1, <3>2, <3>3 DEF SearchBounds, t
    <3>5. next.hi - next.lo < s.hi - s.lo
      BY <1>3, <1>5, <2>1, <3>1
    <3> QED BY <1>3, <1>5, <3>4, <3>5 DEF next
  <2> QED BY <2>2, <2>7, <2>8, <2>9
<1> QED BY <1>3, <1>4, <1>5

\* find_term gives the entry of the term, or none when there is none.
LEMMA FindTermFinds ==
  ASSUME NEW f \in SparseFiles, ValidateLayout(f), NEW term \in Terms
  PROVE  \/ FindTerm(f, term) = NoEntry /\ \A i \in 1..f.term_count : f.entries[i].term # term
         \/ FindTerm(f, term) \in 1..f.term_count /\ f.entries[FindTerm(f, term)].term = term
<1> DEFINE n == f.term_count
           X == SearchBounds(f, term)
<1>1. n \in Nat
  BY AcceptedFile
<1>2. SearchStart(f) \in X
  <2>1. SearchStart(f) \in SearchStates(f)
    BY <1>1 DEF SearchStart, SearchStates, NoEntry
  <2>2. SearchStart(f).at = NoEntry /\ SearchStart(f).lo = 0 /\ SearchStart(f).hi = n
    BY DEF SearchStart
  <2>3. \A i \in 1..n : 0 < i /\ i <= n
    BY <1>1
  <2> QED BY <2>1, <2>2, <2>3 DEF SearchBounds
<1>3. \A s \in X : SearchStep(f, term, s) \in X
  BY BoundsStay
<1>4. /\ \A s \in X : s.lo < s.hi =>
           SearchStep(f, term, s).hi - SearchStep(f, term, s).lo < s.hi - s.lo
      /\ \A s \in X : s.lo >= s.hi => SearchStep(f, term, s) = s
  BY BoundsStay
<1>5. \A s \in X : s \in SearchStates(f) /\ s.lo \in 0..n /\ s.hi \in 0..n /\ s.at \in 0..n /\ s.lo <= s.hi
  BY DEF SearchBounds, SearchStates
<1>6. \A s \in X : s.lo = s.hi =>
        \/ s.at = NoEntry /\ \A i \in 1..n : f.entries[i].term # term
        \/ s.at \in 1..n /\ f.entries[s.at].term = term
  <2> SUFFICES ASSUME NEW s \in X, s.lo = s.hi
               PROVE  \/ s.at = NoEntry /\ \A i \in 1..n : f.entries[i].term # term
                      \/ s.at \in 1..n /\ f.entries[s.at].term = term
    OBVIOUS
  <2>1. s.lo \in 0..n /\ s.at \in 0..n
    BY <1>5
  <2>2. CASE s.at = NoEntry
    <3>1. \A i \in 1..n : f.entries[i].term = term => s.lo < i /\ i <= s.hi
      BY <2>2 DEF SearchBounds
    <3>2. \A i \in 1..n : ~(s.lo < i /\ i <= s.lo)
      BY <1>1, <2>1
    <3> QED BY <2>2, <3>1, <3>2
  <2>3. CASE s.at # NoEntry
    <3>1. s.at \in 1..n
      BY <1>1, <2>1, <2>3 DEF NoEntry
    <3> QED BY <2>3, <3>1 DEF SearchBounds
  <2> QED BY <2>2, <2>3
<1> HIDE DEF X
<1>7. PICK g : Searches(f, term, X, g)
  BY <1>1, <1>2, <1>3, SearchExists
<1>8. /\ g \in [0..n -> X] /\ g[0] = SearchStart(f)
      /\ \A i \in 1..n : g[i] = SearchStep(f, term, g[i - 1])
      /\ FindTerm(f, term) = g[n].at
  BY <1>7 DEF Searches
<1> HIDE DEF n
<1> DEFINE P == {i \in 0..n : g[i].hi - g[i].lo <= n - i}
<1>9. 0 \in P
  <2>1. SearchStart(f).hi = n /\ SearchStart(f).lo = 0
    BY DEF SearchStart, n
  <2> QED BY <1>1, <1>8, <2>1
<1>10. \A k \in 0..n : k \in P /\ k < n => k + 1 \in P
  <2> SUFFICES ASSUME NEW k \in 0..n, g[k].hi - g[k].lo <= n - k, k < n PROVE k + 1 \in P
    OBVIOUS
  <2>1. k + 1 \in 1..n /\ (k + 1) - 1 = k /\ k + 1 \in 0..n
    BY <1>1
  <2> DEFINE s == g[k]
             r == g[k + 1]
  <2>2. r = SearchStep(f, term, s) /\ s \in X /\ r \in X
    BY <1>8, <2>1
  <2>3. s.hi - s.lo <= n - k
    OBVIOUS
  <2> SUFFICES r.hi - r.lo <= n - (k + 1)
    BY <2>1
  <2> HIDE DEF s, r
  <2>4. s.lo \in Int /\ s.hi \in Int /\ s.lo <= s.hi /\ r.lo \in Int /\ r.hi \in Int
    BY <1>5, <2>2
  <2>5. CASE s.lo < s.hi
    <3>1. r.hi - r.lo < s.hi - s.lo
      BY <1>4, <2>2, <2>5
    <3> QED BY <1>1, <2>3, <2>4, <3>1
  <2>6. CASE s.lo >= s.hi
    <3>1. r = s
      BY <1>4, <2>2, <2>6
    <3>2. r.hi - r.lo <= 0
      BY <2>4, <2>6, <3>1
    <3> QED BY <1>1, <2>4, <3>2
  <2> QED BY <2>4, <2>5, <2>6
<1>11. P = 0..n
  <2> HIDE DEF P
  <2>1. P \in SUBSET (0..n)
    BY DEF P
  <2> QED BY <1>1, <1>9, <1>10, <2>1, CountUp
<1>12. g[n].hi - g[n].lo <= n - n
  <2>1. n \in P
    BY <1>1, <1>11
  <2> QED BY <2>1
<1>13. g[n] \in X
  BY <1>1, <1>8
<1>14. g[n].lo = g[n].hi
  <2>1. g[n].lo \in 0..n /\ g[n].hi \in 0..n /\ g[n].lo <= g[n].hi
    BY <1>5, <1>13
  <2> QED BY <1>1, <1>12, <2>1
<1> QED BY <1>6, <1>8, <1>13, <1>14 DEF n

-----------------------------------------------------------------------------
(* How often a term occurs in a document                                    *)

\* Entry i has a posting of document d with term frequency tf.
Posts(f, i, d, tf) ==
  \E j \in 1..f.entries[i].n :
    LET p == EntryPostings(f, f.entries[i])[j] IN p.doc = d /\ p.tf = tf

\* The tables say that term occurs c times in document d.
CountFits(f, term, d, c) ==
  \/ /\ c = 0
     /\ \A i \in 1..f.term_count : f.entries[i].term = term => ~\E tf : Posts(f, i, d, tf)
  \/ c \in Nat \ {0} /\ \E i \in 1..f.term_count : f.entries[i].term = term /\ Posts(f, i, d, c)

\* An entry names each of its documents once.
LEMMA DocsOnce ==
  ASSUME NEW f \in SparseFiles, ValidateLayout(f), NEW i \in 1..f.term_count,
         NEW a \in 1..f.entries[i].n, NEW b \in 1..f.entries[i].n,
         EntryPostings(f, f.entries[i])[a].doc = EntryPostings(f, f.entries[i])[b].doc
  PROVE  a = b
<1> DEFINE m == f.entries[i].n
           list == EntryPostings(f, f.entries[i])
           before == {p \in (1..m) \X (1..m) : list[p[1]].doc < list[p[2]].doc}
<1>1. PostingsHold(f, i)
  <2>1. i \in DOMAIN f.entries
    BY AcceptedFile
  <2> QED BY <2>1, AcceptedPostings
<1>2. /\ m \in Nat /\ \A j \in 1..m : list[j].doc \in Int
      /\ \A j \in 2..m : list[j - 1].doc < list[j].doc
  <2>1. f.doc_count \in Nat
    BY AcceptedFile
  <2>2. /\ m \in 1..f.doc_count
        /\ \A j \in 1..m : list[j].doc \in 1..f.doc_count
        /\ \A j \in 2..m : list[j - 1].doc < list[j].doc
    BY <1>1 DEF PostingsHold
  <2> HIDE DEF m, list
  <2> QED BY <2>1, <2>2
<1>3. a \in 1..m /\ b \in 1..m /\ list[a].doc = list[b].doc
  OBVIOUS
<1> HIDE DEF m, list
<1>4. \A x, y \in 1..m : <<x, y>> \in before <=> list[x].doc < list[y].doc
  OBVIOUS
<1> HIDE DEF before
<1>5. \A x \in 2..m : <<x - 1, x>> \in before
  <2> SUFFICES ASSUME NEW x \in 2..m PROVE <<x - 1, x>> \in before
    OBVIOUS
  <2>1. x - 1 \in 1..m /\ x \in 1..m
    BY <1>2
  <2> QED BY <1>2, <1>4, <2>1
<1>6. ASSUME NEW x \in 1..m, NEW y \in 1..m, NEW z \in 1..m, <<x, y>> \in before, <<y, z>> \in before
      PROVE  <<x, z>> \in before
  <2>1. list[x].doc < list[y].doc /\ list[y].doc < list[z].doc
    BY <1>4, <1>6
  <2>2. list[x].doc < list[z].doc
    BY <1>2, <2>1
  <2> QED BY <1>4, <2>2
<1>7. \A x, y \in 1..m : x < y => <<x, y>> \in before
  BY <1>2, <1>5, <1>6, Chained
<1>8. \A x, y \in 1..m : x < y => list[x].doc < list[y].doc
  BY <1>4, <1>7
<1> QED BY <1>2, <1>3, <1>8

LEMMA PostsOnce ==
  ASSUME NEW f \in SparseFiles, ValidateLayout(f), NEW i \in 1..f.term_count, NEW d, NEW x, Posts(f, i, d, x)
  PROVE  /\ d \in 1..f.doc_count /\ x \in Nat \ {0}
         /\ \A y : Posts(f, i, d, y) => x = y
<1>1. PostingsHold(f, i)
  <2>1. i \in DOMAIN f.entries
    BY AcceptedFile
  <2> QED BY <2>1, AcceptedPostings
<1> DEFINE m == f.entries[i].n
           list == EntryPostings(f, f.entries[i])
<1>2. PICK a \in 1..m : list[a].doc = d /\ list[a].tf = x
  BY DEF Posts
<1>3. d \in 1..f.doc_count /\ x \in Nat \ {0}
  BY <1>1, <1>2 DEF PostingsHold
<1>4. ASSUME NEW y, Posts(f, i, d, y) PROVE x = y
  <2>1. PICK b \in 1..m : list[b].doc = d /\ list[b].tf = y
    BY <1>4 DEF Posts
  <2>2. a = b
    BY <1>2, <2>1, DocsOnce
  <2> QED BY <1>2, <2>1, <2>2
<1> QED BY <1>3, <1>4

\* Two entries do not have the same term.
LEMMA TermsOnce ==
  ASSUME NEW f \in SparseFiles, ValidateLayout(f), NEW i \in 1..f.term_count, NEW j \in 1..f.term_count,
         f.entries[i].term = f.entries[j].term
  PROVE  i = j
<1>1. f.term_count \in Nat /\ TermsStand(f, f.term_count)
  BY AcceptedFile, TermsAreSorted
<1>2. f.entries[i].term \in Terms /\ ~TermBefore(f.entries[i].term, f.entries[j].term)
      /\ ~TermBefore(f.entries[j].term, f.entries[i].term)
  BY <1>1, TermsCompare DEF TermsStand
<1>3. ~(i < j) /\ ~(j < i)
  BY <1>1, <1>2 DEF TermsStand
<1> QED BY <1>1, <1>3

\* The document frequency of a term is the number of its postings.
LEMMA FrequencyIs ==
  ASSUME NEW f \in SparseFiles, ValidateLayout(f), NEW i \in 1..f.term_count,
         NEW D, \A d : d \in D <=> d \in 1..f.doc_count /\ \E tf : Posts(f, i, d, tf)
  PROVE  Cardinality(D) = f.entries[i].n
<1>1. PostingsHold(f, i)
  <2>1. i \in DOMAIN f.entries
    BY AcceptedFile
  <2> QED BY <2>1, AcceptedPostings
<1> DEFINE m == f.entries[i].n
           list == EntryPostings(f, f.entries[i])
           fun == [j \in 1..m |-> list[j].doc]
<1>2. m \in Nat /\ \A j \in 1..m : list[j].doc \in 1..f.doc_count
  <2>1. f.doc_count \in Nat
    BY AcceptedFile
  <2> QED BY <1>1, <2>1 DEF PostingsHold
<1>3. \A a, b \in 1..m : list[a].doc = list[b].doc => a = b
  BY DocsOnce
<1>4. \A d : (\E tf : Posts(f, i, d, tf)) <=> \E j \in 1..m : list[j].doc = d
  BY DEF Posts
<1> HIDE DEF m, list
<1>5. fun \in [1..m -> D] /\ \A d \in D : \E j \in 1..m : fun[j] = d
  BY <1>2, <1>4
<1>6. \A a, b \in 1..m : fun[a] = fun[b] => a = b
  BY <1>3
<1> HIDE DEF fun
<1>7. fun \in Bijection(1..m, D)
  BY <1>5, <1>6 DEF Bijection, Injection, Surjection, IsInjective
<1>8. IsFiniteSet(1..m)
  BY <1>2, FS_Interval
<1>9. Cardinality(1..m) = m
  <2>1. Cardinality(1..m) = IF 1 > m THEN 0 ELSE m - 1 + 1
    BY <1>2, FS_Interval
  <2> QED BY <1>2, <2>1
<1>10. Cardinality(D) = Cardinality(1..m)
  BY <1>7, <1>8, FS_Bijection DEF ExistsBijection
<1> QED BY <1>9, <1>10 DEF m

\* The tables have a document for the term, and the set of those.
HasTerm(f, d, term) ==
  \E i \in 1..f.term_count : f.entries[i].term = term /\ \E tf : Posts(f, i, d, tf)
TermDocs(f, term, D) == \A d : d \in D <=> d \in 1..f.doc_count /\ HasTerm(f, d, term)

\* What a query term adds, from how often it occurs in the document and in how
\* many documents.
LEMMA WeightFits ==
  ASSUME NEW f \in SparseFiles, ValidateLayout(f), NEW docs, NEW d, NEW term \in Terms, NEW c,
         CountFits(f, term, d, c),
         NEW D, TermDocs(f, term, D)
  PROVE  TermWeight(f, docs, d, term)
           = IF c = 0 THEN 0 ELSE Weight(f.doc_count, Cardinality(D), c, f.doc_lens[d], f.total)
<1> DEFINE found == FindTerm(f, term)
           e == f.entries[found]
           list == EntryPostings(f, e)
           places == {j \in 1..e.n : list[j].doc = d}
<1>1. \/ found = NoEntry /\ \A i \in 1..f.term_count : f.entries[i].term # term
      \/ found \in 1..f.term_count /\ f.entries[found].term = term
  BY FindTermFinds
<1>2. TermWeight(f, docs, d, term)
        = IF found = NoEntry \/ places = {} THEN 0
          ELSE Weight(f.doc_count, e.n, list[Min(places)].tf, f.doc_lens[d], f.total)
  BY DEF TermWeight, DocumentFrequency
<1>3. f.term_count \in Nat
  BY AcceptedFile
<1>4. CASE found = NoEntry
  <2>1. \A i \in 1..f.term_count : f.entries[i].term # term
    BY <1>1, <1>3, <1>4 DEF NoEntry
  <2>2. c = 0
    BY <2>1 DEF CountFits
  <2> QED BY <1>2, <1>4, <2>2
<1>5. CASE found # NoEntry
  <2>1. found \in 1..f.term_count /\ f.entries[found].term = term
    BY <1>1, <1>5
  <2>2. \A i \in 1..f.term_count : f.entries[i].term = term => i = found
    BY <2>1, TermsOnce
  <2>3. places = {} <=> ~\E tf : Posts(f, found, d, tf)
    BY DEF Posts
  <2>4. CASE places = {}
    <3>1. c = 0
      BY <2>2, <2>3, <2>4 DEF CountFits
    <3> QED BY <1>2, <2>4, <3>1
  <2>5. CASE places # {}
    <3>1. c # 0 /\ Posts(f, found, d, c)
      BY <2>1, <2>2, <2>3, <2>5 DEF CountFits
    <3>2. Cardinality(D) = e.n
      <4>1. \A x : x \in D <=> x \in 1..f.doc_count /\ \E tf : Posts(f, found, x, tf)
        <5>1. \A x : HasTerm(f, x, term) <=> \E tf : Posts(f, found, x, tf)
          BY <2>1, <2>2 DEF HasTerm
        <5> QED BY <5>1 DEF TermDocs
      <4> HIDE DEF found
      <4> QED BY <2>1, <4>1, FrequencyIs
    <3>3. Min(places) \in places
      <4>1. IsFiniteSet(1..e.n) /\ 1..e.n \subseteq Int
        <5>1. PostingsHold(f, found)
          <6>1. found \in DOMAIN f.entries
            BY <2>1, AcceptedFile
          <6> HIDE DEF found
          <6> QED BY <6>1, AcceptedPostings
        <5>2. e.n \in Int
          BY <5>1, AcceptedFile DEF PostingsHold
        <5> HIDE DEF e
        <5> QED BY <5>2, FS_Interval
      <4>2. IsFiniteSet(places) /\ places \subseteq Int
        <5>1. places \in SUBSET (1..e.n)
          OBVIOUS
        <5> HIDE DEF places, e
        <5> QED BY <4>1, <5>1, FS_Subset
      <4> HIDE DEF places
      <4> QED BY <2>5, <4>2, LeastIsMin
    <3>4. Posts(f, found, d, list[Min(places)].tf)
      <4>1. Min(places) \in 1..e.n /\ list[Min(places)].doc = d
        BY <3>3
      <4> DEFINE j == Min(places)
      <4> HIDE DEF j
      <4>2. j \in 1..e.n /\ list[j].doc = d
        BY <4>1 DEF j
      <4>3. Posts(f, found, d, list[j].tf)
        <5> HIDE DEF found
        <5> QED BY <4>2 DEF Posts
      <4> QED BY <4>3 DEF j
    <3>5. list[Min(places)].tf = c
      <4> HIDE DEF found, list, places
      <4> QED BY <2>1, <3>1, <3>4, PostsOnce
    <3> HIDE DEF found, list, places, e
    <3> QED BY <1>2, <1>5, <2>5, <3>1, <3>2, <3>5
  <2> QED BY <2>4, <2>5
<1> QED BY <1>4, <1>5

-----------------------------------------------------------------------------
(* The documents a file stands for                                          *)

\* Of numbers that are all 0 but one, the sum is that one.
LEMMA SumOfOnly ==
  ASSUME NEW n \in Nat, NEW seq \in [1..n -> Int], NEW q \in 1..n,
         \A p \in 1..n : p # q => seq[p] = 0
  PROVE  SumOf(seq) = seq[q]
<1>1. PICK F : Sums(seq, n, F)
  BY SumsExist
<1>2. SumOf(seq) = F[n] /\ F[0] = 0
  BY <1>1, SumIs DEF Sums
<1>3. OnlyAt(seq, 0, n, q)
  BY DEF OnlyAt
<1>4. 0 \in 0..n /\ n \in 0..n
  OBVIOUS
<1>5. GrownBy(F, 0, n, seq[q])
  BY <1>1, <1>3, <1>4, SumOfOne
<1>6. seq[q] \in Int
  OBVIOUS
<1> QED BY <1>2, <1>5, <1>6 DEF GrownBy

LEMMA SumOfNone ==
  ASSUME NEW n \in Nat, NEW seq \in [1..n -> Int], \A p \in 1..n : seq[p] = 0
  PROVE  SumOf(seq) = 0
<1>1. PICK F : Sums(seq, n, F)
  BY SumsExist
<1>2. SumOf(seq) = F[n] /\ F[0] = 0
  BY <1>1, SumIs DEF Sums
<1>3. 0 \in 0..n /\ n \in 0..n /\ 0 <= n /\ NoneIn(seq, 0, n)
  BY DEF NoneIn
<1>4. F[n] = F[0]
  BY <1>1, <1>3, SumOfZeros
<1> QED BY <1>2, <1>4

\* The term frequencies of the postings of entry i in document d, added up
PostedTf(f, i, d) ==
  SumOf([j \in 1..f.entries[i].n |->
    LET p == EntryPostings(f, f.entries[i])[j] IN IF p.doc = d THEN p.tf ELSE 0])

LEMMA PostedTfIs ==
  ASSUME NEW f \in SparseFiles, ValidateLayout(f), NEW i \in 1..f.term_count, NEW d
  PROVE  /\ PostedTf(f, i, d) \in Int
         /\ (~\E tf : Posts(f, i, d, tf)) => PostedTf(f, i, d) = 0
         /\ (\E tf : Posts(f, i, d, tf)) => Posts(f, i, d, PostedTf(f, i, d))
<1> DEFINE m == f.entries[i].n
           list == EntryPostings(f, f.entries[i])
           tfs == [j \in 1..m |-> IF list[j].doc = d THEN list[j].tf ELSE 0]
<1>1. m \in Nat /\ \A j \in 1..m : list[j].tf \in Nat
  <2>1. PostingsHold(f, i)
    <3>1. i \in DOMAIN f.entries
      BY AcceptedFile
    <3> QED BY <3>1, AcceptedPostings
  <2>2. f.doc_count \in Nat
    BY AcceptedFile
  <2> QED BY <2>1, <2>2 DEF PostingsHold
<1>2. PostedTf(f, i, d) = SumOf(tfs)
  BY DEF PostedTf
<1>3. \A a, b \in 1..m : list[a].doc = list[b].doc => a = b
  BY DocsOnce
<1>4. \A tf : Posts(f, i, d, tf) <=> \E j \in 1..m : list[j].doc = d /\ list[j].tf = tf
  BY DEF Posts
<1> HIDE DEF m, list
<1>5. tfs \in [1..m -> Int] /\ \A j \in 1..m : tfs[j] = IF list[j].doc = d THEN list[j].tf ELSE 0
  BY <1>1
<1> HIDE DEF tfs
<1>6. CASE \E j \in 1..m : list[j].doc = d
  <2>1. PICK j \in 1..m : list[j].doc = d
    BY <1>6
  <2>2. \A x \in 1..m : x # j => tfs[x] = 0
    BY <1>3, <1>5, <2>1
  <2>3. SumOf(tfs) = tfs[j]
    BY <1>1, <1>5, <2>2, SumOfOnly
  <2>4. tfs[j] = list[j].tf /\ tfs[j] \in Int
    BY <1>5, <2>1
  <2> QED BY <1>2, <1>4, <2>1, <2>3, <2>4
<1>7. CASE ~\E j \in 1..m : list[j].doc = d
  <2>1. \A x \in 1..m : tfs[x] = 0
    BY <1>5, <1>7
  <2>2. SumOf(tfs) = 0
    BY <1>1, <1>5, <2>1, SumOfNone
  <2> QED BY <1>2, <1>4, <1>7, <2>2
<1> QED BY <1>6, <1>7

\* What the tables say of a term in a document
TableTf(f, d, t) ==
  SumOf([i \in DOMAIN f.entries |-> IF f.entries[i].term # t THEN 0 ELSE PostedTf(f, i, d)])

LEMMA TableTfFits ==
  ASSUME NEW f \in SparseFiles, ValidateLayout(f), NEW d, NEW t
  PROVE  CountFits(f, t, d, TableTf(f, d, t))
<1> DEFINE k == f.term_count
           tfs == [i \in 1..k |-> IF f.entries[i].term # t THEN 0 ELSE PostedTf(f, i, d)]
<1>1. k \in Nat /\ DOMAIN f.entries = 1..k
  BY AcceptedFile
<1>2. TableTf(f, d, t) = SumOf(tfs)
  BY <1>1 DEF TableTf
<1>3. /\ \A i \in 1..k : PostedTf(f, i, d) \in Int
      /\ \A i \in 1..k : (~\E tf : Posts(f, i, d, tf)) => PostedTf(f, i, d) = 0
      /\ \A i \in 1..k : (\E tf : Posts(f, i, d, tf)) => Posts(f, i, d, PostedTf(f, i, d))
  BY PostedTfIs
<1>4. /\ tfs \in [1..k -> Int]
      /\ \A i \in 1..k : tfs[i] = IF f.entries[i].term # t THEN 0 ELSE PostedTf(f, i, d)
  BY <1>3
<1> HIDE DEF tfs
<1>5. CASE \E i \in 1..k : f.entries[i].term = t
  <2>1. PICK i \in 1..k : f.entries[i].term = t
    BY <1>5
  <2>2. \A x \in 1..k : f.entries[x].term = t => x = i
    BY <2>1, TermsOnce
  <2>3. \A x \in 1..k : x # i => tfs[x] = 0
    BY <1>4, <2>2
  <2>4. SumOf(tfs) = tfs[i]
    BY <1>1, <1>4, <2>3, SumOfOnly
  <2>5. TableTf(f, d, t) = PostedTf(f, i, d)
    BY <1>2, <1>4, <2>1, <2>4
  <2>6. CASE \E tf : Posts(f, i, d, tf)
    <3>1. Posts(f, i, d, PostedTf(f, i, d))
      BY <1>3, <2>6
    <3>2. PostedTf(f, i, d) \in Nat \ {0}
      BY <3>1, PostsOnce
    <3> QED BY <2>1, <2>5, <3>1, <3>2 DEF CountFits
  <2>7. CASE ~\E tf : Posts(f, i, d, tf)
    <3>1. PostedTf(f, i, d) = 0
      BY <1>3, <2>7
    <3> QED BY <2>2, <2>5, <2>7, <3>1 DEF CountFits
  <2> QED BY <2>6, <2>7
<1>6. CASE ~\E i \in 1..k : f.entries[i].term = t
  <2>1. \A x \in 1..k : tfs[x] = 0
    BY <1>4, <1>6
  <2>2. SumOf(tfs) = 0
    BY <1>1, <1>4, <2>1, SumOfNone
  <2> QED BY <1>2, <1>6, <2>2 DEF CountFits
<1> QED BY <1>5, <1>6

\* docs are the documents of f, and what its tables say of the terms.
MeantBy(f, terms, docs) ==
  /\ DOMAIN docs = 1..f.doc_count /\ docs = [d \in 1..f.doc_count |-> docs[d]]
  /\ \A d \in 1..f.doc_count :
       /\ docs[d].row_id = f.row_ids[d] /\ docs[d].len = f.doc_lens[d]
       /\ \A t \in terms : CountFits(f, t, d, docs[d].count[t])

\* A file the builder made counts the terms of the texts.
LEMMA BuiltCounts ==
  ASSUME NEW pending \in Pendings, NEW f, NEW k, NEW terms, NEW lists, NEW ends,
         Layout(pending, f, k, terms, lists, ends), NEW d \in 1..Len(pending), NEW t
  PROVE  CountFits(f, t, d, CountIn(pending[d].terms, t))
<1> DEFINE c == CountIn(pending[d].terms, t)
<1>1. f.term_count = k /\ k \in Nat
  BY DEF Layout
<1>2. pending[d].terms \in Seq(Terms)
  BY PendingFacts
<1>3. c \in Nat /\ (c > 0 <=> t \in Range(pending[d].terms))
  BY <1>2, CountIs
<1>4. ASSUME NEW i \in 1..k
      PROVE  /\ f.entries[i].term = terms[i]
             /\ \A tf : Posts(f, i, d, tf) <=>
                          \E j \in DOMAIN lists[i] : lists[i][j].doc = d /\ lists[i][j].tf = tf
             /\ \A j \in DOMAIN lists[i] : lists[i][j].tf # 0
  <2>1. EntryHolds(pending, f, terms, lists, ends, i)
    BY EntryIs
  <2>2. /\ f.entries[i].term = terms[i] /\ f.entries[i].n = Len(lists[i])
        /\ EntryPostings(f, f.entries[i]) = lists[i] /\ lists[i] \in Seq(PostingRecords(pending))
    BY <2>1 DEF EntryHolds
  <2>3. DOMAIN lists[i] = 1..Len(lists[i])
    BY <2>2
  <2>4. \A j \in DOMAIN lists[i] : lists[i][j].tf # 0
    <3>1. \A r \in PostingRecords(pending) : r.tf # 0
      BY DEF PostingRecords
    <3> DEFINE R == PostingRecords(pending)
               list == lists[i]
    <3>2. list \in Seq(R) /\ \A r \in R : r.tf # 0
      BY <2>2, <3>1
    <3> HIDE DEF R, list
    <3>3. \A j \in DOMAIN list : list[j] \in R
      BY <3>2
    <3> QED BY <3>2, <3>3 DEF list
  <2> QED BY <2>2, <2>3, <2>4 DEF Posts
<1>5. \A i \in 1..k : IsPostings(pending, terms[i], lists[i])
  BY DEF Layout
<1>6. CASE c = 0
  <2>1. ASSUME NEW i \in 1..k, f.entries[i].term = t, NEW tf, Posts(f, i, d, tf) PROVE FALSE
    <3>1. terms[i] = t
      BY <1>4, <2>1
    <3>2. PICK j \in DOMAIN lists[i] : lists[i][j].doc = d /\ lists[i][j].tf = tf
      BY <1>4, <2>1
    <3>3. lists[i][j].tf = CountIn(pending[lists[i][j].doc].terms, terms[i])
      BY <1>5 DEF IsPostings
    <3>4. lists[i][j].tf = c
      BY <3>1, <3>2, <3>3
    <3> QED BY <1>4, <1>6, <3>4
  <2> QED BY <1>1, <1>6, <2>1 DEF CountFits
<1>7. CASE c # 0
  <2>1. c > 0
    BY <1>3, <1>7
  <2>2. t \in Range(terms)
    <3>1. Range(pending[d].terms) \subseteq Range(terms)
      BY DEF Layout
    <3> QED BY <1>3, <2>1, <3>1
  <2>3. PICK i \in 1..k : terms[i] = t
    <3>1. DOMAIN terms = 1..k
      BY DEF Layout
    <3> QED BY <2>2, <3>1 DEF Range
  <2>4. PICK j \in DOMAIN lists[i] : lists[i][j].doc = d
    BY <1>5, <2>1, <2>3 DEF IsPostings
  <2>5. lists[i][j].tf = c
    BY <1>5, <2>3, <2>4 DEF IsPostings
  <2>6. Posts(f, i, d, c) /\ f.entries[i].term = t
    BY <1>4, <2>3, <2>4, <2>5
  <2>7. c \in Nat \ {0}
    BY <1>3, <1>7
  <2> QED BY <1>1, <2>6, <2>7 DEF CountFits
<1> QED BY <1>6, <1>7

\* An index in use
OpenedIs(opened) ==
  /\ GoodFile(opened.file) /\ OpenIndex(opened.file) # Err
  /\ opened.meant # None =>
       \E corpus \in Corpora \cup {FirstCorpus} :
         WrittenFile(corpus) # Err /\ opened = Built(corpus)

LEMMA DocsAreMeant ==
  ASSUME NEW opened, OpenedIs(opened), NEW terms
  PROVE  MeantBy(opened.file, terms, DocsMeant(opened, terms))
<1> DEFINE f == opened.file
           docs == DocsMeant(opened, terms)
<1>1. f \in SparseFiles /\ ValidateLayout(f)
  BY DEF OpenedIs, GoodFile, OpenIndex
<1>2. CASE opened.meant = None
  <2>1. docs = [d \in 1..f.doc_count |->
                  [row_id |-> f.row_ids[d], count |-> [t \in terms |-> TableTf(f, d, t)],
                   len |-> f.doc_lens[d]]]
    BY <1>2 DEF DocsMeant, TableTf, PostedTf
  <2> HIDE DEF docs, f
  <2>2. ASSUME NEW d \in 1..f.doc_count
        PROVE  /\ docs[d].row_id = f.row_ids[d] /\ docs[d].len = f.doc_lens[d]
               /\ \A t \in terms : CountFits(f, t, d, docs[d].count[t])
    <3>1. /\ docs[d].row_id = f.row_ids[d] /\ docs[d].len = f.doc_lens[d]
          /\ docs[d].count = [t \in terms |-> TableTf(f, d, t)]
      BY <2>1
    <3>2. \A t \in terms : CountFits(f, t, d, TableTf(f, d, t))
      BY <1>1, TableTfFits
    <3> QED BY <3>1, <3>2
  <2>3. DOMAIN docs = 1..f.doc_count /\ docs = [d \in 1..f.doc_count |-> docs[d]]
    BY <2>1
  <2> QED BY <2>2, <2>3 DEF MeantBy, docs, f
<1>3. CASE opened.meant # None
  <2>1. PICK corpus \in Corpora \cup {FirstCorpus} :
          WrittenFile(corpus) # Err /\ opened = Built(corpus)
    BY <1>3 DEF OpenedIs
  <2> DEFINE pending == PendingDocs(corpus)
  <2>2. corpus \in CorpusRecords
    BY CorporaAreTexts
  <2>3. pending \in Pendings
    BY <2>2, PendingDocsIs
  <2>4. f = BuiltFile(corpus.tokenizer, pending) /\ opened.meant = pending
    BY <2>1 DEF Built, WrittenFile
  <2>5. docs = [d \in DOMAIN pending |->
                  [row_id |-> pending[d].row_id,
                   count |-> [t \in terms |-> CountIn(pending[d].terms, t)],
                   len |-> Len(pending[d].terms)]]
    BY <1>3, <2>4 DEF DocsMeant
  <2> HIDE DEF pending, f, docs
  <2>6. /\ Documents(pending, f)
        /\ \E k, tt, lists, ends : Layout(pending, f, k, tt, lists, ends)
    BY <2>3, <2>4, FileIs
  <2>7. PICK k, tt, lists, ends : Layout(pending, f, k, tt, lists, ends)
    BY <2>6
  <2>8. /\ f.doc_count = Len(pending) /\ DOMAIN pending = 1..Len(pending)
        /\ f.row_ids = [i \in 1..Len(pending) |-> pending[i].row_id]
        /\ f.doc_lens = [i \in 1..Len(pending) |-> Len(pending[i].terms)]
    BY <2>3, <2>6, PendingFacts DEF Documents
  <2>9. ASSUME NEW d \in 1..f.doc_count
        PROVE  /\ docs[d].row_id = f.row_ids[d] /\ docs[d].len = f.doc_lens[d]
               /\ \A t \in terms : CountFits(f, t, d, docs[d].count[t])
    <3>1. /\ docs[d].row_id = f.row_ids[d] /\ docs[d].len = f.doc_lens[d]
          /\ docs[d].count = [t \in terms |-> CountIn(pending[d].terms, t)]
      BY <2>5, <2>8
    <3>2. \A t \in terms : CountFits(f, t, d, CountIn(pending[d].terms, t))
      BY <2>3, <2>7, <2>8, BuiltCounts
    <3> QED BY <3>1, <3>2
  <2>10. DOMAIN docs = 1..f.doc_count /\ docs = [d \in 1..f.doc_count |-> docs[d]]
    BY <2>5, <2>8
  <2> QED BY <2>9, <2>10 DEF MeantBy, docs, f
<1> QED BY <1>2, <1>3

-----------------------------------------------------------------------------
(* Scores computed from the documents                                       *)

\* a lists the members of Q, each once.
Lists(a, m, Q) ==
  /\ m \in Nat /\ DOMAIN a = 1..m /\ ListsOnce(a, m, Q)
  /\ \A q \in Q : \E i \in 1..m : a[i] = q

\* The items of a list
ItemsOf(seq) == {seq[i] : i \in DOMAIN seq}

\* dedupe_preserving_order leaves each item once.
LEMMA FirstOccurrencesList ==
  ASSUME NEW S, NEW seq \in Seq(S)
  PROVE  \E m : Lists(FirstOccurrences(seq), m, ItemsOf(seq))
<1> DEFINE n == Len(seq)
           places == {i \in DOMAIN seq : \A j \in 1..(i - 1) : seq[j] # seq[i]}
           Q == ItemsOf(seq)
           a == FirstOccurrences(seq)
<1>1. n \in Nat /\ DOMAIN seq = 1..n
  OBVIOUS
<1> HIDE DEF n
<1>2. /\ places \in SUBSET (1..n) /\ \A i \in places : \A j \in 1..(i - 1) : seq[j] # seq[i]
      /\ \A i \in 1..n : (\A j \in 1..(i - 1) : seq[j] # seq[i]) => i \in places
  BY <1>1
<1>3. a = Kept(seq, places)
  BY DEF FirstOccurrences
<1> HIDE DEF places
<1>4. PICK m, order : KeptBy(seq, places, m, order)
  BY <1>1, <1>2, KeptIs
<1>5. /\ m \in Nat /\ order \in [1..m -> places]
      /\ \A p \in places : \E i \in 1..m : order[i] = p
      /\ \A i, j \in 1..m : i < j => order[i] < order[j]
      /\ a = [i \in 1..m |-> seq[order[i]]]
  BY <1>3, <1>4 DEF KeptBy
<1> HIDE DEF a
<1>6. \A i \in 1..m : order[i] \in places /\ order[i] \in 1..n
  BY <1>2, <1>5
<1>7. a \in [1..m -> Q]
  BY <1>1, <1>5, <1>6 DEF ItemsOf
<1>8. ASSUME NEW i \in 1..m, NEW j \in 1..m, i < j PROVE a[i] # a[j]
  <2>1. order[i] < order[j] /\ order[i] \in 1..n /\ order[j] \in 1..n /\ order[j] \in places
    BY <1>5, <1>6, <1>8
  <2>2. order[i] \in 1..(order[j] - 1)
    BY <1>1, <2>1
  <2>3. seq[order[i]] # seq[order[j]]
    BY <1>2, <2>1, <2>2
  <2> QED BY <1>5, <2>3
<1>9. \A i, j \in 1..m : a[i] = a[j] => i = j
  <2> SUFFICES ASSUME NEW i \in 1..m, NEW j \in 1..m, i # j PROVE a[i] # a[j]
    OBVIOUS
  <2>1. i < j \/ j < i
    BY <1>5
  <2> QED BY <1>8, <2>1
<1>10. ASSUME NEW q \in Q PROVE \E i \in 1..m : a[i] = q
  <2> DEFINE have == {p \in 0..n : p # 0 /\ seq[p] = q}
  <2>1. have \in SUBSET (0..n) /\ have # {}
    BY <1>1 DEF ItemsOf
  <2>2. PICK p \in have : \A r \in have : p <= r
    <3> HIDE DEF have
    <3> QED BY <1>1, <2>1, LeastExists
  <2>3. p \in 1..n /\ seq[p] = q
    BY <1>1
  <2>4. ASSUME NEW j \in 1..(p - 1) PROVE seq[j] # seq[p]
    <3>1. j \in 0..n /\ j # 0 /\ ~(p <= j)
      BY <1>1, <2>3
    <3>2. j \notin have
      BY <2>2, <3>1
    <3> QED BY <2>3, <3>1, <3>2
  <2>5. p \in places
    BY <1>2, <2>3, <2>4
  <2>6. PICK i \in 1..m : order[i] = p
    BY <1>5, <2>5
  <2> QED BY <1>5, <2>3, <2>6
<1>11. ListsOnce(a, m, Q)
  BY <1>7, <1>9 DEF ListsOnce
<1>12. DOMAIN a = 1..m
  BY <1>5
<1>13. Lists(a, m, Q)
  BY <1>5, <1>10, <1>11, <1>12 DEF Lists
<1> QED BY <1>13 DEF a

\* What each of Q weighs, added up in either order
LEMMA ListedSums ==
  ASSUME NEW Q, NEW h \in [Q -> Int], NEW m, NEW a, Lists(a, m, Q)
  PROVE  SumOf([i \in DOMAIN a |-> h[a[i]]])
           = SumOf([i \in DOMAIN SeqExt!SetToSeq(Q) |-> h[SeqExt!SetToSeq(Q)[i]]])
<1> DEFINE b == SeqExt!SetToSeq(Q)
           s == [i \in 1..m |-> h[a[i]]]
           t == [i \in 1..m |-> h[b[i]]]
<1>1. m \in Nat /\ DOMAIN a = 1..m /\ ListsOnce(a, m, Q) /\ \A q \in Q : \E i \in 1..m : a[i] = q
  BY DEF Lists
<1>2. ListsOnce(b, m, Q) /\ (\A q \in Q : \E i \in 1..m : b[i] = q) /\ DOMAIN b = 1..m
  BY <1>1, SetListed
<1> HIDE DEF b
<1>3. s \in [1..m -> Int] /\ t \in [1..m -> Int]
  BY <1>1, <1>2 DEF ListsOnce
<1>4. PICK F : Sums(s, m, F)
  <2> HIDE DEF s
  <2> QED BY <1>1, <1>3, SumsExist
<1>5. PICK G : Sums(t, m, G)
  <2> HIDE DEF t
  <2> QED BY <1>1, <1>3, SumsExist
<1>6. \A i \in 1..m : \E j \in 1..m : b[j] = a[i]
  BY <1>1, <1>2 DEF ListsOnce
<1>7. ListSums(Q, h, m, a, F) /\ ListSums(Q, h, m, b, G)
  BY <1>1, <1>2, <1>4, <1>5 DEF ListSums
<1>8. F[m] = G[m]
  <2>1. SameSums(Q, h, m)
    BY <1>1, SumsReordered
  <2> QED BY <1>6, <1>7, <2>1 DEF SameSums
<1>9. SumOf(s) = F[m] /\ SumOf(t) = G[m]
  <2> HIDE DEF s, t
  <2> QED BY <1>1, <1>3, <1>4, <1>5, SumIs
<1> QED BY <1>1, <1>2, <1>8, <1>9 DEF b

\* The documents of docs with term t
DocsWith(docs, t) == {d \in DOMAIN docs : docs[d].count[t] > 0}

\* What term t weighs in document d
MeantWeight(docs, total, d, t) ==
  IF docs[d].count[t] = 0 THEN 0
  ELSE Weight(Len(docs), Cardinality(DocsWith(docs, t)), docs[d].count[t], docs[d].len, total)

LEMMA MeantTerm ==
  ASSUME NEW f \in SparseFiles, ValidateLayout(f), NEW terms, NEW docs, MeantBy(f, terms, docs),
         NEW t \in terms, NEW d \in 1..f.doc_count
  PROVE  docs[d].count[t] \in Nat /\ (docs[d].count[t] > 0 <=> HasTerm(f, d, t))
<1> DEFINE c == docs[d].count[t]
<1>1. CountFits(f, t, d, c)
  BY DEF MeantBy
<1> HIDE DEF c
<1>2. CASE c = 0
  <2>1. ~HasTerm(f, d, t)
    BY <1>1, <1>2 DEF CountFits, HasTerm
  <2> QED BY <1>2, <2>1 DEF c
<1>3. CASE c # 0
  <2>1. c \in Nat \ {0} /\ HasTerm(f, d, t)
    BY <1>1, <1>3 DEF CountFits, HasTerm
  <2> QED BY <2>1 DEF c
<1> QED BY <1>2, <1>3

LEMMA MeantWeightIs ==
  ASSUME NEW f \in SparseFiles, ValidateLayout(f), NEW terms, NEW docs, MeantBy(f, terms, docs),
         NEW t \in terms, t \in Terms, NEW d \in 1..f.doc_count, NEW allowed
  PROVE  MeantWeight(docs, f.total, d, t) = TermWeight(f, allowed, d, t)
<1> DEFINE c == docs[d].count[t]
           D == DocsWith(docs, t)
<1>1. CountFits(f, t, d, c) /\ docs[d].len = f.doc_lens[d] /\ DOMAIN docs = 1..f.doc_count
  BY DEF MeantBy
<1>2. TermDocs(f, t, D)
  <2>1. \A e : e \in D <=> e \in 1..f.doc_count /\ docs[e].count[t] > 0
    BY <1>1 DEF DocsWith
  <2>2. \A e \in 1..f.doc_count : docs[e].count[t] > 0 <=> HasTerm(f, e, t)
    BY MeantTerm
  <2> QED BY <2>1, <2>2 DEF TermDocs
<1>3. Len(docs) = f.doc_count
  <2>1. f.doc_count \in Nat /\ docs = [e \in 1..f.doc_count |-> docs[e]]
    BY AcceptedFile DEF MeantBy
  <2> QED BY <1>1, <2>1, LenOfFunction
<1>4. MeantWeight(docs, f.total, d, t)
        = IF c = 0 THEN 0 ELSE Weight(f.doc_count, Cardinality(D), c, f.doc_lens[d], f.total)
  BY <1>1, <1>3 DEF MeantWeight
<1> HIDE DEF c, D
<1>5. TermWeight(f, allowed, d, t)
        = IF c = 0 THEN 0 ELSE Weight(f.doc_count, Cardinality(D), c, f.doc_lens[d], f.total)
  BY <1>1, <1>2, WeightFits
<1> QED BY <1>4, <1>5

\* The score of document d
MeantScore(docs, total, Q, d) ==
  SumOf([i \in DOMAIN SeqExt!SetToSeq(Q) |-> MeantWeight(docs, total, d, SeqExt!SetToSeq(Q)[i])])

LEMMA QueryListed ==
  ASSUME NEW f, NEW q \in Texts
  PROVE  /\ QueryTerms(f, q) \subseteq Terms
         /\ \E m : Lists(QueryList(f, q), m, QueryTerms(f, q))
<1> DEFINE seq == TokenizeText(f.tokenizer, q)
<1>1. seq \in Seq(Terms)
  BY TokenizeIs
<1>2. QueryTerms(f, q) = ItemsOf(seq) /\ ItemsOf(seq) \subseteq Terms
  BY <1>1 DEF QueryTerms, ItemsOf
<1>3. QueryList(f, q) = FirstOccurrences(seq)
  BY DEF QueryList
<1> HIDE DEF seq
<1>4. \E m : Lists(FirstOccurrences(seq), m, ItemsOf(seq))
  BY <1>1, FirstOccurrencesList
<1> QED BY <1>1, <1>2, <1>3, <1>4

LEMMA MeantScoreIs ==
  ASSUME NEW f \in SparseFiles, ValidateLayout(f), IdfFits(f), NEW terms, NEW docs, MeantBy(f, terms, docs),
         NEW q \in Texts, QueryTerms(f, q) \subseteq terms, NEW d \in 1..f.doc_count, NEW allowed
  PROVE  MeantScore(docs, f.total, QueryTerms(f, q), d) = DocScore(f, QueryList(f, q), allowed, d)
<1> DEFINE Q == QueryTerms(f, q)
           a == QueryList(f, q)
           b == SeqExt!SetToSeq(Q)
           h == [t \in Q |-> TermWeight(f, allowed, d, t)]
<1>1. Q \subseteq Terms /\ Q \subseteq terms
  BY QueryListed
<1>2. PICK m : Lists(a, m, Q)
  BY QueryListed
<1>3. h \in [Q -> Int]
  BY TermWeightIs
<1>4. \A t \in Q : MeantWeight(docs, f.total, d, t) = h[t] /\ TermWeight(f, allowed, d, t) = h[t]
  BY <1>1, MeantWeightIs
<1> HIDE DEF Q, h, a
<1>5. DOMAIN a = 1..m /\ \A i \in 1..m : a[i] \in Q
  BY <1>2 DEF Lists, ListsOnce
<1>6. DOMAIN b = 1..m /\ \A i \in 1..m : b[i] \in Q
  <2>1. m \in Nat /\ ListsOnce(a, m, Q) /\ \A t \in Q : \E i \in 1..m : a[i] = t
    BY <1>2 DEF Lists
  <2>2. ListsOnce(b, m, Q) /\ DOMAIN b = 1..m
    BY <2>1, SetListed
  <2> QED BY <2>2 DEF ListsOnce
<1>7. DocScore(f, a, allowed, d) = SumOf([i \in DOMAIN a |-> h[a[i]]])
  <2>1. DocScore(f, a, allowed, d) = SumOf([i \in DOMAIN a |-> TermWeight(f, allowed, d, a[i])])
    BY DEF DocScore, TermWeight
  <2>2. [i \in DOMAIN a |-> TermWeight(f, allowed, d, a[i])] = [i \in DOMAIN a |-> h[a[i]]]
    BY <1>4, <1>5
  <2> QED BY <2>1, <2>2
<1>8. MeantScore(docs, f.total, Q, d) = SumOf([i \in DOMAIN b |-> h[b[i]]])
  <2>1. MeantScore(docs, f.total, Q, d)
          = SumOf([i \in DOMAIN b |-> MeantWeight(docs, f.total, d, b[i])])
    BY DEF MeantScore
  <2>2. [i \in DOMAIN b |-> MeantWeight(docs, f.total, d, b[i])] = [i \in DOMAIN b |-> h[b[i]]]
    <3> HIDE DEF b
    <3> QED BY <1>4, <1>6
  <2> QED BY <2>1, <2>2
<1>9. SumOf([i \in DOMAIN a |-> h[a[i]]]) = SumOf([i \in DOMAIN b |-> h[b[i]]])
  BY <1>2, <1>3, ListedSums
<1> QED BY <1>7, <1>8, <1>9 DEF Q, a

-----------------------------------------------------------------------------
(* What a search returns                                                    *)

\* The rows of the documents that contain a term of Q
MeantRows(docs, total, Q) ==
  {[row_id |-> docs[d].row_id, score |-> MeantScore(docs, total, Q, d)] :
     d \in {e \in DOMAIN docs : \E t \in Q : docs[e].count[t] > 0}}

AllowedRows(rows, allowlist) ==
  {r \in rows : allowlist = None \/ \E i \in DOMAIN allowlist : allowlist[i] = r.row_id}

\* A document is hit when it is allowed and contains a term of the query.
LEMMA HitsAre ==
  ASSUME NEW f \in SparseFiles, ValidateLayout(f), NEW q \in Texts, NEW allowlist, NEW d \in 1..f.doc_count
  PROVE  d \in HitDocs(f, q, allowlist)
           <=> d \in AllowedDocs(f, allowlist) /\ \E t \in QueryTerms(f, q) : HasTerm(f, d, t)
<1> DEFINE a == QueryList(f, q)
           Q == QueryTerms(f, q)
           found == {FindTerm(f, a[i]) : i \in DOMAIN a} \ {NoEntry}
<1>1. Q \subseteq Terms
  BY QueryListed
<1>2. PICK m : Lists(a, m, Q)
  BY QueryListed
<1>3. f.term_count \in Nat
  BY AcceptedFile
<1>4. d \in HitDocs(f, q, allowlist)
        <=> /\ d \in AllowedDocs(f, allowlist)
            /\ \E e \in found : \E p \in Range(EntryPostings(f, f.entries[e])) : p.doc = d
  BY DEF HitDocs
<1> HIDE DEF a, Q
<1>5. (\A i \in DOMAIN a : a[i] \in Q) /\ (\A t \in Q : \E i \in DOMAIN a : a[i] = t)
  BY <1>2 DEF Lists, ListsOnce
<1>6. \A e : e \in found <=> e # NoEntry /\ \E t \in Q : FindTerm(f, t) = e
  BY <1>5
<1> HIDE DEF found
<1>7. \A t \in Q : \A i \in 1..f.term_count : f.entries[i].term = t => FindTerm(f, t) = i
  <2> SUFFICES ASSUME NEW t \in Q, NEW i \in 1..f.term_count, f.entries[i].term = t
               PROVE  FindTerm(f, t) = i
    OBVIOUS
  <2>1. FindTerm(f, t) \in 1..f.term_count /\ f.entries[FindTerm(f, t)].term = t
    BY <1>1, FindTermFinds
  <2> QED BY <2>1, TermsOnce
<1>8. \A t \in Q : FindTerm(f, t) # NoEntry =>
        FindTerm(f, t) \in 1..f.term_count /\ f.entries[FindTerm(f, t)].term = t
  BY <1>1, FindTermFinds
<1>9. \A i \in 1..f.term_count :
        (\E p \in Range(EntryPostings(f, f.entries[i])) : p.doc = d) <=> \E tf : Posts(f, i, d, tf)
  <2> SUFFICES ASSUME NEW i \in 1..f.term_count
               PROVE  (\E p \in Range(EntryPostings(f, f.entries[i])) : p.doc = d)
                        <=> \E tf : Posts(f, i, d, tf)
    OBVIOUS
  <2> DEFINE list == EntryPostings(f, f.entries[i])
             n == f.entries[i].n
  <2>1. PostingsHold(f, i)
    <3>1. i \in DOMAIN f.entries
      BY AcceptedFile
    <3> QED BY <3>1, AcceptedPostings
  <2>2. list \in Seq(PostingCells) /\ Len(list) = n
    BY <2>1 DEF PostingsHold
  <2>3. \A tf : Posts(f, i, d, tf) <=> \E j \in 1..n : list[j].doc = d /\ list[j].tf = tf
    BY DEF Posts
  <2> HIDE DEF list, n
  <2>4. DOMAIN list = 1..n
    BY <2>2
  <2>5. (\E p \in Range(list) : p.doc = d) <=> \E j \in 1..n : list[j].doc = d
    BY <2>4 DEF Range
  <2> QED BY <2>3, <2>5 DEF list
<1>10. \A i \in 1..f.term_count : i # NoEntry
  BY <1>3 DEF NoEntry
<1>11. (\E e \in found : \E p \in Range(EntryPostings(f, f.entries[e])) : p.doc = d)
         <=> \E t \in Q : HasTerm(f, d, t)
  <2>1. ASSUME NEW e \in found, \E p \in Range(EntryPostings(f, f.entries[e])) : p.doc = d
        PROVE  \E t \in Q : HasTerm(f, d, t)
    <3>1. PICK t \in Q : FindTerm(f, t) = e
      BY <1>6
    <3>2. e \in 1..f.term_count /\ f.entries[e].term = t
      BY <1>6, <1>8, <3>1
    <3>3. \E tf : Posts(f, e, d, tf)
      BY <1>9, <2>1, <3>2
    <3>4. HasTerm(f, d, t)
      BY <3>2, <3>3 DEF HasTerm
    <3> QED BY <3>4
  <2>2. ASSUME NEW t \in Q, HasTerm(f, d, t)
        PROVE  \E e \in found : \E p \in Range(EntryPostings(f, f.entries[e])) : p.doc = d
    <3>1. PICK i \in 1..f.term_count : f.entries[i].term = t /\ \E tf : Posts(f, i, d, tf)
      BY <2>2 DEF HasTerm
    <3>2. i \in found
      BY <1>6, <1>7, <1>10, <3>1
    <3>3. \E p \in Range(EntryPostings(f, f.entries[i])) : p.doc = d
      BY <1>9, <3>1
    <3> QED BY <3>2, <3>3
  <2> QED BY <2>1, <2>2
<1> QED BY <1>4, <1>11 DEF Q

\* The rows the documents have are those the search ranks.
LEMMA RowsAreMeant ==
  ASSUME NEW f \in SparseFiles, ValidateLayout(f), IdfFits(f), NEW terms, NEW docs, MeantBy(f, terms, docs),
         NEW q \in Texts, QueryTerms(f, q) \subseteq terms, NEW allowlist
  PROVE  AllowedRows(MeantRows(docs, f.total, QueryTerms(f, q)), allowlist) = SearchRows(f, q, allowlist)
<1> DEFINE Q == QueryTerms(f, q)
           n == f.doc_count
           allowed == AllowedDocs(f, allowlist)
           hit == HitDocs(f, q, allowlist)
           some == {e \in DOMAIN docs : \E t \in Q : docs[e].count[t] > 0}
           Row(d) == [row_id |-> f.row_ids[d], score |-> DocScore(f, QueryList(f, q), allowed, d)]
           Meant(d) == [row_id |-> docs[d].row_id, score |-> MeantScore(docs, f.total, Q, d)]
<1>1. DOMAIN docs = 1..n /\ \A d \in 1..n : docs[d].row_id = f.row_ids[d]
  BY DEF MeantBy
<1>2. \A d \in 1..n : Meant(d) = Row(d)
  <2> SUFFICES ASSUME NEW d \in 1..n PROVE Meant(d) = Row(d)
    OBVIOUS
  <2>1. MeantScore(docs, f.total, Q, d) = DocScore(f, QueryList(f, q), allowed, d)
    BY MeantScoreIs
  <2> QED BY <1>1, <2>1
<1>3. \A d \in 1..n : d \in hit <=> d \in allowed /\ \E t \in Q : HasTerm(f, d, t)
  BY HitsAre
<1>4. \A d \in 1..n : \A t \in Q : docs[d].count[t] > 0 <=> HasTerm(f, d, t)
  BY MeantTerm
<1>5. \A d : d \in some <=> d \in 1..n /\ \E t \in Q : HasTerm(f, d, t)
  BY <1>1, <1>4
<1>6. MeantRows(docs, f.total, Q) = {Meant(d) : d \in some}
  BY DEF MeantRows
<1>7. SearchRows(f, q, allowlist) = {Row(d) : d \in hit}
  BY DEF SearchRows
<1>8. \A d \in 1..n : d \in allowed
                        <=> allowlist = None \/ \E i \in DOMAIN allowlist : allowlist[i] = f.row_ids[d]
  BY DEF AllowedDocs, Range
<1>9. hit \subseteq 1..n
  BY DEF HitDocs, AllowedDocs
<1>10. \A d : Row(d).row_id = f.row_ids[d]
  OBVIOUS
<1> HIDE DEF Q, n, allowed, hit, some, Row, Meant
<1>11. MeantRows(docs, f.total, Q) = {Row(d) : d \in some}
  BY <1>2, <1>5, <1>6
<1>12. \A d : d \in hit <=> /\ d \in some
                            /\ allowlist = None \/ \E i \in DOMAIN allowlist : allowlist[i] = Row(d).row_id
  BY <1>3, <1>5, <1>8, <1>9, <1>10
<1>13. AllowedRows(MeantRows(docs, f.total, Q), allowlist) = {Row(d) : d \in hit}
  BY <1>11, <1>12 DEF AllowedRows
<1> QED BY <1>7, <1>13 DEF Q

\* hits are the k best of the rows.
BestOf(rows, k, hits) ==
  LET returned == {hits[i] : i \in DOMAIN hits} IN
  /\ Len(hits) = Min({k, Cardinality(rows)}) /\ returned \subseteq rows
  /\ \A i \in 2..Len(hits) : RanksBefore(hits[i - 1], hits[i])
  /\ \A r \in rows \ returned : \A i \in DOMAIN hits : RanksBefore(hits[i], r)

LEMMA RankedIsBest ==
  ASSUME NEW rows, IsFiniteSet(rows), RowsOf(rows), NEW k \in Nat
  PROVE  LET hits == Take(RankOrder(rows), k) IN
         BestOf(rows, k, hits) /\ IsRankedSlice(hits) /\ hits \in Seq(rows)
<1> DEFINE hits == Take(RankOrder(rows), k)
           n == Cardinality(rows)
           m == Cut(n, k)
<1>1. n \in Nat /\ BestRows(rows, m, hits)
  BY BestTaken DEF Windows
<1>2. IsRankedSlice(hits) /\ Len(hits) = m /\ DOMAIN hits = 1..m /\ hits \in Seq(rows)
  <2> HIDE DEF hits, m
  <2> QED BY <1>1, InputsAreTyped, BestAreRanked
<1>3. m = Min({k, n})
  <2> HIDE DEF n
  <2>1. Min({k, n}) = IF k <= n THEN k ELSE n
    BY <1>1, MinOfTwo
  <2> QED BY <1>1, <2>1 DEF Cut, Unlimited
<1> HIDE DEF hits, n, m
<1>4. /\ m \in 0..n /\ hits \in [1..m -> rows]
      /\ \A i, j \in 1..m : i < j => RanksBefore(hits[i], hits[j])
      /\ \A r \in rows : (\E i \in 1..m : hits[i] = r) \/ \A i \in 1..m : RanksBefore(hits[i], r)
  BY <1>1 DEF BestRows, n
<1>5. \A i \in 2..m : RanksBefore(hits[i - 1], hits[i])
  <2> SUFFICES ASSUME NEW i \in 2..m PROVE RanksBefore(hits[i - 1], hits[i])
    OBVIOUS
  <2>1. i - 1 \in 1..m /\ i \in 1..m /\ i - 1 < i
    BY <1>1, <1>4
  <2> QED BY <1>4, <2>1
<1>6. BestOf(rows, k, hits)
  BY <1>2, <1>3, <1>4, <1>5 DEF BestOf, n
<1> QED BY <1>2, <1>6 DEF hits

LEMMA SearchIsBest ==
  ASSUME NEW opened, OpenedIs(opened), NEW q \in Texts, NEW k \in Nat, NEW allowlist,
         allowlist = None \/ Range(allowlist) \subseteq Range(opened.file.row_ids)
  PROVE  LET hits == SparseSearch(opened.file, q, k, allowlist) IN
         /\ AreBestSparse(opened, q, k, allowlist, hits)
         /\ IsRankedSlice(hits) /\ hits \in Seq([row_id : Nat, score : Int])
<1> DEFINE f == opened.file
           terms == TermsIn(f, q)
           docs == DocsMeant(opened, terms)
           Q == QueryTerms(f, q)
           rows == SearchRows(f, q, allowlist)
           hits == SparseSearch(f, q, k, allowlist)
<1>1. f \in SparseFiles /\ ValidateLayout(f) /\ IdfFits(f)
  BY GoodIdf DEF OpenedIs, GoodFile, OpenIndex
<1>2. MeantBy(f, terms, docs)
  <2> HIDE DEF terms
  <2> QED BY DocsAreMeant
<1>3. Q \subseteq terms
  BY DEF TermsIn
<1>4. hits = Take(RankOrder(rows), k) /\ IsFiniteSet(rows) /\ RowsOf(rows)
  BY <1>1, SparseSearchIs
<1>5. BestOf(rows, k, hits) /\ IsRankedSlice(hits) /\ hits \in Seq(rows)
  <2> HIDE DEF rows, hits
  <2> QED BY <1>4, RankedIsBest
<1>6. rows \subseteq [row_id : Nat, score : Int]
  <2>1. \A r \in rows : r.score \in Int
    BY <1>4 DEF RowsOf
  <2>2. \A r \in rows : \E d \in 1..f.doc_count :
          r = [row_id |-> f.row_ids[d],
               score |-> DocScore(f, QueryList(f, q), AllowedDocs(f, allowlist), d)]
    BY DEF SearchRows, HitDocs, AllowedDocs
  <2>3. \A d \in 1..f.doc_count : f.row_ids[d] \in Nat
    BY <1>1, AcceptedFile
  <2> HIDE DEF rows, f
  <2> QED BY <2>1, <2>2, <2>3
<1>7. hits \in Seq([row_id : Nat, score : Int])
  <2> DEFINE R == [row_id : Nat, score : Int]
  <2> HIDE DEF rows, hits, R
  <2>1. rows \subseteq R
    BY <1>6 DEF R
  <2>2. hits \in Seq(R)
    BY <1>5, <2>1
  <2> QED BY <2>2 DEF R
<1>8. rows = AllowedRows(MeantRows(docs, f.total, Q), allowlist)
  <2> HIDE DEF terms, docs, f
  <2> QED BY <1>1, <1>2, <1>3, RowsAreMeant
<1>9. f.total = SumOf([d \in DOMAIN docs |-> docs[d].len])
  <2> HIDE DEF docs, terms, f
  <2>1. /\ DOMAIN docs = 1..f.doc_count
        /\ \A d \in 1..f.doc_count : docs[d].len = f.doc_lens[d]
    BY <1>2 DEF MeantBy
  <2>2. f.doc_lens = [d \in 1..f.doc_count |-> f.doc_lens[d]]
    <3> DEFINE lens == f.doc_lens
    <3>1. lens \in Seq(Nat) /\ DOMAIN lens = 1..f.doc_count
      BY <1>1, FileFields, AcceptedFile
    <3> HIDE DEF lens
    <3>2. lens = [d \in DOMAIN lens |-> lens[d]]
      BY <3>1
    <3> QED BY <3>1, <3>2 DEF lens
  <2>3. [d \in DOMAIN docs |-> docs[d].len] = f.doc_lens
    BY <2>1, <2>2
  <2>4. f.total = SumOf(f.doc_lens)
    BY <1>1 DEF ValidateLayout
  <2> QED BY <2>3, <2>4
<1> DEFINE total == SumOf([d \in DOMAIN docs |-> docs[d].len])
<1>10. AreBestSparse(opened, q, k, allowlist, hits)
         <=> BestOf(AllowedRows(MeantRows(docs, total, Q), allowlist), k, hits)
  BY DEF AreBestSparse, BestOf, AllowedRows, MeantRows, MeantScore, MeantWeight, DocsWith
<1> HIDE DEF docs, total, rows, hits, Q, f, terms
<1>11. AreBestSparse(opened, q, k, allowlist, hits)
  BY <1>5, <1>8, <1>9, <1>10 DEF total
<1> QED BY <1>5, <1>7, <1>11 DEF hits, f

-----------------------------------------------------------------------------
(* Batches of queries                                                      *)

\* search_batch_with_allowlists of two queries
LEMMA PairIs ==
  ASSUME NEW f, NEW p, NEW q, NEW k, NEW allowlist
  PROVE  LET lists == [i \in 1..2 |-> IF i = 1 THEN SparseSearch(f, p, k, None)
                                      ELSE SparseSearch(f, q, k, allowlist)]
         IN SparseSearchBatch(f, <<p, q>>, k, <<None, allowlist>>)
              = IF \E i \in 1..2 : lists[i] = Err THEN Err
                ELSE FromSortedOffsetsHits(OffsetsOf(lists), SeqExt!FlattenSeq(lists))
<1> DEFINE queries == <<p, q>>
           allowlists == <<None, allowlist>>
           lists == [i \in 1..2 |-> IF i = 1 THEN SparseSearch(f, p, k, None)
                                    ELSE SparseSearch(f, q, k, allowlist)]
           each == [i \in DOMAIN queries |-> SparseSearch(f, queries[i], k, allowlists[i])]
<1>1. DOMAIN queries = 1..2 /\ Len(queries) = 2 /\ Len(allowlists) = 2
  OBVIOUS
<1>2. queries[1] = p /\ queries[2] = q /\ allowlists[1] = None /\ allowlists[2] = allowlist
  OBVIOUS
<1>3. SparseSearchBatch(f, queries, k, allowlists)
        = IF Len(allowlists) # Len(queries) \/ \E i \in DOMAIN queries : each[i] = Err THEN Err
          ELSE FromSortedOffsetsHits(OffsetsOf(each), SeqExt!FlattenSeq(each))
  BY DEF SparseSearchBatch
<1>4. each = lists
  <2> HIDE DEF queries, allowlists
  <2>1. \A i \in 1..2 : i = 1 \/ i = 2
    OBVIOUS
  <2> QED BY <1>1, <1>2, <2>1
<1> HIDE DEF each, lists
<1>5. SparseSearchBatch(f, queries, k, allowlists)
        = IF \E i \in 1..2 : lists[i] = Err THEN Err
          ELSE FromSortedOffsetsHits(OffsetsOf(lists), SeqExt!FlattenSeq(lists))
  <2> HIDE DEF queries, allowlists
  <2> QED BY <1>1, <1>3, <1>4
<1> QED BY <1>5 DEF lists

\* Some row of the allowlist is no row of the index.
Unknown(f, allowlist) == \E i \in DOMAIN allowlist : CountIn(f.row_ids, allowlist[i]) = 0

LEMMA UnknownIs ==
  ASSUME NEW f, f.row_ids \in Seq(Nat), NEW allowlist
  PROVE  Unknown(f, allowlist) <=> ~(Range(allowlist) \subseteq Range(f.row_ids))
<1>1. \A i \in DOMAIN allowlist :
        CountIn(f.row_ids, allowlist[i]) = 0 <=> allowlist[i] \notin Range(f.row_ids)
  <2> SUFFICES ASSUME NEW i \in DOMAIN allowlist
               PROVE  CountIn(f.row_ids, allowlist[i]) = 0 <=> allowlist[i] \notin Range(f.row_ids)
    OBVIOUS
  <2> DEFINE count == CountIn(f.row_ids, allowlist[i])
  <2>1. count \in Nat /\ (count > 0 <=> allowlist[i] \in Range(f.row_ids))
    BY CountIs
  <2> HIDE DEF count
  <2>2. count = 0 <=> allowlist[i] \notin Range(f.row_ids)
    BY <2>1
  <2> QED BY <2>2 DEF count
<1> DEFINE known == Range(f.row_ids)
<1>2. \A i \in DOMAIN allowlist : CountIn(f.row_ids, allowlist[i]) = 0 <=> allowlist[i] \notin known
  BY <1>1
<1>3. Range(allowlist) = {allowlist[i] : i \in DOMAIN allowlist}
  BY DEF Range
<1> HIDE DEF known
<1>4. Unknown(f, allowlist) <=> ~(Range(allowlist) \subseteq known)
  BY <1>2, <1>3 DEF Unknown
<1> QED BY <1>4 DEF known

\* A batch of two queries is answered query by query.
BatchRight(opened, p, q, k, allowlist) ==
  LET lists == SparseSearchBatch(opened.file, <<p, q>>, k, <<None, allowlist>>) IN
  IF allowlist # None /\ Unknown(opened.file, allowlist)
  THEN lists = Err
  ELSE /\ lists # Err
       /\ AreBestSparse(opened, p, k, None, lists[1])
       /\ AreBestSparse(opened, q, k, allowlist, lists[2])

LEMMA BatchIsRight ==
  ASSUME NEW opened, OpenedIs(opened), NEW p \in Texts, NEW q \in Texts, NEW k \in Nat,
         NEW allowlist
  PROVE  BatchRight(opened, p, q, k, allowlist)
<1> DEFINE f == opened.file
           first == SparseSearch(f, p, k, None)
           second == SparseSearch(f, q, k, allowlist)
           lists == [i \in 1..2 |-> IF i = 1 THEN first ELSE second]
           batch == SparseSearchBatch(f, <<p, q>>, k, <<None, allowlist>>)
           T == [row_id : Nat, score : Int]
<1>1. f.row_ids \in Seq(Nat)
  <2>1. f \in SparseFiles /\ ValidateLayout(f)
    BY DEF OpenedIs, GoodFile, OpenIndex
  <2> QED BY <2>1, FileFields
<1>2. Unknown(f, allowlist) <=> ~(Range(allowlist) \subseteq Range(f.row_ids))
  BY <1>1, UnknownIs
<1>3. batch = IF \E i \in 1..2 : lists[i] = Err THEN Err
              ELSE FromSortedOffsetsHits(OffsetsOf(lists), SeqExt!FlattenSeq(lists))
  BY PairIs
<1>4. lists[1] = first /\ lists[2] = second /\ DOMAIN lists = 1..2
  OBVIOUS
<1>5. CASE allowlist # None /\ Unknown(f, allowlist)
  <2>1. second = Err
    BY <1>2, <1>5 DEF SparseSearch
  <2>2. batch = Err
    <3> HIDE DEF batch, lists, first, second
    <3>1. \E i \in 1..2 : lists[i] = Err
      BY <1>4, <2>1
    <3> QED BY <1>3, <3>1
  <2> QED BY <1>5, <2>2 DEF BatchRight
<1>6. CASE allowlist = None \/ ~Unknown(f, allowlist)
  <2>1. AreBestSparse(opened, p, k, None, first) /\ IsRankedSlice(first) /\ first \in Seq(T)
    BY SearchIsBest
  <2>2. AreBestSparse(opened, q, k, allowlist, second) /\ IsRankedSlice(second) /\ second \in Seq(T)
    <3>1. allowlist = None \/ Range(allowlist) \subseteq Range(f.row_ids)
      BY <1>2, <1>6
    <3> QED BY <3>1, SearchIsBest
  <2>3. first # Err /\ second # Err
    <3> HIDE DEF first, second
    <3> QED BY <2>1, <2>2, ResultsAreNeither
  <2>4. \A i \in 1..2 : i = 1 \/ i = 2
    OBVIOUS
  <2> HIDE DEF first, second
  <2>5. lists \in [1..2 -> Seq(T)] /\ \A i \in 1..2 : lists[i] # Err /\ IsRankedSlice(lists[i])
    <3> HIDE DEF T
    <3> QED BY <2>1, <2>2, <2>3, <2>4
  <2> HIDE DEF lists, T
  <2>6. batch = FromSortedOffsetsHits(OffsetsOf(lists), SeqExt!FlattenSeq(lists))
    <3> HIDE DEF batch
    <3> QED BY <1>3, <2>5
  <2>7. FromSortedOffsetsHits(OffsetsOf(lists), SeqExt!FlattenSeq(lists)) = lists
    <3>1. 2 \in Nat /\ \A i \in 1..2 : IsRankedSlice(lists[i])
      BY <2>5
    <3> QED BY <2>5, <3>1, LaidEndToEnd
  <2>8. lists \in Seq(Seq(T))
    <3> DEFINE Rows == Seq(T)
    <3>1. lists \in [1..2 -> Rows] /\ 2 \in Nat
      BY <2>5
    <3> HIDE DEF Rows
    <3>2. lists \in Seq(Rows)
      BY <3>1, ListIsSeq
    <3> QED BY <3>2 DEF Rows
  <2>9. batch = lists /\ lists # Err
    BY <2>6, <2>7, <2>8, ResultsAreNeither DEF T
  <2>10. /\ batch # Err /\ AreBestSparse(opened, p, k, None, batch[1])
         /\ AreBestSparse(opened, q, k, allowlist, batch[2])
    <3> HIDE DEF batch, f
    <3> QED BY <1>4, <2>1, <2>2, <2>9
  <2> QED BY <1>6, <2>10 DEF BatchRight
<1> QED BY <1>5, <1>6

-----------------------------------------------------------------------------
(* The opened sparse file                                                  *)

\* What is open was accepted by validate_layout; if nothing has touched the
\* file it is what the builder wrote.
IndexInv == index \notin {None, Err} => OpenedIs(index)

LEMMA IndexInit == Init => IndexInv
  BY DEF Init, IndexInv

LEMMA IndexStep == WrittenInv /\ DataInv /\ IndexInv /\ [Next]_vars => IndexInv'
<1> SUFFICES ASSUME WrittenInv, DataInv, IndexInv, [Next]_vars PROVE IndexInv'
  OBVIOUS
<1>1. CASE UNCHANGED index
  BY <1>1 DEF IndexInv, OpenedIs
<1>2. CASE index' = None
  BY <1>2 DEF IndexInv
<1>3. CASE OpenSparseFile
  <2> SUFFICES ASSUME index' # Err PROVE OpenedIs(index')
    BY DEF IndexInv
  <2>1. index' = written /\ OpenIndex(written.file) # Err
    BY <1>3 DEF OpenSparseFile
  <2>2. OpenedIs(written)
    BY <2>1 DEF OpenedIs, DataInv, WrittenInv
  <2> QED BY <2>1, <2>2
<1>4. \/ UNCHANGED index \/ index' = None \/ OpenSparseFile
  BY DEF Next, vars, hybridVars, WriteMmap, Damage, WithdrawBundle, PublishBundle, OpenDense,
         OpenSparseHalf, CloseBundle, LoadModel
<1> QED BY <1>1, <1>2, <1>3, <1>4

LEMMA IndexSearches == IndexInv => SparseSearchIsSound
<1> SUFFICES ASSUME IndexInv, index \notin {None, Err}, NEW p \in QueryTexts, NEW q \in QueryTexts,
                    NEW k \in 0..MaxTop, NEW allowlist \in Allowlists
             PROVE  BatchRight(index, p, q, k, allowlist)
  BY DEF SparseSearchIsSound, BatchRight, Unknown
<1>1. p \in Texts /\ q \in Texts /\ k \in Nat
  BY InputsAreTyped
<1> QED BY <1>1, BatchIsRight DEF IndexInv

\* An opened sparse file answers each query of a batch with the best documents
\* of the texts it was built from, by their BM25 scores, and a damaged one that
\* open accepts with the best of what its own tables say; only an unknown row
\* of an allowlist is refused: for any corpora, texts, damage, allowlists and
\* top_k.
THEOREM SparseSearchesAreSound == Spec => []SparseSearchIsSound
<1>1. Spec => []HalvesInv
  BY HalvesInit, HalvesStep, PTL DEF Spec
<1>2. Spec => []DataInv
  BY <1>1, DataInit, DataStep, PTL DEF Spec
<1>3. Spec => []WrittenInv
  BY WrittenInit, WrittenStep, PTL DEF Spec
<1>4. Spec => []IndexInv
  BY <1>2, <1>3, IndexInit, IndexStep, PTL DEF Spec
<1> QED BY <1>4, IndexSearches, PTL
=============================================================================
