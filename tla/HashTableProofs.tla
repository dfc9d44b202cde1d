--------------------------- MODULE HashTableProofs ---------------------------
(***************************************************************************)
(* Proofs about HashTable, for every hash function, load factor, number of *)
(* keys, and initial capacity with room for one node (TableAssumption).    *)
(***************************************************************************)
EXTENDS HashTable, Iteration, FiniteSetTheorems, SequenceTheorems

ChainsOf(capacity) == [0 .. capacity - 1 -> Seq(Node)]

\* A node is in some chain.
Has(chains, node) ==
    \E i \in DOMAIN chains : \E n \in DOMAIN chains[i] : chains[i][n] = node

\* What a table of this capacity should look like: every node in the chain of
\* its key, and no two nodes of a key there.
Tidy(chains, capacity) ==
    /\ chains \in ChainsOf(capacity)
    /\ \A i \in 0 .. capacity - 1 : \A n \in DOMAIN chains[i] :
          BucketIndex(chains[i][n].key, capacity) = i
    /\ \A i \in 0 .. capacity - 1 : \A m, n \in DOMAIN chains[i] :
          chains[i][m].key = chains[i][n].key => m = n

DistinctKeys(items) == \A m, n \in DOMAIN items : items[m].key = items[n].key => m = n

------------------------------------------------------------------------------
(***************************************************************************)
(* Indexes and iteration.                                                  *)
(***************************************************************************)

LEMMA CapacityOf ==
  ASSUME NEW capacity \in Nat \ {0}, NEW chains, DOMAIN chains = 0 .. capacity - 1
  PROVE  Cardinality(DOMAIN chains) = capacity
<1>1. Cardinality(0 .. capacity - 1) = capacity
  BY FS_Interval
<1> QED
  BY <1>1

LEMMA IndexInRange ==
  ASSUME NEW capacity \in Nat \ {0}, hash \in [TableKeys -> HashValues], NEW k \in TableKeys
  PROVE  BucketIndex(k, capacity) \in 0 .. capacity - 1
<1>1. hash[k] \in Nat
  BY TableAssumption
<1> QED
  BY <1>1 DEF BucketIndex

\* One step of the recursive definition of Iterated.
Onwards(chains, capacity, f) ==
    [i \in 0 .. capacity |-> IF i = 0 THEN <<>> ELSE f[i - 1] \o chains[i - 1]]

LEMMA OnwardsUnfolds ==
  ASSUME NEW capacity \in Nat, NEW chains, NEW f, f = Onwards(chains, capacity, f)
  PROVE  /\ f[0] = <<>>
         /\ \A i \in 1 .. capacity : f[i] = f[i - 1] \o chains[i - 1]
<1>1. f = [i \in 0 .. capacity |-> IF i = 0 THEN <<>> ELSE f[i - 1] \o chains[i - 1]]
  BY DEF Onwards
<1> QED
  BY <1>1

LEMMA OnwardsIsFunction ==
  ASSUME NEW capacity, NEW chains, NEW f, f = Onwards(chains, capacity, f)
  PROVE  f = [i \in 0 .. capacity |-> f[i]]
<1>1. f = [i \in 0 .. capacity |-> IF i = 0 THEN <<>> ELSE f[i - 1] \o chains[i - 1]]
  BY DEF Onwards
<1> QED
  BY <1>1

\* The recursive definition of Iterated is a good one.
LEMMA IteratedIs ==
  ASSUME NEW capacity \in Nat \ {0}, NEW chains \in ChainsOf(capacity)
  PROVE  /\ Iterated(chains) \in [0 .. capacity -> Seq(Node)]
         /\ Iterated(chains)[0] = <<>>
         /\ \A i \in 1 .. capacity :
               Iterated(chains)[i] = Iterated(chains)[i - 1] \o chains[i - 1]
<1> DEFINE T == Seq(Node)
           zero == <<>>
           g == [i \in 1 .. capacity |-> [s \in T |-> s \o chains[i - 1]]]
<1>1. zero \in T
  BY EmptySeq
<1>2. ASSUME NEW i \in 1 .. capacity, NEW s \in T PROVE s \o chains[i - 1] \in T
  <2>1. chains[i - 1] \in Seq(Node)
    BY DEF ChainsOf
  <2> QED
    BY <2>1, ConcatProperties
<1> HIDE DEF T
<1>3. capacity \in Nat /\ g \in [1 .. capacity -> [T -> T]]
  BY <1>2
<1>4. \A i \in 1 .. capacity : \A s \in T : g[i][s] = s \o chains[i - 1]
  OBVIOUS
<1> HIDE DEF g, zero
<1>5. PICK f : f \in LoopResults(T, zero, capacity, g)
  BY <1>1, <1>3, LoopExists
<1> f \in [0 .. capacity -> T]
  BY <1>5 DEF LoopResults
<1>6. f = Onwards(chains, capacity, f)
  <2>1. ASSUME NEW i \in 1 .. capacity PROVE f[i] = f[i - 1] \o chains[i - 1]
    <3>1. f[i - 1] \in T
      BY <1>3
    <3> QED
      BY <1>4, <1>5, <3>1 DEF LoopResults
  <2>2. ASSUME NEW i \in 0 .. capacity
        PROVE  f[i] = IF i = 0 THEN <<>> ELSE f[i - 1] \o chains[i - 1]
    <3>1. CASE i = 0
      BY <1>5, <3>1 DEF zero, LoopResults
    <3>2. CASE i # 0
      <4>1. i \in 1 .. capacity
        BY <1>3, <3>2
      <4> QED
        BY <2>1, <3>2, <4>1
    <3> QED
      BY <3>1, <3>2
  <2>3. f = [i \in 0 .. capacity |-> f[i]]
    OBVIOUS
  <2> QED
    BY <2>2, <2>3, Zenon DEF Onwards
<1>7. Iterated(chains) = Onwards(chains, capacity, Iterated(chains))
  <2>1. Iterated(chains) = CHOOSE h : h = Onwards(chains, capacity, h)
    BY CapacityOf DEF Iterated, Onwards, ChainsOf
  <2> QED
    BY <1>6, <2>1
<1>8. /\ Iterated(chains)[0] = <<>>
      /\ \A i \in 1 .. capacity :
            Iterated(chains)[i] = Iterated(chains)[i - 1] \o chains[i - 1]
  BY <1>3, <1>7, OnwardsUnfolds, ZenonT(30)
<1> DEFINE S == {i \in 0 .. capacity : Iterated(chains)[i] \in T}
<1>9. 0 \in S
  BY <1>1, <1>3, <1>8 DEF zero
<1>10. ASSUME NEW i \in 1 .. capacity, i - 1 \in S PROVE i \in S
  <2>1. Iterated(chains)[i - 1] \o chains[i - 1] \in T
    BY <1>2, <1>10
  <2>2. Iterated(chains)[i] = Iterated(chains)[i - 1] \o chains[i - 1]
    BY <1>8
  <2>3. i \in 0 .. capacity
    BY <1>3
  <2> QED
    BY <2>1, <2>2, <2>3
<1>11. \A i \in 0 .. capacity : i \in S
  <2> HIDE DEF S
  <2> QED
    BY <1>3, <1>9, <1>10, UpTo
<1>12. Iterated(chains) = [i \in 0 .. capacity |-> Iterated(chains)[i]]
  BY <1>7, OnwardsIsFunction
<1> QED
  BY <1>8, <1>11, <1>12 DEF T

------------------------------------------------------------------------------
(***************************************************************************)
(* A node at the head of a chain, and the table filled one by one.         *)
(***************************************************************************)

LEMMA InFront ==
  ASSUME NEW node \in Node, NEW chain \in Seq(Node)
  PROVE  /\ <<node>> \o chain \in Seq(Node)
         /\ Len(<<node>> \o chain) = Len(chain) + 1
         /\ (<<node>> \o chain)[1] = node
         /\ \A n \in 2 .. Len(chain) + 1 : (<<node>> \o chain)[n] = chain[n - 1]
<1>1. <<node>> \in Seq(Node) /\ Len(<<node>>) = 1 /\ <<node>>[1] = node
  OBVIOUS
<1>2. Len(chain) \in Nat
  BY LenProperties
<1> QED
  BY <1>1, <1>2, ConcatProperties

LEMMA PrependIs ==
  ASSUME NEW capacity \in Nat \ {0}, NEW chains \in ChainsOf(capacity),
         hash \in [TableKeys -> HashValues], NEW k \in TableKeys, NEW v \in TableValues
  PROVE  /\ Prepend(chains, k, v) \in ChainsOf(capacity)
         /\ Prepend(chains, k, v) =
               [chains EXCEPT ![BucketIndex(k, capacity)] =
                  <<[key |-> k, value |-> v]>> \o chains[BucketIndex(k, capacity)]]
<1>1. Cardinality(DOMAIN chains) = capacity
  BY CapacityOf DEF ChainsOf
<1>2. BucketIndex(k, capacity) \in 0 .. capacity - 1
  BY IndexInRange
<1>3. <<[key |-> k, value |-> v]>> \o chains[BucketIndex(k, capacity)] \in Seq(Node)
  <2>1. chains[BucketIndex(k, capacity)] \in Seq(Node)
    BY <1>2 DEF ChainsOf
  <2>2. [key |-> k, value |-> v] \in Node
    BY DEF Node
  <2> QED
    BY <2>1, <2>2, InFront
<1>4. Prepend(chains, k, v) =
        [chains EXCEPT ![BucketIndex(k, capacity)] =
           <<[key |-> k, value |-> v]>> \o chains[BucketIndex(k, capacity)]]
  BY <1>1 DEF Prepend
<1> QED
  BY <1>2, <1>3, <1>4 DEF ChainsOf

\* One step of the recursive definition of Filled.
Refill(items, capacity, f) ==
    [n \in 0 .. Len(items) |->
        IF n = 0 THEN NoChains(capacity)
        ELSE Prepend(f[n - 1], items[n].key, items[n].value)]

LEMMA RefillUnfolds ==
  ASSUME NEW items, Len(items) \in Nat, NEW capacity, NEW f, f = Refill(items, capacity, f)
  PROVE  /\ f[0] = NoChains(capacity)
         /\ \A n \in 1 .. Len(items) : f[n] = Prepend(f[n - 1], items[n].key, items[n].value)
<1>1. f = [n \in 0 .. Len(items) |->
             IF n = 0 THEN NoChains(capacity)
             ELSE Prepend(f[n - 1], items[n].key, items[n].value)]
  BY DEF Refill
<1> QED
  BY <1>1

LEMMA RefillIsFunction ==
  ASSUME NEW items, NEW capacity, NEW f, f = Refill(items, capacity, f)
  PROVE  f = [n \in 0 .. Len(items) |-> f[n]]
<1>1. f = [n \in 0 .. Len(items) |->
             IF n = 0 THEN NoChains(capacity)
             ELSE Prepend(f[n - 1], items[n].key, items[n].value)]
  BY DEF Refill
<1> QED
  BY <1>1

\* The recursive definition of Filled is a good one.
LEMMA FilledIs ==
  ASSUME NEW capacity \in Nat \ {0}, NEW items \in Seq(Node),
         hash \in [TableKeys -> HashValues]
  PROVE  /\ Filled(items, capacity) \in [0 .. Len(items) -> ChainsOf(capacity)]
         /\ Filled(items, capacity)[0] = NoChains(capacity)
         /\ \A n \in 1 .. Len(items) :
               Filled(items, capacity)[n] =
                 Prepend(Filled(items, capacity)[n - 1], items[n].key, items[n].value)
<1> DEFINE T == ChainsOf(capacity)
           N == Len(items)
           g == [n \in 1 .. N |-> [c \in T |-> Prepend(c, items[n].key, items[n].value)]]
<1>1. NoChains(capacity) \in T
  BY EmptySeq DEF NoChains, ChainsOf
<1>2. N \in Nat
  BY LenProperties
<1>3. ASSUME NEW n \in 1 .. N, NEW c \in T
      PROVE  Prepend(c, items[n].key, items[n].value) \in T
  <2>1. items[n] \in Node
    BY ElementOfSeq
  <2>2. items[n].key \in TableKeys /\ items[n].value \in TableValues
    BY <2>1 DEF Node
  <2> QED
    BY <2>2, PrependIs
<1> HIDE DEF T, N
<1>4. g \in [1 .. N -> [T -> T]]
  BY <1>3
<1>5. \A n \in 1 .. N : \A c \in T : g[n][c] = Prepend(c, items[n].key, items[n].value)
  OBVIOUS
<1> HIDE DEF g
<1>6. PICK f : f \in LoopResults(T, NoChains(capacity), N, g)
  BY <1>1, <1>2, <1>4, LoopExists
<1> f \in [0 .. N -> T]
  BY <1>6 DEF LoopResults
<1>7. f = Refill(items, capacity, f)
  <2>1. ASSUME NEW n \in 1 .. N
        PROVE  f[n] = Prepend(f[n - 1], items[n].key, items[n].value)
    <3>1. f[n - 1] \in T
      BY <1>2
    <3>2. f[n] = g[n][f[n - 1]]
      BY <1>6 DEF LoopResults
    <3> QED
      BY <1>5, <3>1, <3>2
  <2>2. ASSUME NEW n \in 0 .. N
        PROVE  f[n] = IF n = 0 THEN NoChains(capacity)
                      ELSE Prepend(f[n - 1], items[n].key, items[n].value)
    <3>1. CASE n = 0
      BY <1>6, <3>1 DEF LoopResults
    <3>2. CASE n # 0
      <4>1. n \in 1 .. N
        BY <1>2, <3>2
      <4> QED
        BY <2>1, <3>2, <4>1
    <3> QED
      BY <3>1, <3>2
  <2>3. f = [n \in 0 .. N |-> f[n]]
    OBVIOUS
  <2> QED
    BY <2>2, <2>3, Zenon DEF Refill, N
<1>8. Filled(items, capacity) = Refill(items, capacity, Filled(items, capacity))
  <2>1. Filled(items, capacity) = CHOOSE h : h = Refill(items, capacity, h)
    BY DEF Filled, Refill
  <2> QED
    BY <1>7, <2>1
<1>9. /\ Filled(items, capacity)[0] = NoChains(capacity)
      /\ \A n \in 1 .. N :
            Filled(items, capacity)[n] =
              Prepend(Filled(items, capacity)[n - 1], items[n].key, items[n].value)
  BY <1>2, <1>8, RefillUnfolds DEF N
<1> DEFINE S == {n \in 0 .. N : Filled(items, capacity)[n] \in T}
<1>10. 0 \in S
  BY <1>1, <1>2, <1>9
<1>11. ASSUME NEW n \in 1 .. N, n - 1 \in S PROVE n \in S
  <2>1. Prepend(Filled(items, capacity)[n - 1], items[n].key, items[n].value) \in T
    BY <1>3, <1>11
  <2>2. Filled(items, capacity)[n] =
          Prepend(Filled(items, capacity)[n - 1], items[n].key, items[n].value)
    BY <1>9
  <2>3. n \in 0 .. N
    BY <1>2
  <2> QED
    BY <2>1, <2>2, <2>3
<1>12. \A n \in 0 .. N : n \in S
  <2> HIDE DEF S
  <2> QED
    BY <1>2, <1>10, <1>11, UpTo
<1>13. Filled(items, capacity) = [n \in 0 .. N |-> Filled(items, capacity)[n]]
  BY <1>8, RefillIsFunction DEF N
<1> QED
  BY <1>9, <1>12, <1>13 DEF T, N

------------------------------------------------------------------------------
(***************************************************************************)
(* What iterating over a table yields.                                     *)
(***************************************************************************)

LEMMA SumUpTo ==
  ASSUME NEW x \in Nat, NEW u \in Nat, NEW y \in Nat, NEW w \in Nat,
         NEW d \in Int, NEW i \in Int, NEW j \in Int,
         y = x + (IF j < i - 1 THEN d ELSE 0),
         w = u + (IF j = i - 1 THEN d ELSE 0)
  PROVE  y + w = x + u + (IF j < i THEN d ELSE 0)
<1>1. CASE j < i - 1
  BY <1>1
<1>2. CASE j = i - 1
  BY <1>2
<1>3. CASE j > i - 1
  BY <1>3
<1> QED
  BY <1>1, <1>2, <1>3

\* A chain longer by d makes as many more items.
LEMMA LengthsAdd ==
  ASSUME NEW capacity \in Nat \ {0},
         NEW chains \in ChainsOf(capacity), NEW other \in ChainsOf(capacity),
         NEW j \in 0 .. capacity - 1, NEW d \in Int,
         \A i \in 0 .. capacity - 1 : i # j => other[i] = chains[i],
         Len(other[j]) = Len(chains[j]) + d
  PROVE  Len(Iterated(other)[capacity]) = Len(Iterated(chains)[capacity]) + d
<1> DEFINE a == Iterated(chains)
           b == Iterated(other)
           S == {i \in 0 .. capacity : Len(b[i]) = Len(a[i]) + IF j < i THEN d ELSE 0}
<1>1. /\ a \in [0 .. capacity -> Seq(Node)] /\ a[0] = <<>>
      /\ \A i \in 1 .. capacity : a[i] = a[i - 1] \o chains[i - 1]
  BY IteratedIs
<1>2. /\ b \in [0 .. capacity -> Seq(Node)] /\ b[0] = <<>>
      /\ \A i \in 1 .. capacity : b[i] = b[i - 1] \o other[i - 1]
  BY IteratedIs
<1> HIDE DEF a, b
<1>3. capacity \in Nat
  OBVIOUS
<1>4. 0 \in S
  BY <1>1, <1>2, <1>3, EmptySeq
<1>5. ASSUME NEW i \in 1 .. capacity, i - 1 \in S PROVE i \in S
  <2>1. i - 1 \in 0 .. capacity /\ i - 1 \in 0 .. capacity - 1 /\ i \in 0 .. capacity
    BY <1>3
  <2>2. /\ a[i - 1] \in Seq(Node) /\ b[i - 1] \in Seq(Node)
        /\ chains[i - 1] \in Seq(Node) /\ other[i - 1] \in Seq(Node)
    BY <1>1, <1>2, <2>1 DEF ChainsOf
  <2>3. /\ Len(a[i]) = Len(a[i - 1]) + Len(chains[i - 1])
        /\ Len(b[i]) = Len(b[i - 1]) + Len(other[i - 1])
    <3>1. /\ Len(a[i - 1] \o chains[i - 1]) = Len(a[i - 1]) + Len(chains[i - 1])
          /\ Len(b[i - 1] \o other[i - 1]) = Len(b[i - 1]) + Len(other[i - 1])
      BY <2>2, ConcatProperties
    <3> QED
      BY <1>1, <1>2, <3>1
  <2>4. /\ Len(a[i - 1]) \in Nat /\ Len(b[i - 1]) \in Nat
        /\ Len(chains[i - 1]) \in Nat /\ Len(other[i - 1]) \in Nat
    BY <2>2, LenProperties
  <2>5. Len(b[i - 1]) = Len(a[i - 1]) + IF j < i - 1 THEN d ELSE 0
    BY <1>5
  <2>6. Len(other[i - 1]) = Len(chains[i - 1]) + IF j = i - 1 THEN d ELSE 0
    <3>1. CASE j = i - 1
      BY <3>1
    <3>2. CASE j # i - 1
      BY <2>1, <2>4, <3>2
    <3> QED
      BY <3>1, <3>2
  <2>7. Len(b[i]) = Len(a[i]) + IF j < i THEN d ELSE 0
    <3>1. j \in Int /\ i \in Int
      OBVIOUS
    <3> DEFINE x == Len(a[i - 1])
               u == Len(chains[i - 1])
               y == Len(b[i - 1])
               w == Len(other[i - 1])
    <3>2. /\ x \in Nat /\ u \in Nat /\ y \in Nat /\ w \in Nat
          /\ y = x + (IF j < i - 1 THEN d ELSE 0)
          /\ w = u + (IF j = i - 1 THEN d ELSE 0)
      BY <2>4, <2>5, <2>6
    <3>3. Len(a[i]) = x + u /\ Len(b[i]) = y + w
      BY <2>3
    <3> HIDE DEF x, u, y, w
    <3>4. y + w = x + u + (IF j < i THEN d ELSE 0)
      BY <3>1, <3>2, SumUpTo
    <3> QED
      BY <3>3, <3>4
  <2> QED
    BY <2>1, <2>7
<1>6. \A i \in 0 .. capacity : i \in S
  <2> HIDE DEF S
  <2> QED
    BY <1>3, <1>4, <1>5, UpTo
<1>7. capacity \in S /\ j < capacity
  <2> HIDE DEF S
  <2> QED
    BY <1>3, <1>6
<1> QED
  BY <1>7 DEF a, b

\* Iterating over a tidy table yields the nodes of its chains, each key once:
\* the keys of two chains have different indexes.
LEMMA ItemsAre ==
  ASSUME NEW capacity \in Nat \ {0}, NEW chains, Tidy(chains, capacity)
  PROVE  /\ Iterated(chains)[capacity] \in Seq(Node)
         /\ DistinctKeys(Iterated(chains)[capacity])
         /\ \A node : Has(chains, node) <=>
               \E m \in DOMAIN Iterated(chains)[capacity] :
                  Iterated(chains)[capacity][m] = node
<1> DEFINE a == Iterated(chains)
           Listed(i) == \A m \in DOMAIN a[i] :
                           \E j \in 0 .. i - 1 : \E n \in DOMAIN chains[j] : chains[j][n] = a[i][m]
           Complete(i) == \A j \in 0 .. i - 1 : \A n \in DOMAIN chains[j] :
                             \E m \in DOMAIN a[i] : a[i][m] = chains[j][n]
           S == {i \in 0 .. capacity : Listed(i) /\ Complete(i) /\ DistinctKeys(a[i])}
<1>1. chains \in ChainsOf(capacity) /\ DOMAIN chains = 0 .. capacity - 1 /\ capacity \in Nat
  BY DEF Tidy, ChainsOf
<1>2. /\ a \in [0 .. capacity -> Seq(Node)] /\ a[0] = <<>>
      /\ \A i \in 1 .. capacity : a[i] = a[i - 1] \o chains[i - 1]
  BY <1>1, IteratedIs
<1> HIDE DEF a
<1>3. 0 \in S
  <2>1. DOMAIN a[0] = {}
    BY <1>2
  <2> QED
    BY <1>1, <2>1 DEF DistinctKeys
<1>4. ASSUME NEW i \in 1 .. capacity, i - 1 \in S PROVE i \in S
  <2> DEFINE old == a[i - 1]
             chain == chains[i - 1]
  <2>1. i - 1 \in 0 .. capacity /\ i - 1 \in 0 .. capacity - 1 /\ i \in 0 .. capacity
    BY <1>1
  <2>2. old \in Seq(Node) /\ chain \in Seq(Node) /\ a[i] \in Seq(Node)
    BY <1>1, <1>2, <2>1 DEF ChainsOf
  <2>3. /\ Len(old) \in Nat /\ Len(chain) \in Nat
        /\ DOMAIN old = 1 .. Len(old) /\ DOMAIN chain = 1 .. Len(chain)
        /\ DOMAIN a[i] = 1 .. Len(a[i])
    BY <2>2, LenProperties
  <2>4. a[i] = old \o chain
    BY <1>2
  <2>5. /\ \A m \in DOMAIN old :
              \E j \in 0 .. i - 2 : \E n \in DOMAIN chains[j] : chains[j][n] = old[m]
        /\ \A j \in 0 .. i - 2 : \A n \in DOMAIN chains[j] :
              \E m \in DOMAIN old : old[m] = chains[j][n]
        /\ DistinctKeys(old)
    BY <1>4, i - 1 - 1 = i - 2
  <2>8. /\ \A m \in DOMAIN old : BucketIndex(old[m].key, capacity) \in 0 .. i - 2
        /\ \A n \in DOMAIN chain : BucketIndex(chain[n].key, capacity) = i - 1
    <3>1. \A j \in 0 .. i - 2 : j \in 0 .. capacity - 1
      BY <1>1
    <3> QED
      BY <2>1, <2>5, <3>1 DEF Tidy
  <2> HIDE DEF old, chain
  <2>12. /\ Len(a[i]) = Len(old) + Len(chain)
         /\ \A m \in 1 .. Len(old) + Len(chain) :
               a[i][m] = IF m <= Len(old) THEN old[m] ELSE chain[m - Len(old)]
    BY <2>2, <2>4, ConcatProperties
  <2>6. \A m \in DOMAIN a[i] :
           \/ m \in DOMAIN old /\ a[i][m] = old[m]
           \/ m - Len(old) \in DOMAIN chain /\ a[i][m] = chain[m - Len(old)]
    <3> TAKE m \in DOMAIN a[i]
    <3>1. m \in 1 .. Len(old) + Len(chain) /\ m \in Int
      BY <2>3, <2>12
    <3>2. a[i][m] = IF m <= Len(old) THEN old[m] ELSE chain[m - Len(old)]
      BY <2>12, <3>1
    <3>3. CASE m <= Len(old)
      BY <2>3, <3>1, <3>2, <3>3
    <3>4. CASE m > Len(old)
      BY <2>3, <3>1, <3>2, <3>4
    <3> QED
      BY <2>3, <3>1, <3>3, <3>4
  <2>7. /\ \A m \in DOMAIN old : m \in DOMAIN a[i] /\ a[i][m] = old[m]
        /\ \A n \in DOMAIN chain :
              n + Len(old) \in DOMAIN a[i] /\ a[i][n + Len(old)] = chain[n]
    <3>1. ASSUME NEW m \in DOMAIN old PROVE m \in DOMAIN a[i] /\ a[i][m] = old[m]
      <4>1. m \in 1 .. Len(old) /\ m \in 1 .. Len(old) + Len(chain)
        BY <2>3
      <4> QED
        BY <2>3, <2>12, <4>1
    <3>2. ASSUME NEW n \in DOMAIN chain
          PROVE  n + Len(old) \in DOMAIN a[i] /\ a[i][n + Len(old)] = chain[n]
      <4>1. /\ n \in Int /\ n + Len(old) \in 1 .. Len(old) + Len(chain)
            /\ ~ (n + Len(old) <= Len(old)) /\ n + Len(old) - Len(old) = n
        BY <2>3
      <4>2. a[i][n + Len(old)] = chain[n + Len(old) - Len(old)]
        BY <2>12, <4>1
      <4> QED
        BY <2>3, <2>12, <4>1, <4>2
    <3> QED
      BY <3>1, <3>2
  <2>9. Listed(i)
    <3> SUFFICES ASSUME NEW m \in DOMAIN a[i]
                 PROVE  \E j \in 0 .. i - 1 : \E n \in DOMAIN chains[j] : chains[j][n] = a[i][m]
      OBVIOUS
    <3>1. CASE m \in DOMAIN old /\ a[i][m] = old[m]
      <4>1. PICK j \in 0 .. i - 2 : \E n \in DOMAIN chains[j] : chains[j][n] = old[m]
        BY <2>5, <3>1
      <4>2. j \in 0 .. i - 1
        OBVIOUS
      <4> QED
        BY <3>1, <4>1, <4>2
    <3>2. CASE m - Len(old) \in DOMAIN chain /\ a[i][m] = chain[m - Len(old)]
      <4>1. i - 1 \in 0 .. i - 1
        OBVIOUS
      <4> QED
        BY <3>2, <4>1 DEF chain
    <3> QED
      BY <2>6, <3>1, <3>2
  <2>10. Complete(i)
    <3> SUFFICES ASSUME NEW j \in 0 .. i - 1, NEW n \in DOMAIN chains[j]
                 PROVE  \E m \in DOMAIN a[i] : a[i][m] = chains[j][n]
      OBVIOUS
    <3>1. CASE j = i - 1
      BY <2>7, <3>1 DEF chain
    <3>2. CASE j # i - 1
      <4>1. j \in 0 .. i - 2
        BY <3>2
      <4> QED
        BY <2>5, <2>7, <4>1
    <3> QED
      BY <3>1, <3>2
  <2>11. DistinctKeys(a[i])
    <3> SUFFICES ASSUME NEW m \in DOMAIN a[i], NEW n \in DOMAIN a[i],
                        a[i][m].key = a[i][n].key
                 PROVE  m = n
      BY DEF DistinctKeys
    <3>1. CASE m \in DOMAIN old /\ a[i][m] = old[m] /\ n \in DOMAIN old /\ a[i][n] = old[n]
      BY <2>5, <3>1 DEF DistinctKeys
    <3>2. CASE /\ m - Len(old) \in DOMAIN chain /\ a[i][m] = chain[m - Len(old)]
               /\ n - Len(old) \in DOMAIN chain /\ a[i][n] = chain[n - Len(old)]
      <4>1. m - Len(old) = n - Len(old)
        BY <2>1, <3>2 DEF Tidy, chain
      <4> QED
        BY <2>3, <4>1
    <3>3. \A x \in DOMAIN old, y \in DOMAIN chain : old[x].key # chain[y].key
      <4> SUFFICES ASSUME NEW x \in DOMAIN old, NEW y \in DOMAIN chain,
                          old[x].key = chain[y].key
                   PROVE  FALSE
        OBVIOUS
      <4>1. i - 1 \in 0 .. i - 2
        BY <2>8
      <4> QED
        BY <4>1
    <3> QED
      BY <2>6, <3>1, <3>2, <3>3
  <2> QED
    BY <2>1, <2>9, <2>10, <2>11
<1>5. \A i \in 0 .. capacity : i \in S
  <2> HIDE DEF S
  <2> QED
    BY <1>1, <1>3, <1>4, UpTo
<1>6. Listed(capacity) /\ Complete(capacity) /\ DistinctKeys(a[capacity])
  BY <1>1, <1>5
<1>7. \A node : Has(chains, node) <=> \E m \in DOMAIN a[capacity] : a[capacity][m] = node
  BY <1>1, <1>6 DEF Has
<1> QED
  BY <1>1, <1>2, <1>6, <1>7 DEF a

------------------------------------------------------------------------------
(***************************************************************************)
(* Tidy tables stay tidy.                                                  *)
(***************************************************************************)

\* No node of key k is in a chain.
Lacks(chains, k) == \A node : Has(chains, node) => node.key # k

\* Putting a new key.
LEMMA PrependTidy ==
  ASSUME NEW capacity \in Nat \ {0}, hash \in [TableKeys -> HashValues],
         NEW chains, Tidy(chains, capacity),
         NEW k \in TableKeys, NEW v \in TableValues, Lacks(chains, k)
  PROVE  /\ Tidy(Prepend(chains, k, v), capacity)
         /\ \A node : Has(Prepend(chains, k, v), node) <=>
                         Has(chains, node) \/ node = [key |-> k, value |-> v]
         /\ Len(Iterated(Prepend(chains, k, v))[capacity]) =
               Len(Iterated(chains)[capacity]) + 1
<1> DEFINE first == [key |-> k, value |-> v]
           j == BucketIndex(k, capacity)
           new == Prepend(chains, k, v)
<1>1. /\ chains \in ChainsOf(capacity) /\ DOMAIN chains = 0 .. capacity - 1
      /\ new \in ChainsOf(capacity) /\ DOMAIN new = 0 .. capacity - 1
      /\ new = [chains EXCEPT ![j] = <<first>> \o chains[j]]
  <2>1. chains \in ChainsOf(capacity)
    BY DEF Tidy
  <2>2. new \in ChainsOf(capacity) /\ new = [chains EXCEPT ![j] = <<first>> \o chains[j]]
    BY <2>1, PrependIs
  <2> QED
    BY <2>1, <2>2 DEF ChainsOf
<1>2. j \in 0 .. capacity - 1
  BY IndexInRange
<1>3. first \in Node /\ first.key = k
  BY DEF Node
<1> HIDE DEF new, first
<1>4. new[j] = <<first>> \o chains[j] /\ \A i \in 0 .. capacity - 1 : i # j => new[i] = chains[i]
  BY <1>1, <1>2
<1>5. chains[j] \in Seq(Node) /\ Len(chains[j]) \in Nat /\ DOMAIN chains[j] = 1 .. Len(chains[j])
  <2>1. chains[j] \in Seq(Node)
    BY <1>1, <1>2 DEF ChainsOf
  <2> QED
    BY <2>1, LenProperties
<1>6. /\ Len(new[j]) = Len(chains[j]) + 1 /\ new[j] \in Seq(Node)
      /\ new[j][1] = first
      /\ \A n \in 2 .. Len(chains[j]) + 1 : new[j][n] = chains[j][n - 1]
  BY <1>3, <1>4, <1>5, InFront
<1>7. DOMAIN new[j] = 1 .. Len(chains[j]) + 1
  BY <1>6, LenProperties
<1>8. ASSUME NEW n \in DOMAIN new[j]
      PROVE  \/ n = 1 /\ new[j][n] = first
             \/ n # 1 /\ n - 1 \in DOMAIN chains[j] /\ new[j][n] = chains[j][n - 1]
  <2>1. CASE n = 1
    BY <1>6, <2>1
  <2>2. CASE n # 1
    <3>1. n \in 2 .. Len(chains[j]) + 1 /\ n - 1 \in 1 .. Len(chains[j])
      BY <1>5, <1>7, <2>2
    <3> QED
      BY <1>5, <1>6, <2>2, <3>1
  <2> QED
    BY <2>1, <2>2
<1>9. ASSUME NEW n \in DOMAIN chains[j]
      PROVE  n + 1 \in DOMAIN new[j] /\ new[j][n + 1] = chains[j][n]
  <2> n \in 1 .. Len(chains[j])
    BY <1>5
  <2>1. n + 1 \in 2 .. Len(chains[j]) + 1 /\ n + 1 \in 1 .. Len(chains[j]) + 1 /\ n + 1 - 1 = n
    BY <1>5
  <2>2. new[j][n + 1] = chains[j][n + 1 - 1]
    BY <1>6, <2>1
  <2> QED
    BY <1>7, <2>1, <2>2
<1>10. 1 \in DOMAIN new[j]
  BY <1>5, <1>7
<1>11. \A node : Has(new, node) <=> Has(chains, node) \/ node = first
  <2>1. ASSUME NEW node, Has(new, node) PROVE Has(chains, node) \/ node = first
    <3>1. PICK i \in 0 .. capacity - 1 : \E n \in DOMAIN new[i] : new[i][n] = node
      BY <1>1, <2>1 DEF Has
    <3>2. CASE i = j
      BY <1>1, <1>8, <3>1, <3>2 DEF Has
    <3>3. CASE i # j
      BY <1>1, <1>4, <3>1, <3>3 DEF Has
    <3> QED
      BY <3>2, <3>3
  <2>2. Has(new, first)
    BY <1>1, <1>2, <1>6, <1>10 DEF Has
  <2>3. ASSUME NEW node, Has(chains, node) PROVE Has(new, node)
    <3>1. PICK i \in 0 .. capacity - 1 : \E n \in DOMAIN chains[i] : chains[i][n] = node
      BY <1>1, <2>3 DEF Has
    <3>2. CASE i = j
      BY <1>1, <1>9, <3>1, <3>2, ZenonT(30) DEF Has
    <3>3. CASE i # j
      BY <1>1, <1>4, <3>1, <3>3 DEF Has
    <3> QED
      BY <3>2, <3>3
  <2> QED
    BY <2>1, <2>2, <2>3
<1>12. Tidy(new, capacity)
  <2>1. ASSUME NEW i \in 0 .. capacity - 1, NEW n \in DOMAIN new[i]
        PROVE  BucketIndex(new[i][n].key, capacity) = i
    <3>1. CASE i # j
      BY <1>4, <3>1 DEF Tidy
    <3>2. CASE i = j
      BY <1>2, <1>3, <1>8, <3>2 DEF Tidy
    <3> QED
      BY <3>1, <3>2
  <2>2. ASSUME NEW n \in DOMAIN chains[j] PROVE chains[j][n].key # k
    BY <1>1, <1>2 DEF Lacks, Has
  <2>3. ASSUME NEW i \in 0 .. capacity - 1, NEW m \in DOMAIN new[i], NEW n \in DOMAIN new[i],
               new[i][m].key = new[i][n].key
        PROVE  m = n
    <3>1. CASE i # j
      BY <1>4, <2>3, <3>1 DEF Tidy
    <3>2. CASE i = j
      <4>1. CASE m = 1 \/ n = 1
        BY <1>3, <1>8, <2>2, <2>3, <3>2, <4>1
      <4>2. CASE m # 1 /\ n # 1
        <5>1. m - 1 = n - 1
          BY <1>2, <1>8, <2>3, <3>2, <4>2 DEF Tidy
        <5> QED
          BY <1>5, <1>7, <3>2, <5>1
      <4> QED
        BY <4>1, <4>2
    <3> QED
      BY <3>1, <3>2
  <2> QED
    BY <1>1, <2>1, <2>3 DEF Tidy
<1>13. Len(Iterated(new)[capacity]) = Len(Iterated(chains)[capacity]) + 1
  <2> DEFINE d == 1
  <2>1. Len(new[j]) = Len(chains[j]) + d /\ d \in Int
    BY <1>6
  <2>2. chains \in ChainsOf(capacity) /\ new \in ChainsOf(capacity)
    BY <1>1
  <2>3. \A i \in 0 .. capacity - 1 : i # j => new[i] = chains[i]
    BY <1>4
  <2> HIDE DEF d, j
  <2>4. Len(Iterated(new)[capacity]) = Len(Iterated(chains)[capacity]) + d
    BY <1>2, <2>1, <2>2, <2>3, LengthsAdd
  <2> QED
    BY <2>4 DEF d
<1> QED
  BY <1>11, <1>12, <1>13 DEF new, first

\* Filling an empty table with items of different keys.
LEMMA FilledTidy ==
  ASSUME NEW capacity \in Nat \ {0}, hash \in [TableKeys -> HashValues],
         NEW items \in Seq(Node), DistinctKeys(items)
  PROVE  LET table == Filled(items, capacity)[Len(items)]
         IN  /\ Tidy(table, capacity)
             /\ \A node : Has(table, node) <=> \E m \in DOMAIN items : items[m] = node
             /\ Len(Iterated(table)[capacity]) = Len(items)
<1> DEFINE F == Filled(items, capacity)
           N == Len(items)
           Good(n) == /\ Tidy(F[n], capacity)
                      /\ \A node : Has(F[n], node) <=> \E m \in 1 .. n : items[m] = node
                      /\ Len(Iterated(F[n])[capacity]) = n
           S == {n \in 0 .. N : Good(n)}
<1>1. N \in Nat /\ DOMAIN items = 1 .. N
  BY LenProperties
<1>2. /\ F \in [0 .. N -> ChainsOf(capacity)]
      /\ F[0] = NoChains(capacity)
      /\ \A n \in 1 .. N : F[n] = Prepend(F[n - 1], items[n].key, items[n].value)
  BY FilledIs
<1> HIDE DEF F, N
<1>3. 0 \in S
  <2>1. F[0] \in ChainsOf(capacity) /\ F[0] = [i \in 0 .. capacity - 1 |-> <<>>]
    BY <1>1, <1>2 DEF NoChains
  <2>2. \A i \in 0 .. capacity - 1 : DOMAIN F[0][i] = {}
    BY <2>1
  <2>3. Tidy(F[0], capacity)
    BY <2>1, <2>2 DEF Tidy
  <2>4. \A node : ~ Has(F[0], node)
    BY <2>1, <2>2 DEF Has
  <2>5. Len(Iterated(F[0])[capacity]) = 0
    <3> DEFINE all == Iterated(F[0])[capacity]
    <3>0. all \in Seq(Node) /\ \A node : Has(F[0], node) <=> \E m \in DOMAIN all : all[m] = node
      BY <2>3, ItemsAre
    <3> HIDE DEF all
    <3>1. all \in Seq(Node) /\ DOMAIN all = {}
      BY <2>4, <3>0
    <3>2. Len(all) \in Nat /\ DOMAIN all = 1 .. Len(all)
      BY <3>1, LenProperties
    <3>3. Len(all) = 0
      BY <3>1, <3>2
    <3> QED
      BY <3>3 DEF all
  <2> QED
    BY <1>1, <2>3, <2>4, <2>5
<1>4. ASSUME NEW n \in 1 .. N, n - 1 \in S PROVE n \in S
  <2>1. Good(n - 1) /\ n \in 0 .. N /\ n \in DOMAIN items
    BY <1>1, <1>4
  <2>2. items[n] \in Node
    BY <1>1, ElementOfSeq DEF N
  <2>3. items[n].key \in TableKeys /\ items[n].value \in TableValues
    BY <2>2 DEF Node
  <2>4. items[n] = [key |-> items[n].key, value |-> items[n].value]
    BY <2>2 DEF Node
  <2>5. Lacks(F[n - 1], items[n].key)
    <3> SUFFICES ASSUME NEW node, Has(F[n - 1], node), node.key = items[n].key PROVE FALSE
      BY DEF Lacks
    <3>1. PICK m \in 1 .. n - 1 : items[m] = node
      BY <2>1
    <3>2. m \in DOMAIN items /\ m # n
      BY <1>1
    <3> QED
      BY <2>1, <3>1, <3>2 DEF DistinctKeys
  <2>6. F[n] = Prepend(F[n - 1], items[n].key, items[n].value)
    BY <1>2
  <2> DEFINE before == F[n - 1]
             k == items[n].key
             v == items[n].value
  <2>7. /\ Tidy(before, capacity) /\ Lacks(before, k) /\ k \in TableKeys /\ v \in TableValues
        /\ Len(Iterated(before)[capacity]) = n - 1
        /\ \A node : Has(before, node) <=> \E m \in 1 .. n - 1 : items[m] = node
    BY <2>1, <2>3, <2>5
  <2>8. F[n] = Prepend(before, k, v) /\ items[n] = [key |-> k, value |-> v]
    BY <2>4, <2>6
  <2> HIDE DEF before, k, v
  <2>9. /\ Tidy(F[n], capacity)
        /\ \A node : Has(F[n], node) <=> Has(before, node) \/ node = items[n]
        /\ Len(Iterated(F[n])[capacity]) = Len(Iterated(before)[capacity]) + 1
    BY <2>7, <2>8, PrependTidy
  <2>10. \A node : Has(F[n], node) <=> \E m \in 1 .. n : items[m] = node
    <3>1. \A m \in 1 .. n : m \in 1 .. n - 1 \/ m = n
      OBVIOUS
    <3>2. n \in 1 .. n /\ \A m \in 1 .. n - 1 : m \in 1 .. n
      OBVIOUS
    <3> QED
      BY <2>7, <2>9, <3>1, <3>2
  <2>11. Len(Iterated(F[n])[capacity]) = n
    BY <2>7, <2>9
  <2> QED
    BY <2>1, <2>9, <2>10, <2>11
<1>5. \A n \in 0 .. N : n \in S
  <2> HIDE DEF S
  <2> QED
    BY <1>1, <1>3, <1>4, UpTo
<1>6. Good(N)
  <2>1. N \in S
    <3> HIDE DEF S
    <3> QED
      BY <1>1, <1>5
  <2> HIDE DEF Good
  <2> QED
    BY <2>1
<1> QED
  BY <1>1, <1>6 DEF F, N

\* Replacing one chain by another that belongs there.
LEMMA ReplaceTidy ==
  ASSUME NEW capacity \in Nat \ {0}, NEW chains, Tidy(chains, capacity),
         NEW j \in 0 .. capacity - 1, NEW chain \in Seq(Node),
         \A n \in DOMAIN chain : BucketIndex(chain[n].key, capacity) = j,
         \A m, n \in DOMAIN chain : chain[m].key = chain[n].key => m = n
  PROVE  /\ Tidy([chains EXCEPT ![j] = chain], capacity)
         /\ \A node : Has([chains EXCEPT ![j] = chain], node) <=>
               \/ \E n \in DOMAIN chain : chain[n] = node
               \/ Has(chains, node) /\ BucketIndex(node.key, capacity) # j
<1> DEFINE new == [chains EXCEPT ![j] = chain]
<1>1. chains \in ChainsOf(capacity) /\ DOMAIN chains = 0 .. capacity - 1
  BY DEF Tidy, ChainsOf
<1>2. new \in ChainsOf(capacity) /\ DOMAIN new = 0 .. capacity - 1
  BY <1>1 DEF ChainsOf
<1>3. new[j] = chain /\ \A i \in 0 .. capacity - 1 : i # j => new[i] = chains[i]
  BY <1>1
<1> HIDE DEF new
<1>4. Tidy(new, capacity)
  <2>1. ASSUME NEW i \in 0 .. capacity - 1, NEW n \in DOMAIN new[i]
        PROVE  BucketIndex(new[i][n].key, capacity) = i
    BY <1>3 DEF Tidy
  <2>2. ASSUME NEW i \in 0 .. capacity - 1, NEW m \in DOMAIN new[i], NEW n \in DOMAIN new[i],
               new[i][m].key = new[i][n].key
        PROVE  m = n
    <3>1. CASE i # j
      BY <1>3, <2>2, <3>1 DEF Tidy
    <3>2. CASE i = j
      BY <1>3, <2>2, <3>2
    <3> QED
      BY <3>1, <3>2
  <2> QED
    BY <1>2, <2>1, <2>2 DEF Tidy
<1>5. ASSUME NEW node, Has(new, node)
      PROVE  \/ \E n \in DOMAIN chain : chain[n] = node
             \/ Has(chains, node) /\ BucketIndex(node.key, capacity) # j
  <2>1. PICK i \in 0 .. capacity - 1 : \E n \in DOMAIN new[i] : new[i][n] = node
    BY <1>2, <1>5 DEF Has
  <2>2. CASE i = j
    BY <1>3, <2>1, <2>2
  <2>3. CASE i # j
    BY <1>1, <1>3, <2>1, <2>3 DEF Has, Tidy
  <2> QED
    BY <2>2, <2>3
<1>6. ASSUME NEW n \in DOMAIN chain PROVE Has(new, chain[n])
  BY <1>2, <1>3 DEF Has
<1>7. ASSUME NEW node, Has(chains, node), BucketIndex(node.key, capacity) # j
      PROVE  Has(new, node)
  <2>1. PICK i \in 0 .. capacity - 1 : \E n \in DOMAIN chains[i] : chains[i][n] = node
    BY <1>1, <1>7 DEF Has
  <2>2. i # j
    BY <1>7, <2>1 DEF Tidy
  <2> QED
    BY <1>2, <1>3, <2>1, <2>2 DEF Has
<1>8. \A node : Has(new, node) <=>
         \/ \E n \in DOMAIN chain : chain[n] = node
         \/ Has(chains, node) /\ BucketIndex(node.key, capacity) # j
  BY <1>5, <1>6, <1>7
<1> QED
  BY <1>4, <1>8 DEF new

LEMMA RemoveAtIs ==
  ASSUME NEW chain \in Seq(Node), NEW p \in 1 .. Len(chain)
  PROVE  /\ RemoveAt(chain, p) \in Seq(Node)
         /\ Len(RemoveAt(chain, p)) = Len(chain) - 1
         /\ \A n \in 1 .. Len(chain) - 1 :
               RemoveAt(chain, p)[n] = IF n < p THEN chain[n] ELSE chain[n + 1]
<1> DEFINE before == SubSeq(chain, 1, p - 1)
           after == SubSeq(chain, p + 1, Len(chain))
<1>1. Len(chain) \in Nat /\ p \in Int /\ p - 1 \in Int /\ p + 1 \in Int /\ 1 \in Int
  BY LenProperties
<1>2. /\ \A i \in 1 .. p - 1 : chain[i] \in Node
      /\ \A i \in p + 1 .. Len(chain) : chain[i] \in Node
  <2>1. \A i \in 1 .. Len(chain) : chain[i] \in Node
    BY ElementOfSeq
  <2>2. /\ \A i \in 1 .. p - 1 : i \in 1 .. Len(chain)
        /\ \A i \in p + 1 .. Len(chain) : i \in 1 .. Len(chain)
    BY <1>1
  <2> QED
    BY <2>1, <2>2
<1>3. /\ before \in Seq(Node)
      /\ Len(before) = p - 1
      /\ \A i \in 1 .. p - 1 : before[i] = chain[i]
  <2>1. /\ before \in Seq(Node)
        /\ Len(before) = IF 1 <= p - 1 THEN p - 1 - 1 + 1 ELSE 0
        /\ \A i \in 1 .. p - 1 - 1 + 1 : before[i] = chain[1 + i - 1]
    BY <1>1, <1>2, SubSeqProperties
  <2> HIDE DEF before
  <2>2. Len(before) = p - 1
    BY <1>1, <2>1
  <2>3. \A i \in 1 .. p - 1 : i \in 1 .. p - 1 - 1 + 1 /\ 1 + i - 1 = i
    BY <1>1
  <2> QED
    BY <2>1, <2>2, <2>3
<1>4. /\ after \in Seq(Node)
      /\ Len(after) = Len(chain) - p
      /\ \A i \in 1 .. Len(chain) - p : after[i] = chain[p + i]
  <2>1. /\ after \in Seq(Node)
        /\ Len(after) = IF p + 1 <= Len(chain) THEN Len(chain) - (p + 1) + 1 ELSE 0
        /\ \A i \in 1 .. Len(chain) - (p + 1) + 1 : after[i] = chain[p + 1 + i - 1]
    BY <1>1, <1>2, SubSeqProperties
  <2> HIDE DEF after
  <2>2. Len(after) = Len(chain) - p
    BY <1>1, <2>1
  <2>3. \A i \in 1 .. Len(chain) - p : i \in 1 .. Len(chain) - (p + 1) + 1 /\ p + 1 + i - 1 = p + i
    BY <1>1
  <2> QED
    BY <2>1, <2>2, <2>3
<1>5. RemoveAt(chain, p) = before \o after
  BY DEF RemoveAt
<1> HIDE DEF before, after
<1>6. /\ before \o after \in Seq(Node)
      /\ Len(before \o after) = Len(before) + Len(after)
      /\ \A n \in 1 .. Len(before) + Len(after) :
            (before \o after)[n] = IF n <= Len(before) THEN before[n] ELSE after[n - Len(before)]
  BY <1>3, <1>4, ConcatProperties
<1>7. Len(before) + Len(after) = Len(chain) - 1
  BY <1>1, <1>3, <1>4
<1>8. ASSUME NEW n \in 1 .. Len(chain) - 1
      PROVE  (before \o after)[n] = IF n < p THEN chain[n] ELSE chain[n + 1]
  <2>1. (before \o after)[n] = IF n <= p - 1 THEN before[n] ELSE after[n - (p - 1)]
    BY <1>3, <1>6, <1>7
  <2>2. CASE n < p
    <3>1. n <= p - 1 /\ n \in 1 .. p - 1
      BY <1>1, <2>2
    <3> QED
      BY <1>3, <2>1, <2>2, <3>1
  <2>3. CASE ~ (n < p)
    <3>1. /\ ~ (n <= p - 1) /\ n - (p - 1) \in 1 .. Len(chain) - p
          /\ p + (n - (p - 1)) = n + 1
      BY <1>1, <2>3
    <3>2. after[n - (p - 1)] = chain[p + (n - (p - 1))]
      BY <1>4, <3>1
    <3> QED
      BY <2>1, <2>3, <3>1, <3>2
  <2> QED
    BY <2>2, <2>3
<1> QED
  BY <1>5, <1>6, <1>7, <1>8

------------------------------------------------------------------------------
(***************************************************************************)
(* The inductive invariant.                                                *)
(***************************************************************************)

\* The table is tidy, size counts its items, and doubling the capacity is
\* always enough for one more.
TableInv ==
    /\ hash \in [TableKeys -> HashValues]
    /\ Capacity \in Nat /\ InitialCapacity <= Capacity
    /\ Tidy(buckets, Capacity)
    /\ size = Len(Items)
    /\ size * LoadDen <= LoadNum * Capacity

\* get finds the value of every node, and no value of a key that has none.
FindRight ==
    /\ \A node : Has(buckets, node) => node \in Node /\ Find(node.key) = node.value
    /\ \A k \in TableKeys : Holds(k) <=> ~ Lacks(buckets, k)
    /\ \A k \in TableKeys : ~ Holds(k) => Find(k) = Absent

\* Where an operation on k looks.
Place(k) == BucketIndex(k, Capacity)

LEMMA CapacityPositive ==
  ASSUME TableInv
  PROVE  Capacity \in Nat \ {0} /\ DOMAIN buckets = 0 .. Capacity - 1
BY TableAssumption DEF TableInv, Tidy, ChainsOf

\* The chain of a key and the position of the key in it.
LEMMA PlaceOf ==
  ASSUME TableInv, NEW k \in TableKeys
  PROVE  /\ Place(k) \in 0 .. Capacity - 1
         /\ Chain(k) = buckets[Place(k)]
         /\ Chain(k) \in Seq(Node)
         /\ DOMAIN Chain(k) = 1 .. Len(Chain(k)) /\ Len(Chain(k)) \in Nat
         /\ \A n \in DOMAIN Chain(k) : Has(buckets, Chain(k)[n]) /\ Chain(k)[n] \in Node
         /\ \A m, n \in DOMAIN Chain(k) : Chain(k)[m].key = Chain(k)[n].key => m = n
         /\ \A n \in DOMAIN Chain(k) : Place(Chain(k)[n].key) = Place(k)
         /\ Holds(k) => FirstPosition(k) \in DOMAIN Chain(k) /\ Chain(k)[FirstPosition(k)].key = k
<1>1. Capacity \in Nat \ {0} /\ DOMAIN buckets = 0 .. Capacity - 1
  BY CapacityPositive
<1>2. Place(k) \in 0 .. Capacity - 1
  BY <1>1, IndexInRange DEF Place, TableInv
<1>3. Chain(k) = buckets[Place(k)]
  BY DEF Chain, Place
<1>4. Chain(k) \in Seq(Node)
  BY <1>2, <1>3 DEF TableInv, Tidy, ChainsOf
<1>5. DOMAIN Chain(k) = 1 .. Len(Chain(k)) /\ Len(Chain(k)) \in Nat
  BY <1>4, LenProperties
<1>6. \A n \in DOMAIN Chain(k) : Has(buckets, Chain(k)[n]) /\ Chain(k)[n] \in Node
  BY <1>1, <1>2, <1>3, <1>4, <1>5, ElementOfSeq DEF Has
<1>7. /\ \A m, n \in DOMAIN Chain(k) : Chain(k)[m].key = Chain(k)[n].key => m = n
      /\ \A n \in DOMAIN Chain(k) : Place(Chain(k)[n].key) = Place(k)
  BY <1>2, <1>3 DEF TableInv, Tidy, Place
<1>8. ASSUME Holds(k)
      PROVE  FirstPosition(k) \in DOMAIN Chain(k) /\ Chain(k)[FirstPosition(k)].key = k
  <2>1. PICK n \in Positions(k) : TRUE
    BY <1>8 DEF Holds
  <2>2. n \in Int /\ \A m \in Positions(k) : m = n
    BY <1>5, <1>7, <2>1 DEF Positions
  <2>3. \A m \in Positions(k) : n <= m
    BY <2>2
  <2>4. FirstPosition(k) \in Positions(k)
    BY <2>1, <2>3 DEF FirstPosition
  <2> QED
    BY <2>4 DEF Positions
<1> QED
  BY <1>2, <1>3, <1>4, <1>5, <1>6, <1>7, <1>8

LEMMA FindIsRight == TableInv => FindRight
<1> SUFFICES ASSUME TableInv PROVE FindRight
  OBVIOUS
<1>1. ASSUME NEW node, Has(buckets, node)
      PROVE  node \in Node /\ Holds(node.key) /\ Find(node.key) = node.value
  <2>1. PICK i \in 0 .. Capacity - 1 : \E n \in DOMAIN buckets[i] : buckets[i][n] = node
    BY <1>1, CapacityPositive DEF Has
  <2>2. PICK n \in DOMAIN buckets[i] : buckets[i][n] = node
    BY <2>1
  <2>3. buckets[i] \in Seq(Node) /\ BucketIndex(node.key, Capacity) = i
    BY <2>1, <2>2 DEF TableInv, Tidy, ChainsOf
  <2>4. node \in Node /\ node.key \in TableKeys
    <3>1. DOMAIN buckets[i] = 1 .. Len(buckets[i])
      BY <2>3, LenProperties
    <3>2. node \in Node
      BY <2>2, <2>3, <3>1, ElementOfSeq
    <3> QED
      BY <3>2 DEF Node
  <2>5. Chain(node.key) = buckets[i]
    BY <2>3 DEF Chain
  <2>6. n \in Positions(node.key)
    BY <2>2, <2>5 DEF Positions
  <2>7. Holds(node.key)
    BY <2>6 DEF Holds
  <2>8. FirstPosition(node.key) = n
    BY <2>2, <2>4, <2>5, <2>7, PlaceOf
  <2> QED
    BY <2>2, <2>4, <2>5, <2>7, <2>8 DEF Find
<1>2. ASSUME NEW k \in TableKeys, Holds(k)
      PROVE  ~ Lacks(buckets, k)
  BY <1>2, PlaceOf DEF Lacks
<1>3. ASSUME NEW k \in TableKeys, ~ Lacks(buckets, k)
      PROVE  Holds(k)
  BY <1>1, <1>3 DEF Lacks
<1>4. ASSUME NEW k \in TableKeys, ~ Holds(k)
      PROVE  Find(k) = Absent
  BY <1>4 DEF Find
<1> QED
  BY <1>1, <1>2, <1>3, <1>4 DEF FindRight

\* What a step has to leave for the invariant to hold after it.
LEMMA Established ==
  ASSUME NEW capacity \in Nat \ {0}, InitialCapacity <= capacity,
         hash \in [TableKeys -> HashValues], UNCHANGED hash,
         Tidy(buckets', capacity),
         size' = Len(Iterated(buckets')[capacity]),
         size' * LoadDen <= LoadNum * capacity
  PROVE  TableInv'
<1>1. Capacity' = capacity
  <2>1. DOMAIN buckets' = 0 .. capacity - 1
    BY DEF Tidy, ChainsOf
  <2>2. Cardinality(DOMAIN buckets') = capacity
    BY <2>1, CapacityOf
  <2> QED
    BY <2>2 DEF Capacity
<1>2. Tidy(buckets, Capacity)'
  BY <1>1 DEF Tidy, ChainsOf, BucketIndex
<1>3. Items' = Iterated(buckets')[capacity]
  BY <1>1 DEF Items, Iterated
<1> QED
  BY <1>1, <1>2, <1>3 DEF TableInv

------------------------------------------------------------------------------
(***************************************************************************)
(* The steps: what each makes of the invariant and of the nodes.           *)
(***************************************************************************)

\* A doubled table has room for one node more.
LEMMA RoomAfterResize ==
  ASSUME NEW capacity \in Nat, InitialCapacity <= capacity, NEW n \in Nat,
         n * LoadDen <= LoadNum * capacity
  PROVE  (n + 1) * LoadDen <= LoadNum * (2 * capacity)
<1> /\ InitialCapacity \in Nat /\ LoadNum \in Nat /\ LoadDen \in Nat
    /\ LoadDen <= LoadNum * InitialCapacity
  BY TableAssumption
<1>1. LoadNum * InitialCapacity <= LoadNum * capacity
  OBVIOUS
<1>2. (n + 1) * LoadDen = n * LoadDen + LoadDen
  OBVIOUS
<1>3. LoadNum * (2 * capacity) = LoadNum * capacity + LoadNum * capacity
  OBVIOUS
<1> QED
  BY <1>1, <1>2, <1>3

LEMMA InsertStep ==
  ASSUME TableInv, NEW k \in TableKeys, NEW v \in TableValues, Insert(k, v)
  PROVE  /\ TableInv'
         /\ Lacks(buckets, k)
         /\ \A node : Has(buckets', node) <=>
               Has(buckets, node) \/ node = [key |-> k, value |-> v]
<1>1. Lacks(buckets, k)
  BY FindIsRight DEF FindRight, Insert
<1>2. /\ Capacity \in Nat \ {0} /\ InitialCapacity <= Capacity
      /\ hash \in [TableKeys -> HashValues]
      /\ LoadNum \in Nat /\ LoadDen \in Nat
  BY CapacityPositive, TableAssumption DEF TableInv
<1>3. /\ Tidy(buckets, Capacity) /\ size = Len(Items)
      /\ Items \in Seq(Node) /\ DistinctKeys(Items) /\ size \in Nat
      /\ \A node : Has(buckets, node) <=> \E m \in DOMAIN Items : Items[m] = node
  <2>1. Tidy(buckets, Capacity) /\ size = Len(Items)
    BY DEF TableInv
  <2>2. /\ Items \in Seq(Node) /\ DistinctKeys(Items)
        /\ \A node : Has(buckets, node) <=> \E m \in DOMAIN Items : Items[m] = node
    BY <1>2, <2>1, ItemsAre DEF Items
  <2> QED
    BY <2>1, <2>2, LenProperties
<1> DEFINE chains == IF Crowded THEN Resized ELSE buckets
           capacity == IF Crowded THEN 2 * Capacity ELSE Capacity
<1>4. /\ capacity \in Nat \ {0} /\ InitialCapacity <= capacity
      /\ Tidy(chains, capacity)
      /\ \A node : Has(chains, node) <=> Has(buckets, node)
      /\ Len(Iterated(chains)[capacity]) = size
      /\ (size + 1) * LoadDen <= LoadNum * capacity
  <2>1. CASE Crowded
    <3>1. 2 * Capacity \in Nat \ {0} /\ InitialCapacity <= 2 * Capacity
      BY <1>2, TableAssumption
    <3>2. /\ Tidy(Resized, 2 * Capacity)
          /\ \A node : Has(Resized, node) <=> \E m \in DOMAIN Items : Items[m] = node
          /\ Len(Iterated(Resized)[2 * Capacity]) = Len(Items)
      BY <1>2, <1>3, <3>1, FilledTidy DEF Resized
    <3>3. (size + 1) * LoadDen <= LoadNum * (2 * Capacity)
      BY <1>2, <1>3, RoomAfterResize DEF TableInv
    <3> QED
      BY <1>3, <2>1, <3>1, <3>2, <3>3
  <2>2. CASE ~ Crowded
    <3>1. (size + 1) * LoadDen <= LoadNum * Capacity
      BY <1>2, <1>3, <2>2 DEF Crowded
    <3> QED
      BY <1>2, <1>3, <2>2, <3>1 DEF Items
  <2> QED
    BY <2>1, <2>2
<1>5. /\ buckets' = Prepend(chains, k, v) /\ size' = size + 1 /\ hash' = hash
  BY DEF Insert
<1> HIDE DEF chains, capacity
<1>6. Lacks(chains, k)
  BY <1>1, <1>4 DEF Lacks
<1>7. /\ Tidy(buckets', capacity)
      /\ \A node : Has(buckets', node) <=>
            Has(chains, node) \/ node = [key |-> k, value |-> v]
      /\ Len(Iterated(buckets')[capacity]) = Len(Iterated(chains)[capacity]) + 1
  BY <1>2, <1>4, <1>5, <1>6, PrependTidy
<1>8. TableInv'
  <2>1. /\ size' = Len(Iterated(buckets')[capacity])
        /\ size' * LoadDen <= LoadNum * capacity
    BY <1>4, <1>5, <1>7
  <2> QED
    BY <1>2, <1>4, <1>5, <1>7, <2>1, Established
<1> QED
  BY <1>1, <1>4, <1>7, <1>8

LEMMA OverwriteStep ==
  ASSUME TableInv, NEW k \in TableKeys, NEW v \in TableValues, Overwrite(k, v)
  PROVE  /\ TableInv'
         /\ \A node : Has(buckets', node) <=>
               \/ Has(buckets, node) /\ node.key # k
               \/ node = [key |-> k, value |-> v]
<1> DEFINE j == Place(k)
           chain == Chain(k)
           p == FirstPosition(k)
           new == [chain EXCEPT ![p] = [key |-> k, value |-> v]]
<1>1. /\ j \in 0 .. Capacity - 1 /\ chain = buckets[j] /\ chain \in Seq(Node)
      /\ DOMAIN chain = 1 .. Len(chain) /\ Len(chain) \in Nat
      /\ \A n \in DOMAIN chain : Has(buckets, chain[n]) /\ chain[n] \in Node
      /\ \A m, n \in DOMAIN chain : chain[m].key = chain[n].key => m = n
      /\ \A n \in DOMAIN chain : Place(chain[n].key) = j
      /\ p \in DOMAIN chain /\ chain[p].key = k
  BY PlaceOf DEF Overwrite
<1>2. /\ Capacity \in Nat \ {0} /\ InitialCapacity <= Capacity
      /\ hash \in [TableKeys -> HashValues] /\ Tidy(buckets, Capacity)
      /\ DOMAIN buckets = 0 .. Capacity - 1
  BY CapacityPositive DEF TableInv
<1>3. buckets' = [buckets EXCEPT ![j] = new] /\ size' = size /\ hash' = hash
  <2>1. [chain[p] EXCEPT !.value = v] = [key |-> k, value |-> v]
    BY <1>1 DEF Node
  <2>2. buckets' = [buckets EXCEPT ![j] = [chain EXCEPT ![p] = [chain[p] EXCEPT !.value = v]]]
    BY <1>1 DEF Overwrite, Place
  <2> QED
    BY <2>1, <2>2 DEF Overwrite
<1>4. [key |-> k, value |-> v] \in Node
  BY DEF Node
<1>5. /\ new \in Seq(Node) /\ Len(new) = Len(chain) /\ DOMAIN new = DOMAIN chain
      /\ new[p] = [key |-> k, value |-> v]
      /\ \A n \in DOMAIN chain : n # p => new[n] = chain[n]
  <2>1. new \in Seq(Node) /\ Len(new) = Len(chain)
    BY <1>1, <1>4, ExceptSeq
  <2> QED
    BY <1>1, <2>1
<1>6. \A n \in DOMAIN chain : new[n].key = chain[n].key
  BY <1>1, <1>5
<1>7. ASSUME NEW node, Has(buckets, node), Place(node.key) = j
      PROVE  \E n \in DOMAIN chain : chain[n] = node
  <2>1. PICK i \in 0 .. Capacity - 1 : \E n \in DOMAIN buckets[i] : buckets[i][n] = node
    BY <1>2, <1>7 DEF Has
  <2>2. PICK n \in DOMAIN buckets[i] : buckets[i][n] = node
    BY <2>1
  <2>3. i = j
    BY <1>2, <1>7, <2>2 DEF Tidy, Place
  <2> QED
    BY <1>1, <2>2, <2>3
<1> HIDE DEF j, chain, p, new
<1>8. /\ \A n \in DOMAIN new : BucketIndex(new[n].key, Capacity) = j
      /\ \A m, n \in DOMAIN new : new[m].key = new[n].key => m = n
  BY <1>1, <1>5, <1>6 DEF Place
<1>9. /\ Tidy(buckets', Capacity)
      /\ \A node : Has(buckets', node) <=>
            \/ \E n \in DOMAIN new : new[n] = node
            \/ Has(buckets, node) /\ Place(node.key) # j
  <2>1. /\ j \in 0 .. Capacity - 1 /\ new \in Seq(Node)
        /\ Capacity \in Nat \ {0} /\ Tidy(buckets, Capacity)
    BY <1>1, <1>2, <1>5
  <2>2. /\ Tidy([buckets EXCEPT ![j] = new], Capacity)
        /\ \A node : Has([buckets EXCEPT ![j] = new], node) <=>
              \/ \E n \in DOMAIN new : new[n] = node
              \/ Has(buckets, node) /\ BucketIndex(node.key, Capacity) # j
    BY <1>8, <2>1, ReplaceTidy
  <2> QED
    BY <1>3, <2>2 DEF Place
<1>10. Len(Iterated(buckets')[Capacity]) = Len(Iterated(buckets)[Capacity])
  <2> DEFINE d == 0
  <2>1. /\ buckets \in ChainsOf(Capacity) /\ buckets' \in ChainsOf(Capacity)
    BY <1>2, <1>9 DEF Tidy
  <2>2. \A i \in 0 .. Capacity - 1 : i # j => buckets'[i] = buckets[i]
    BY <1>1, <1>2, <1>3
  <2>3. Len(buckets'[j]) = Len(buckets[j]) + d /\ d \in Int
    BY <1>1, <1>2, <1>3, <1>5
  <2>4. Len(Iterated(buckets)[Capacity]) \in Nat
    BY <1>2, ItemsAre, LenProperties
  <2>5. j \in 0 .. Capacity - 1 /\ Capacity \in Nat \ {0}
    BY <1>1, <1>2
  <2> HIDE DEF d
  <2>6. Len(Iterated(buckets')[Capacity]) = Len(Iterated(buckets)[Capacity]) + d
    BY <2>1, <2>2, <2>3, <2>5, LengthsAdd
  <2> QED
    BY <2>4, <2>6 DEF d
<1>11. TableInv'
  <2>1. size' = Len(Iterated(buckets')[Capacity]) /\ size' * LoadDen <= LoadNum * Capacity
    BY <1>3, <1>10 DEF TableInv, Items
  <2> QED
    BY <1>2, <1>3, <1>9, <2>1, Established
<1>12. \A node : Has(buckets', node) <=>
          \/ Has(buckets, node) /\ node.key # k
          \/ node = [key |-> k, value |-> v]
  <2>1. ASSUME NEW n \in DOMAIN new, n # p
        PROVE  Has(buckets, new[n]) /\ new[n].key # k
    BY <1>1, <1>5, <2>1
  <2>2. ASSUME NEW node, Has(buckets, node), Place(node.key) = j, node.key # k
        PROVE  \E n \in DOMAIN new : new[n] = node
    <3>1. PICK n \in DOMAIN chain : chain[n] = node
      BY <1>7, <2>2
    <3>2. n # p
      BY <1>1, <2>2, <3>1
    <3> QED
      BY <1>5, <3>1, <3>2
  <2>3. \A node : Place(node.key) # j => node.key # k
    BY DEF j
  <2> QED
    BY <1>1, <1>5, <1>9, <2>1, <2>2, <2>3
<1> QED
  BY <1>11, <1>12

LEMMA DeleteStep ==
  ASSUME TableInv, NEW k \in TableKeys, Delete(k)
  PROVE  /\ TableInv'
         /\ \A node : Has(buckets', node) <=> Has(buckets, node) /\ node.key # k
<1> DEFINE j == Place(k)
           chain == Chain(k)
           p == FirstPosition(k)
           new == RemoveAt(chain, p)
<1>1. /\ j \in 0 .. Capacity - 1 /\ chain = buckets[j] /\ chain \in Seq(Node)
      /\ DOMAIN chain = 1 .. Len(chain) /\ Len(chain) \in Nat
      /\ \A n \in DOMAIN chain : Has(buckets, chain[n]) /\ chain[n] \in Node
      /\ \A m, n \in DOMAIN chain : chain[m].key = chain[n].key => m = n
      /\ \A n \in DOMAIN chain : Place(chain[n].key) = j
      /\ p \in DOMAIN chain /\ chain[p].key = k
  BY PlaceOf DEF Delete
<1>2. /\ Capacity \in Nat \ {0} /\ InitialCapacity <= Capacity
      /\ hash \in [TableKeys -> HashValues] /\ Tidy(buckets, Capacity)
      /\ DOMAIN buckets = 0 .. Capacity - 1
  BY CapacityPositive DEF TableInv
<1>3. buckets' = [buckets EXCEPT ![j] = new] /\ size' = size - 1 /\ hash' = hash
  BY <1>1 DEF Delete, Place
<1>4. /\ new \in Seq(Node) /\ Len(new) = Len(chain) - 1
      /\ \A n \in 1 .. Len(chain) - 1 : new[n] = IF n < p THEN chain[n] ELSE chain[n + 1]
  BY <1>1, RemoveAtIs
<1>5. ASSUME NEW node, Has(buckets, node), Place(node.key) = j
      PROVE  \E n \in DOMAIN chain : chain[n] = node
  <2>1. PICK i \in 0 .. Capacity - 1 : \E n \in DOMAIN buckets[i] : buckets[i][n] = node
    BY <1>2, <1>5 DEF Has
  <2>2. PICK n \in DOMAIN buckets[i] : buckets[i][n] = node
    BY <2>1
  <2>3. i = j
    BY <1>2, <1>5, <2>2 DEF Tidy, Place
  <2> QED
    BY <1>1, <2>2, <2>3
<1> HIDE DEF j, chain, p, new
<1>6. DOMAIN new = 1 .. Len(chain) - 1
  BY <1>4, LenProperties
<1> DEFINE Origin(n) == IF n < p THEN n ELSE n + 1
<1>7. ASSUME NEW n \in DOMAIN new
      PROVE  Origin(n) \in DOMAIN chain /\ Origin(n) # p /\ new[n] = chain[Origin(n)]
  <2>1. n \in Int /\ p \in Int
    BY <1>1, <1>6
  <2> QED
    BY <1>1, <1>4, <1>6, <2>1
<1>8. ASSUME NEW m \in DOMAIN chain, m # p
      PROVE  \E n \in DOMAIN new : new[n] = chain[m]
  <2>1. m \in Int /\ p \in Int /\ 1 <= p /\ p <= Len(chain) /\ 1 <= m /\ m <= Len(chain)
    BY <1>1
  <2>2. CASE m < p
    <3>1. m \in 1 .. Len(chain) - 1
      BY <1>1, <2>1, <2>2
    <3> QED
      BY <1>4, <1>6, <2>2, <3>1
  <2>3. CASE m > p
    <3>1. m - 1 \in 1 .. Len(chain) - 1 /\ ~ (m - 1 < p) /\ m - 1 + 1 = m
      BY <1>1, <2>1, <2>3
    <3>2. new[m - 1] = chain[m - 1 + 1]
      BY <1>4, <3>1
    <3> QED
      BY <1>6, <3>1, <3>2
  <2> QED
    BY <1>8, <2>1, <2>2, <2>3
<1>9. /\ \A n \in DOMAIN new : BucketIndex(new[n].key, Capacity) = j
      /\ \A m, n \in DOMAIN new : new[m].key = new[n].key => m = n
  <2>1. ASSUME NEW n \in DOMAIN new PROVE BucketIndex(new[n].key, Capacity) = j
    BY <1>1, <1>7 DEF Place
  <2>2. ASSUME NEW m \in DOMAIN new, NEW n \in DOMAIN new, new[m].key = new[n].key
        PROVE  m = n
    <3>1. Origin(m) = Origin(n)
      <4> HIDE DEF Origin
      <4> QED
        BY <1>1, <1>7, <2>2
    <3>2. m \in Int /\ n \in Int /\ p \in Int
      BY <1>1, <1>6
    <3> QED
      BY <3>1, <3>2
  <2> QED
    BY <2>1, <2>2
<1>10. /\ Tidy(buckets', Capacity)
       /\ \A node : Has(buckets', node) <=>
             \/ \E n \in DOMAIN new : new[n] = node
             \/ Has(buckets, node) /\ Place(node.key) # j
  <2>1. /\ j \in 0 .. Capacity - 1 /\ new \in Seq(Node)
        /\ Capacity \in Nat \ {0} /\ Tidy(buckets, Capacity)
    BY <1>1, <1>2, <1>4
  <2>2. /\ Tidy([buckets EXCEPT ![j] = new], Capacity)
        /\ \A node : Has([buckets EXCEPT ![j] = new], node) <=>
              \/ \E n \in DOMAIN new : new[n] = node
              \/ Has(buckets, node) /\ BucketIndex(node.key, Capacity) # j
    BY <1>9, <2>1, ReplaceTidy
  <2> QED
    BY <1>3, <2>2 DEF Place
<1>11. Len(Iterated(buckets')[Capacity]) = size - 1
  <2> DEFINE d == -1
  <2>1. /\ buckets \in ChainsOf(Capacity) /\ buckets' \in ChainsOf(Capacity)
    BY <1>2, <1>10 DEF Tidy
  <2>2. \A i \in 0 .. Capacity - 1 : i # j => buckets'[i] = buckets[i]
    BY <1>1, <1>2, <1>3
  <2>3. Len(buckets'[j]) = Len(buckets[j]) + d /\ d \in Int
    <3>1. buckets'[j] = new /\ buckets[j] = chain
      BY <1>1, <1>2, <1>3
    <3>2. Len(chain) - 1 = Len(chain) + d /\ d \in Int
      BY <1>1
    <3> QED
      BY <1>4, <3>1, <3>2
  <2>4. Len(Iterated(buckets)[Capacity]) \in Nat
    BY <1>2, ItemsAre, LenProperties
  <2>5. j \in 0 .. Capacity - 1 /\ Capacity \in Nat \ {0}
    BY <1>1, <1>2
  <2> HIDE DEF d
  <2>6. Len(Iterated(buckets')[Capacity]) = Len(Iterated(buckets)[Capacity]) + d
    BY <2>1, <2>2, <2>3, <2>5, LengthsAdd
  <2>7. size = Len(Iterated(buckets)[Capacity])
    BY DEF TableInv, Items
  <2> QED
    BY <2>6, <2>7 DEF d
<1>12. TableInv'
  <2>1. size' = Len(Iterated(buckets')[Capacity])
    BY <1>3, <1>11
  <2>2. size' \in Nat /\ size \in Nat
    <3>1. Iterated(buckets')[Capacity] \in Seq(Node) /\ Iterated(buckets)[Capacity] \in Seq(Node)
      BY <1>2, <1>10, ItemsAre
    <3>2. size = Len(Iterated(buckets)[Capacity])
      BY DEF TableInv, Items
    <3> QED
      BY <2>1, <3>1, <3>2, LenProperties
  <2>3. size' * LoadDen <= LoadNum * Capacity
    <3>1. LoadDen \in Nat /\ LoadNum \in Nat
      BY TableAssumption
    <3>2. size * LoadDen = size' * LoadDen + LoadDen
      <4>1. size = size' + 1
        BY <1>3, <2>2
      <4>2. (size' + 1) * LoadDen = size' * LoadDen + LoadDen
        BY <2>2, <3>1
      <4> QED
        BY <4>1, <4>2
    <3>3. size * LoadDen <= LoadNum * Capacity
      BY DEF TableInv
    <3>4. size' * LoadDen \in Int /\ LoadNum * Capacity \in Int
      BY <1>2, <2>2, <3>1
    <3> QED
      BY <3>1, <3>2, <3>3, <3>4
  <2> QED
    BY <1>2, <1>3, <1>10, <2>1, <2>3, Established
<1>13. \A node : Has(buckets', node) <=> Has(buckets, node) /\ node.key # k
  <2>1. ASSUME NEW n \in DOMAIN new
        PROVE  Has(buckets, new[n]) /\ new[n].key # k
    <3> HIDE DEF Origin
    <3> QED
      BY <1>1, <1>7
  <2>2. ASSUME NEW node, Has(buckets, node), Place(node.key) = j, node.key # k
        PROVE  \E n \in DOMAIN new : new[n] = node
    <3>1. PICK m \in DOMAIN chain : chain[m] = node
      BY <1>5, <2>2
    <3>2. m # p
      BY <1>1, <2>2, <3>1
    <3> QED
      BY <1>8, <3>1, <3>2
  <2>3. \A node : Place(node.key) # j => node.key # k
    BY DEF j
  <2> QED
    BY <1>10, <2>1, <2>2, <2>3
<1> QED
  BY <1>12, <1>13

------------------------------------------------------------------------------
(***************************************************************************)
(* The theorems.                                                           *)
(***************************************************************************)

LEMMA InitTable == Init => TableInv
<1> SUFFICES ASSUME Init PROVE TableInv
  OBVIOUS
<1>1. /\ buckets = [i \in 0 .. InitialCapacity - 1 |-> <<>>]
      /\ size = 0 /\ hash \in [TableKeys -> HashValues]
  BY DEF Init, NoChains
<1>2. InitialCapacity \in Nat \ {0} /\ LoadNum \in Nat /\ LoadDen \in Nat
  BY TableAssumption
<1>3. Capacity = InitialCapacity
  BY <1>1, <1>2, CapacityOf DEF Capacity
<1>4. /\ Tidy(buckets, Capacity)
      /\ Len(Items) = 0
  <2> DEFINE none == <<>>
  <2>1. none \in Seq(Node) /\ Len(none) = 0
    BY EmptySeq
  <2>2. DistinctKeys(none)
    BY DEF DistinctKeys
  <2>3. /\ Tidy(Filled(none, InitialCapacity)[0], InitialCapacity)
        /\ Len(Iterated(Filled(none, InitialCapacity)[0])[InitialCapacity]) = 0
    <3> HIDE DEF none
    <3> QED
      BY <1>1, <1>2, <2>1, <2>2, FilledTidy
  <2>4. Filled(none, InitialCapacity)[0] = buckets
    <3> HIDE DEF none
    <3> QED
      BY <1>1, <1>2, <2>1, FilledIs DEF NoChains
  <2> QED
    BY <1>3, <2>3, <2>4 DEF Items
<1>5. 0 <= LoadNum * InitialCapacity
  BY <1>2
<1>6. size * LoadDen <= LoadNum * Capacity
  BY <1>1, <1>2, <1>3, <1>5
<1> QED
  BY <1>1, <1>2, <1>3, <1>4, <1>6 DEF TableInv

LEMMA NextTable == TableInv /\ [Next]_vars => TableInv'
<1> SUFFICES ASSUME TableInv, [Next]_vars PROVE TableInv'
  OBVIOUS
<1>1. ASSUME NEW k \in TableKeys, Delete(k) PROVE TableInv'
  BY <1>1, DeleteStep
<1>2. ASSUME NEW k \in TableKeys, NEW v \in TableValues, Put(k, v) PROVE TableInv'
  BY <1>2, InsertStep, OverwriteStep DEF Put
<1>3. CASE UNCHANGED vars
  BY <1>3 DEF vars, TableInv, Tidy, ChainsOf, BucketIndex, Capacity, Items, Iterated
<1> QED
  BY <1>1, <1>2, <1>3 DEF Next

\* The inductive invariant: whatever is put, overwritten and deleted, the table
\* stays tidy and has room, resizes included (hash_table.py:47-114).
THEOREM Invariant == Spec => []TableInv
<1> QED
  BY InitTable, NextTable, PTL DEF Spec

LEMMA TableFacts == TableInv => TypeOK /\ WellPlaced /\ SizeAndLoad
<1> SUFFICES ASSUME TableInv PROVE TypeOK /\ WellPlaced /\ SizeAndLoad
  OBVIOUS
<1>1. Capacity \in Nat \ {0} /\ DOMAIN buckets = 0 .. Capacity - 1
  BY CapacityPositive
<1>2. Tidy(buckets, Capacity) /\ hash \in [TableKeys -> HashValues] /\ size = Len(Items)
  BY DEF TableInv
<1>3. Items \in Seq(Node) /\ DistinctKeys(Items)
  BY <1>1, <1>2, ItemsAre DEF Items
<1>4. TypeOK
  BY <1>1, <1>2, <1>3, LenProperties DEF TypeOK, Tidy, ChainsOf
<1>5. WellPlaced
  BY <1>1, <1>2, <1>3 DEF WellPlaced, Tidy, DistinctKeys
<1>6. SizeAndLoad
  BY DEF TableInv, SizeAndLoad
<1> QED
  BY <1>4, <1>5, <1>6

\* Type correctness of the table, for any number of operations.
THEOREM TypeCorrect == Spec => []TypeOK
<1> QED
  BY Invariant, TableFacts, PTL

\* Every node is where get, put and delete look for its key, and no key has
\* two: no put of a resize loses, doubles or misplaces one (hash_table.py:109).
THEOREM NothingMisplaced == Spec => []WellPlaced
<1> QED
  BY Invariant, TableFacts, PTL

\* len counts the items and chains stay short: the load factor never exceeds
\* its maximum and no resize starts another (hash_table.py:57, 106).
THEOREM LoadIsBounded == Spec => []SizeAndLoad
<1> QED
  BY Invariant, TableFacts, PTL

------------------------------------------------------------------------------
(***************************************************************************)
(* HashTable implements KeyMap.                                            *)
(***************************************************************************)

LEMMA FindIsRightAfter == TableInv' => FindRight'
<1> QED
  BY FindIsRight, PTL

\* If the nodes of other keys stay, get goes on finding them.
LEMMA OthersFound ==
  ASSUME FindRight, FindRight', NEW x \in TableKeys,
         \A node : node.key = x => (Has(buckets', node) <=> Has(buckets, node))
  PROVE  Find(x)' = Find(x)
<1>1. CASE Lacks(buckets, x)
  <2>1. Lacks(buckets', x)
    BY <1>1 DEF Lacks
  <2>2. Find(x) = Absent
    BY <1>1 DEF FindRight
  <2>3. Find(x)' = Absent
    BY <2>1 DEF FindRight, Lacks, Has
  <2> QED
    BY <2>2, <2>3
<1>2. CASE ~ Lacks(buckets, x)
  <2>1. PICK node : Has(buckets, node) /\ node.key = x
    BY <1>2 DEF Lacks
  <2>2. Has(buckets', node)
    BY <2>1
  <2>3. Find(x) = node.value
    BY <2>1 DEF FindRight
  <2>4. Find(x)' = node.value
    BY <2>1, <2>2 DEF FindRight, Has
  <2> QED
    BY <2>3, <2>4
<1> QED
  BY <1>1, <1>2

LEMMA PutIsPut ==
  ASSUME TableInv, NEW k \in TableKeys, NEW v \in TableValues, Put(k, v)
  PROVE  Abstract!Put(k, v)
<1>1. /\ TableInv'
      /\ \A node : node.key # k => (Has(buckets', node) <=> Has(buckets, node))
      /\ Has(buckets', [key |-> k, value |-> v])
  <2>1. CASE Insert(k, v)
    BY <2>1, InsertStep
  <2>2. CASE Overwrite(k, v)
    BY <2>2, OverwriteStep
  <2> QED
    BY <2>1, <2>2 DEF Put
<1>2. FindRight /\ FindRight'
  BY <1>1, FindIsRight, FindIsRightAfter
<1>3. \A x \in TableKeys \ {k} : Find(x)' = Find(x)
  BY <1>1, <1>2, OthersFound
<1>4. Find(k)' = v
  <2> DEFINE node == [key |-> k, value |-> v]
  <2>1. Has(buckets', node) /\ node.key = k /\ node.value = v
    BY <1>1
  <2> HIDE DEF node
  <2>2. Find(node.key)' = node.value
    BY <1>2, <2>1 DEF FindRight, Has
  <2> QED
    BY <2>1, <2>2
<1> QED
  BY <1>3, <1>4 DEF Abstract!Put

LEMMA DeleteIsDelete ==
  ASSUME TableInv, NEW k \in TableKeys, Delete(k)
  PROVE  Abstract!Delete(k)
<1>1. /\ TableInv'
      /\ \A node : Has(buckets', node) <=> Has(buckets, node) /\ node.key # k
  BY DeleteStep
<1>2. FindRight /\ FindRight'
  BY <1>1, FindIsRight, FindIsRightAfter
<1>3. \A x \in TableKeys \ {k} : Find(x)' = Find(x)
  BY <1>1, <1>2, OthersFound
<1>4. Find(k)' = Absent
  <2>1. Lacks(buckets', k)
    BY <1>1 DEF Lacks
  <2> QED
    BY <1>2, <2>1 DEF FindRight, Lacks, Has
<1> QED
  BY <1>3, <1>4 DEF Abstract!Delete

LEMMA InitIsInit == Init => Abstract!Init
<1> SUFFICES ASSUME Init, NEW k \in TableKeys PROVE Find(k) = Absent
  BY DEF Abstract!Init
<1>1. TableInv
  BY InitTable
<1>2. ~ Holds(k)
  <2>1. DOMAIN buckets = 0 .. Capacity - 1 /\ \A i \in DOMAIN buckets : buckets[i] = <<>>
    BY <1>1, CapacityPositive DEF Init, NoChains
  <2>2. DOMAIN Chain(k) = {}
    BY <1>1, <2>1, PlaceOf
  <2> QED
    BY <2>2 DEF Holds, Positions
<1> QED
  BY <1>2 DEF Find

\* HashTable implements KeyMap, for every hash function: collisions, the order
\* of a chain and resizes never show through get (hash_table.py:47-114).
THEOREM TableIsKeyMap == Spec => IsKeyMap
<1>1. ASSUME TableInv, [Next]_vars
      PROVE  [Abstract!Next]_[k \in TableKeys |-> Find(k)]
  <2>1. ASSUME NEW k \in TableKeys, Delete(k) PROVE Abstract!Next
    BY <1>1, <2>1, DeleteIsDelete DEF Abstract!Next
  <2>2. ASSUME NEW k \in TableKeys, NEW v \in TableValues, Put(k, v) PROVE Abstract!Next
    BY <1>1, <2>2, PutIsPut DEF Abstract!Next
  <2>3. CASE UNCHANGED vars
    BY <2>3 DEF vars, Find, Holds, Positions, FirstPosition, Chain, BucketIndex, Capacity
  <2> QED
    BY <1>1, <2>1, <2>2, <2>3 DEF Next
<1> QED
  BY <1>1, Invariant, InitIsInit, PTL DEF Spec, IsKeyMap, Abstract!Spec
==============================================================================
