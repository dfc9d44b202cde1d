------------------------------ MODULE HashTable ------------------------------
(***************************************************************************)
(* The chained hash table of app/core/hash_table.py, for every hash        *)
(* function.  A bucket is the sequence of its nodes, head first.           *)
(***************************************************************************)
EXTENDS Integers, FiniteSets, SequencesExt

CONSTANTS
    TableKeys, TableValues, Absent,
    HashValues,         \* what hash functions return
    InitialCapacity,
    LoadNum, LoadDen    \* max_load_factor is the fraction LoadNum / LoadDen

\* __init__ refuses a capacity below 1 and a load factor of 0.  Below one node
\* in the initial capacity a resize would not make enough room and could start
\* another; the program uses 8 buckets and 0.75.
ASSUME TableAssumption ==
    /\ Absent \notin TableValues
    /\ HashValues \subseteq Nat
    /\ InitialCapacity \in Nat \ {0}
    /\ LoadNum \in Nat \ {0} /\ LoadDen \in Nat \ {0}
    /\ LoadDen <= LoadNum * InitialCapacity

VARIABLES
    buckets,    \* self._buckets
    size,       \* self._size
    hash        \* self._hash_func

vars == <<buckets, size, hash>>

Node == [key : TableKeys, value : TableValues]

Capacity == Cardinality(DOMAIN buckets)

BucketIndex(k, capacity) == hash[k] % capacity

NoChains(capacity) == [i \in 0 .. capacity - 1 |-> <<>>]

Init ==
    /\ buckets = NoChains(InitialCapacity)
    /\ size = 0
    /\ hash \in [TableKeys -> HashValues]

\* The chain k belongs to, and the nodes with key k in it.
Chain(k) == buckets[BucketIndex(k, Capacity)]

Positions(k) == {n \in DOMAIN Chain(k) : Chain(k)[n].key = k}

Holds(k) == Positions(k) # {}

FirstPosition(k) == CHOOSE n \in Positions(k) : \A m \in Positions(k) : n <= m

\* get, through _find_node
Find(k) == IF Holds(k) THEN Chain(k)[FirstPosition(k)].value ELSE Absent

\* _iter_items: bucket by bucket, each from its head.  Iterated(chains)[i] is
\* what the first i buckets yield.
Iterated(chains) ==
    LET upTo[i \in 0 .. Cardinality(DOMAIN chains)] ==
            IF i = 0 THEN <<>> ELSE upTo[i - 1] \o chains[i - 1]
    IN  upTo

Items == Iterated(buckets)[Capacity]

Prepend(chains, k, v) ==
    [chains EXCEPT ![BucketIndex(k, Cardinality(DOMAIN chains))] =
        <<[key |-> k, value |-> v]>> \o @]

\* Mutant: the items go to the buckets of the old capacity.
ResizedInPlace ==
    [i \in 0 .. 2 * Capacity - 1 |->
        Reverse(SelectSeq(Items, LAMBDA node : BucketIndex(node.key, Capacity) = i))]

\* The first n items put into an empty table of some capacity.  None is there
\* yet and they fill at most half of it, so that each of these puts prepends.
Filled(items, capacity) ==
    LET after[n \in 0 .. Len(items)] ==
            IF n = 0 THEN NoChains(capacity)
            ELSE Prepend(after[n - 1], items[n].key, items[n].value)
    IN  after

\* _resize empties the table, doubles it and puts every item again.
Resized == Filled(Items, 2 * Capacity)[Len(Items)]

\* Mutant: the load factor before the insertion counts.
CrowdedBefore == size * LoadDen > LoadNum * Capacity

\* The projected load factor exceeds the maximum.
Crowded == (size + 1) * LoadDen > LoadNum * Capacity

------------------------------------------------------------------------------

Overwrite(k, v) ==
    /\ Holds(k)
    /\ buckets' = [buckets EXCEPT
                     ![BucketIndex(k, Capacity)][FirstPosition(k)].value = v]
    /\ UNCHANGED <<size, hash>>

\* Mutant: put keeps the bucket index it computed before the table was resized.
InsertStale(k, v) ==
    LET chains == IF Crowded THEN Resized ELSE buckets
    IN  /\ ~Holds(k)
        /\ buckets' = [chains EXCEPT ![BucketIndex(k, Capacity)] =
                          <<[key |-> k, value |-> v]>> \o @]
        /\ size' = size + 1
        /\ UNCHANGED hash

Insert(k, v) ==
    /\ ~Holds(k)
    /\ buckets' = Prepend(IF Crowded THEN Resized ELSE buckets, k, v)
    /\ size' = size + 1
    /\ UNCHANGED hash

Put(k, v) == Overwrite(k, v) \/ Insert(k, v)

\* Mutant: the size shrinks whether or not the key was found.
DeleteUncounted(k) ==
    /\ buckets' = IF Holds(k)
                  THEN [buckets EXCEPT ![BucketIndex(k, Capacity)] =
                          RemoveAt(@, FirstPosition(k))]
                  ELSE buckets
    /\ size' = size - 1
    /\ UNCHANGED hash

Delete(k) ==
    /\ Holds(k)
    /\ buckets' = [buckets EXCEPT ![BucketIndex(k, Capacity)] = RemoveAt(@, FirstPosition(k))]
    /\ size' = size - 1
    /\ UNCHANGED hash

Next == \E k \in TableKeys : Delete(k) \/ \E v \in TableValues : Put(k, v)

Spec == Init /\ [][Next]_vars

------------------------------------------------------------------------------

\* Type correctness of the table.
TypeOK ==
    /\ size \in Nat
    /\ DOMAIN buckets = 0 .. Capacity - 1
    /\ \A i \in DOMAIN buckets : buckets[i] \in Seq(Node)
    /\ hash \in [TableKeys -> HashValues]

\* Every key is in at most one node, and that node is in the chain where
\* get, put and delete look for it, also after the table has been resized.  A
\* second node of a key would come back when the first is deleted.
WellPlaced ==
    /\ \A m, n \in DOMAIN Items : Items[m].key = Items[n].key => m = n
    /\ \A i \in DOMAIN buckets : \A n \in DOMAIN buckets[i] :
          BucketIndex(buckets[i][n].key, Capacity) = i

\* len(table) counts the items, and the load factor never exceeds its maximum,
\* so chains stay short however puts, overwrites and deletes alternate and a
\* resize never starts another.
SizeAndLoad ==
    /\ size = Len(Items)
    /\ size * LoadDen <= LoadNum * Capacity

\* The table is a map: collisions, resizes and the order of a chain do not
\* show through get.
Abstract == INSTANCE KeyMap WITH map <- [k \in TableKeys |-> Find(k)]

\* HashTable implements KeyMap.
IsKeyMap == Abstract!Spec
==============================================================================
