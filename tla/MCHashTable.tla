---------------------------- MODULE MCHashTable ------------------------------
\* Constants for model checking HashTable: with two buckets and a load factor
\* of 3/4 the second and the fourth key make the table grow, to four and to
\* eight buckets.  The hash values 0, 2 and 4 collide in two buckets; 0 and 4
\* still collide in four; in eight they no longer do.
EXTENDS HashTable

MCHashValues == {0, 2, 4}

Symmetry == Permutations(TableKeys) \cup Permutations(TableValues)
==============================================================================
