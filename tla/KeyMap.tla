------------------------------- MODULE KeyMap --------------------------------
(***************************************************************************)
(* What a hash table promises: put, get and delete of a map from keys to   *)
(* values (HashTableProtocol of app/domain/contracts.py).                  *)
(***************************************************************************)
CONSTANTS TableKeys, TableValues, Absent

VARIABLE map    \* what get returns for each key

Init == map = [k \in TableKeys |-> Absent]

Put(k, v) == map' = [map EXCEPT ![k] = v]

Delete(k) == map' = [map EXCEPT ![k] = Absent]

Next == \E k \in TableKeys : Delete(k) \/ \E v \in TableValues : Put(k, v)

Spec == Init /\ [][Next]_map
==============================================================================
