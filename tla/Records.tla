------------------------------- MODULE Records -------------------------------
(***************************************************************************)
(* The data every other module talks about: store records, snapshots and   *)
(* the events of the append-only file (AOF), with the operators that       *)
(* decide which record is visible and what replaying an event does.        *)
(*                                                                         *)
(* Times are integers standing for milliseconds of the wall clock.  A      *)
(* value is either an integer n, which stands for the canonical decimal    *)
(* string str(n) the counters write, or one of Texts, any other string.    *)
(* The fields key and namespace of a record are the index it is stored     *)
(* under; updated_at_ms and saved_at_ms are left out because no decision   *)
(* of the code reads them.                                                 *)
(***************************************************************************)
EXTENDS Integers

CONSTANTS
    Namespaces,     \* the namespaces clients use
    Keys,           \* the keys clients use
    Texts,          \* value strings that are not a canonical decimal
    IntOf,          \* what Python's int() makes of each of Texts ...
    NotAnInt,       \* ... or this, when int() raises ValueError
    Missing,        \* no record under a key
    Never           \* expires_at_ms is None; also ttl_ms is None

\* No record, and no entry of DurableStore, is Missing.
ASSUME MissingAssumption ==
    /\ Missing \notin [value : Int \cup Texts, version : Nat,
                       expires : Int \cup {Never}, created : Int]
    /\ Missing \notin [value : Int \cup Texts, expires : Int \cup {Never}, created : Int]
ASSUME NeverAssumption == Never \notin Int
ASSUME NotAnIntAssumption == NotAnInt \notin Int
ASSUME TextsAssumption == /\ Texts \cap Int = {}
                          /\ IntOf \in [Texts -> Int \cup {NotAnInt}]

------------------------------------------------------------------------------
(***************************************************************************)
(* Records and tables.                                                     *)
(***************************************************************************)

Values == Int \cup Texts

\* StoreRecord / SnapshotEntry.
Record == [value   : Values,
           version : Nat,
           expires : Int \cup {Never},
           created : Int]

\* A storage key encodes the pair (namespace, key); see the README for the
\* encoding itself.
StorageKeys == Namespaces \X Keys

Tables == [StorageKeys -> Record \cup {Missing}]

\* A namespace that is not in the dictionary has version 0.
Versions == [Namespaces -> Nat]

EmptyTable == [sk \in StorageKeys |-> Missing]

\* Mutant: the version a namespace starts from is below that of any record.
NoVersionsYet == [ns \in Namespaces |-> -1]

NoVersions == [ns \in Namespaces |-> 0]

\* int(value_str)
AsInt(v) == IF v \in Texts THEN IntOf[v] ELSE v

IsExpired(record, t) == record.expires # Never /\ record.expires <= t

IsStale(record, current) == record.version < current

\* _read_record finds the state "live".
IsLive(table, versions, t, sk) ==
    /\ table[sk] # Missing
    /\ ~IsExpired(table[sk], t)
    /\ ~IsStale(table[sk], versions[sk[1]])

\* What clients can see of a table.
LiveView(table, versions, t) ==
    [sk \in StorageKeys |-> IF IsLive(table, versions, t, sk) THEN table[sk] ELSE Missing]

------------------------------------------------------------------------------
(***************************************************************************)
(* Snapshots.                                                              *)
(***************************************************************************)

Snapshots == [entries : Tables, versions : Versions]

EmptySnapshot == [entries |-> EmptyTable, versions |-> NoVersions]

\* Only live records are exported, each with its own namespace version.
ExportSnapshot(table, versions, t) ==
    [entries |-> LiveView(table, versions, t), versions |-> versions]

------------------------------------------------------------------------------
(***************************************************************************)
(* Events of the AOF.                                                      *)
(***************************************************************************)

UpsertEvent(seq, sk, record) == [op |-> "upsert", seq |-> seq, key |-> sk, record |-> record]
DeleteEvent(seq, sk)         == [op |-> "delete", seq |-> seq, key |-> sk]
InvalidateEvent(seq, ns, v)  == [op |-> "invalidate", seq |-> seq, namespace |-> ns, version |-> v]

Events ==
         [op : {"upsert"}, seq : Nat, key : StorageKeys, record : Record]
    \cup [op : {"delete"}, seq : Nat, key : StorageKeys]
    \cup [op : {"invalidate"}, seq : Nat, namespace : Namespaces, version : Nat]

Larger(a, b) == IF a >= b THEN a ELSE b

\* Mutant: an upsert leaves the version of its namespace as it finds it.
ApplyEventInPlace(snapshot, event) ==
    CASE event.op = "upsert"     -> [snapshot EXCEPT !.entries[event.key] = event.record]
      [] event.op = "delete"     -> [snapshot EXCEPT !.entries[event.key] = Missing]
      [] event.op = "invalidate" -> [snapshot EXCEPT !.versions[event.namespace] = event.version]

\* One turn of the loop of AofService._apply_events.
ApplyEvent(snapshot, event) ==
    CASE event.op = "upsert" ->
            [entries  |-> [snapshot.entries EXCEPT ![event.key] = event.record],
             versions |-> [snapshot.versions EXCEPT ![event.key[1]] =
                              Larger(@, event.record.version)]]
      [] event.op = "delete" ->
            [snapshot EXCEPT !.entries[event.key] = Missing]
      [] event.op = "invalidate" ->
            [snapshot EXCEPT !.versions[event.namespace] = event.version]
==============================================================================
