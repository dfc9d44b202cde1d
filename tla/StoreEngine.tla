----------------------------- MODULE StoreEngine -----------------------------
(***************************************************************************)
(* StoreEngine, its mutation logger, and `replica`: the snapshot one gets  *)
(* by replaying, with AofService._apply_events, every event logged so far. *)
(* The engine removes dead records lazily, in reads and in                 *)
(* cleanup_expired, and logs none of that, so the table and the replica    *)
(* drift apart; what clients can see of the two must not.  The logger may  *)
(* raise (a full disk): the change is in memory already and stays there.   *)
(***************************************************************************)
EXTENDS Store

CONSTANTS
    MaxSeq,     \* bound on the events logged
    MaxNow      \* bound on the clock

ASSUME BoundsAssumption == MaxSeq \in Nat /\ MaxNow \in Nat

VARIABLES
    replica,            \* what the log replays to
    unsureKeys,         \* history: keys whose last write the log missed
    unsureNamespaces    \* history: namespaces whose last invalidation it missed

unsureVars == <<unsureKeys, unsureNamespaces>>
vars == <<storeVars, replica, unsureVars>>

Init ==
    /\ StoreInit
    /\ replica = EmptySnapshot
    /\ unsureKeys = {}
    /\ unsureNamespaces = {}

Replay(snapshot, events) ==
    IF events = <<>> THEN snapshot ELSE ApplyEvent(snapshot, events[1])

\* The keys and the namespaces on which an event that reaches the log makes
\* log and memory agree, whatever the log missed before: an upsert carries the
\* version of its namespace along, an invalidation kills all its records.
SettledKeys(events) ==
    IF events = <<>> THEN {}
    ELSE IF events[1].op = "invalidate"
         THEN {sk \in StorageKeys : sk[1] = events[1].namespace}
         ELSE {events[1].key}

SettledNamespaces(events) ==
    IF events = <<>> \/ events[1].op = "delete" THEN {}
    ELSE IF events[1].op = "invalidate" THEN {events[1].namespace} ELSE {events[1].key[1]}

\* An operation and the logger call it makes.
Do(outcome) ==
    /\ Perform(outcome)
    /\ replica' = Replay(replica, outcome.events)
    /\ unsureKeys' = unsureKeys \ SettledKeys(outcome.events)
    /\ unsureNamespaces' = unsureNamespaces \ SettledNamespaces(outcome.events)

\* An operation whose logger call raises: the client gets an error, memory has
\* the change and the event its number, and the log has nothing.
DoUnlogged(outcome) ==
    /\ outcome.events # <<>>
    /\ Perform(outcome)
    /\ UNCHANGED replica
    /\ IF outcome.events[1].op = "invalidate"
       THEN /\ unsureNamespaces' = unsureNamespaces \cup {outcome.events[1].namespace}
            /\ UNCHANGED unsureKeys
       ELSE /\ unsureKeys' = unsureKeys \cup {outcome.events[1].key}
            /\ UNCHANGED unsureNamespaces

MayLog == mutationSeq < MaxSeq

Set(sk) ==
    /\ MayLog
    /\ \E value \in InputValues, ttl \in TTLs : Do(SetOutcome(sk, value, ttl))

Get(sk) == Do(GetOutcome(sk))

Delete(sk) ==
    /\ MayLog
    /\ Do(DeleteOutcome(sk))

Incr(sk) ==
    /\ MayLog
    /\ \E amount \in Amounts : Do(DeltaOutcome(sk, amount))

Decr(sk) ==
    /\ MayLog
    /\ \E amount \in Amounts : Do(DeltaOutcome(sk, -amount))

InvalidateNamespace(ns) ==
    /\ MayLog
    /\ Do(InvalidateOutcome(ns))

CleanupExpired ==
    \E limit \in Limits : \E removed \in CleanupChoices(limit) : Do(CleanupOutcome(removed))

AppendFails ==
    /\ MayLog
    /\ \E outcome \in MutationOutcomes : DoUnlogged(outcome)

Tick ==
    /\ now < MaxNow
    /\ now' = now + 1
    /\ UNCHANGED <<table, namespaceVersions, mutationSeq, replica, unsureVars>>

Next ==
    \/ \E sk \in StorageKeys : Set(sk) \/ Get(sk) \/ Delete(sk) \/ Incr(sk) \/ Decr(sk)
    \/ \E ns \in Namespaces : InvalidateNamespace(ns)
    \/ CleanupExpired
    \/ AppendFails
    \/ Tick

Spec == Init /\ [][Next]_vars

------------------------------------------------------------------------------
(***************************************************************************)
(* Properties.                                                             *)
(***************************************************************************)

\* Type correctness of the engine's state and of the replayed log.
TypeOK ==
    /\ StoreTypeOK
    /\ replica \in Snapshots
    /\ unsureKeys \subseteq StorageKeys
    /\ unsureNamespaces \subseteq Namespaces

\* Whatever the engine removed lazily (an expired or invalidated record met by
\* get, delete, set or incr, or swept by cleanup_expired) without logging it,
\* replaying the log gives clients the same records, deadlines and creation
\* times as the memory does, now and at every later time, and the same
\* namespace versions.  An append that failed spoils this for its own key (an
\* invalidation: for its own namespace) only, and only until the next write
\* there that is logged.  This is what makes the AOF a record of the store.
ReplicaAgrees ==
    /\ \A ns \in Namespaces \ unsureNamespaces : replica.versions[ns] = namespaceVersions[ns]
    /\ \A t \in now .. MaxNow :
          LET replayed == LiveView(replica.entries, replica.versions, t)
              seen     == LiveView(table, namespaceVersions, t)
          IN  \A sk \in StorageKeys \ unsureKeys :
                 sk[1] \notin unsureNamespaces => replayed[sk] = seen[sk]

\* No record carries a version its namespace has not reached.  Such a record
\* would survive the next invalidate_namespace, and an import of it would
\* come back to life.
NoRecordFromTheFuture ==
    \A sk \in StorageKeys :
        /\ table[sk] # Missing => table[sk].version <= namespaceVersions[sk[1]]
        /\ replica.entries[sk] # Missing =>
              replica.entries[sk].version <= replica.versions[sk[1]]

\* StoreEngine implements DurableStore: clients see one map, changed by nothing
\* but their operations and the clock, however many dead records the table
\* still holds.
KeepsPromise == Promise!Spec
==============================================================================
