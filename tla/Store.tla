-------------------------------- MODULE Store --------------------------------
(***************************************************************************)
(* The operations of app/engine/store.py, StoreEngine.  Each runs from     *)
(* first to last line under one re-entrant lock, so each is one step.      *)
(*                                                                         *)
(* An operation is described by its outcome: the table and the namespace   *)
(* versions it leaves behind and the events (none or one) it hands to the  *)
(* mutation logger.  StoreEngine takes the steps with a logger that always *)
(* succeeds; Persistence takes the same steps with the real append-only    *)
(* file as the logger.                                                     *)
(***************************************************************************)
EXTENDS Records, Sequences, FiniteSetsExt

CONSTANTS
    InputValues,    \* the strings clients store
    TTLs,           \* the ttl_ms clients give, Never for none
    Amounts,        \* the amounts clients add to counters; decr adds the negation
    Limits          \* the limits cleanup_expired is called with, Never for none

ASSUME InputsAssumption == /\ InputValues \subseteq Values
                           /\ TTLs \subseteq (Nat \ {0}) \cup {Never}
                           /\ Amounts \subseteq Int
                           /\ Limits \subseteq Int \cup {Never}

VARIABLES
    table,              \* self._table
    namespaceVersions,  \* self._namespace_versions
    mutationSeq,        \* self._mutation_seq
    now                 \* the wall clock

storeVars == <<table, namespaceVersions, mutationSeq, now>>

StoreTypeOK ==
    /\ table \in Tables
    /\ namespaceVersions \in Versions
    /\ mutationSeq \in Nat
    /\ now \in Nat

StoreInit ==
    /\ table = EmptyTable
    /\ namespaceVersions = NoVersions
    /\ mutationSeq = 0
    /\ now = 0

Live(sk) == IsLive(table, namespaceVersions, now, sk)

\* What clients can read, as DurableStore.tla has it.
ClientView ==
    [sk \in StorageKeys |->
        IF Live(sk)
        THEN [value   |-> table[sk].value,
              expires |-> table[sk].expires,
              created |-> table[sk].created]
        ELSE Missing]

------------------------------------------------------------------------------
(***************************************************************************)
(* Outcomes.                                                               *)
(***************************************************************************)

NextSeq == mutationSeq + 1

\* The table after _read_record: an expired or stale record is removed, and
\* nothing is logged about it.
ReadTable(sk) == IF Live(sk) THEN table ELSE [table EXCEPT ![sk] = Missing]

\* An operation that logs nothing.
Silent(t) == [table |-> t, versions |-> namespaceVersions, events |-> <<>>]

\* put, then _emit_upsert.
Upsert(sk, record) ==
    [table    |-> [table EXCEPT ![sk] = record],
     versions |-> namespaceVersions,
     events   |-> <<UpsertEvent(NextSeq, sk, record)>>]

\* Mutant: the creation time is taken from whatever record is there.
SetOverDeadRecord(sk, value, ttl) ==
    Upsert(sk, [value   |-> value,
                version |-> namespaceVersions[sk[1]],
                expires |-> IF ttl = Never THEN Never ELSE now + ttl,
                created |-> IF table[sk] # Missing THEN table[sk].created ELSE now])

\* Mutant: a record is stored under the next version of its namespace.
SetAhead(sk, value, ttl) ==
    Upsert(sk, [value   |-> value,
                version |-> namespaceVersions[sk[1]] + 1,
                expires |-> IF ttl = Never THEN Never ELSE now + ttl,
                created |-> IF Live(sk) THEN table[sk].created ELSE now])

SetOutcome(sk, value, ttl) ==
    Upsert(sk, [value   |-> value,
                version |-> namespaceVersions[sk[1]],
                expires |-> IF ttl = Never THEN Never ELSE now + ttl,
                created |-> IF Live(sk) THEN table[sk].created ELSE now])

GetOutcome(sk) == Silent(ReadTable(sk))

DeleteOutcome(sk) ==
    IF Live(sk)
    THEN [table    |-> [table EXCEPT ![sk] = Missing],
          versions |-> namespaceVersions,
          events   |-> <<DeleteEvent(NextSeq, sk)>>]
    ELSE Silent(ReadTable(sk))

\* What incr and decr add.
Deltas == Amounts \cup {-amount : amount \in Amounts}

\* A live counter keeps its deadline and its creation time; anything else
\* starts again from amount.  CounterValueError leaves the record as it is.
DeltaOutcome(sk, amount) ==
    LET old == table[sk]
    IN  IF ~Live(sk)
        THEN Upsert(sk, [value   |-> amount,
                         version |-> namespaceVersions[sk[1]],
                         expires |-> Never,
                         created |-> now])
        ELSE IF AsInt(old.value) = NotAnInt
             THEN Silent(table)
             ELSE Upsert(sk, [value   |-> AsInt(old.value) + amount,
                              version |-> namespaceVersions[sk[1]],
                              expires |-> old.expires,
                              created |-> old.created])

InvalidateOutcome(ns) ==
    LET next == namespaceVersions[ns] + 1
    IN  [table    |-> table,
         versions |-> [namespaceVersions EXCEPT ![ns] = next],
         events   |-> <<InvalidateEvent(NextSeq, ns, next)>>]

ExpiredKeys == {sk \in StorageKeys : table[sk] # Missing /\ IsExpired(table[sk], now)}

\* The keys cleanup_expired may remove: the first `limit` expired keys in the
\* order of the hash table, which is any order as far as callers know.
CleanupChoices(limit) ==
    LET all == Cardinality(ExpiredKeys)
    IN  kSubset(IF limit = Never \/ limit > all THEN all ELSE Larger(limit, 0), ExpiredKeys)

CleanupOutcome(removed) ==
    Silent([sk \in StorageKeys |-> IF sk \in removed THEN Missing ELSE table[sk]])

\* The outcomes of the operations that may log an event.
MutationOutcomes ==
         {SetOutcome(sk, value, ttl) : sk \in StorageKeys, value \in InputValues, ttl \in TTLs}
    \cup {DeleteOutcome(sk) : sk \in StorageKeys}
    \cup {DeltaOutcome(sk, amount) : sk \in StorageKeys, amount \in Deltas}
    \cup {InvalidateOutcome(ns) : ns \in Namespaces}

------------------------------------------------------------------------------
(***************************************************************************)
(* Steps.                                                                  *)
(***************************************************************************)

\* What an operation does to the engine; _emit_mutation numbers the event.
Perform(outcome) ==
    /\ table' = outcome.table
    /\ namespaceVersions' = outcome.versions
    /\ mutationSeq' = mutationSeq + Len(outcome.events)
    /\ UNCHANGED now

------------------------------------------------------------------------------
(***************************************************************************)
(* What clients are promised.                                              *)
(***************************************************************************)

\* One map, changed by nothing but their operations and the clock, however many
\* dead records the table still holds.
Promise == INSTANCE DurableStore WITH view <- ClientView, clock <- now, Amounts <- Deltas
==============================================================================
