----------------------------- MODULE StoreProofs -----------------------------
(***************************************************************************)
(* Lemmas about the operations of Store, for the proofs about every module *)
(* that takes its steps: the shapes an outcome can have, and what clients  *)
(* see of each.                                                            *)
(***************************************************************************)
EXTENDS Store, TLAPS

\* No record of the table carries a version its namespace has not reached.
TableNotAhead ==
    \A sk \in StorageKeys :
        table[sk] # Missing => table[sk].version <= namespaceVersions[sk[1]]

\* A table that differs from the engine's in that some dead records are gone.
WithoutDead(t) ==
    \A sk \in StorageKeys : t[sk] = table[sk] \/ (t[sk] = Missing /\ ~Live(sk))

\* The outcome of a delete that finds a live record.
Deletion(sk) ==
    [table    |-> [table EXCEPT ![sk] = Missing],
     versions |-> namespaceVersions,
     events   |-> <<DeleteEvent(NextSeq, sk)>>]

------------------------------------------------------------------------------
(***************************************************************************)
(* The shapes of an outcome.                                               *)
(***************************************************************************)

\* A storage key names its namespace.
LEMMA NamespaceOfKey == \A sk \in StorageKeys : sk[1] \in Namespaces
BY DEF StorageKeys

\* What a live key holds is a record.
LEMMA LiveRecord ==
    ASSUME StoreTypeOK, NEW sk \in StorageKeys, Live(sk)
    PROVE  table[sk] \in Record
BY DEF StoreTypeOK, Tables, Live, IsLive

\* _read_record removes at most the record it reads, and only a dead one.
LEMMA ReadTableShape ==
    ASSUME StoreTypeOK, NEW sk \in StorageKeys
    PROVE  ReadTable(sk) \in Tables /\ WithoutDead(ReadTable(sk))
<1>1. table \in Tables
  BY DEF StoreTypeOK
<1> QED BY <1>1 DEF ReadTable, Tables, WithoutDead

\* A set stores a record of the current version.
LEMMA SetShape ==
    ASSUME StoreTypeOK, NEW sk \in StorageKeys, NEW value \in InputValues, NEW ttl \in TTLs
    PROVE  \E record \in Record : /\ record.version = namespaceVersions[sk[1]]
                                 /\ SetOutcome(sk, value, ttl) = Upsert(sk, record)
<1> DEFINE record == [value   |-> value,
                      version |-> namespaceVersions[sk[1]],
                      expires |-> IF ttl = Never THEN Never ELSE now + ttl,
                      created |-> IF Live(sk) THEN table[sk].created ELSE now]
<1>1. /\ now \in Nat /\ namespaceVersions \in Versions /\ sk[1] \in Namespaces
      /\ value \in Values /\ ttl \in (Nat \ {0}) \cup {Never}
  BY InputsAssumption, NamespaceOfKey DEF StoreTypeOK
<1>2. Live(sk) => table[sk].created \in Int
  BY LiveRecord DEF Record
<1>3. /\ namespaceVersions[sk[1]] \in Nat
      /\ (IF ttl = Never THEN Never ELSE now + ttl) \in Int \cup {Never}
      /\ (IF Live(sk) THEN table[sk].created ELSE now) \in Int
  BY <1>1, <1>2 DEF Versions
<1>4. record \in Record
  BY <1>1, <1>3 DEF Record
<1>5. record.version = namespaceVersions[sk[1]]
  OBVIOUS
<1>6. SetOutcome(sk, value, ttl) = Upsert(sk, record)
  BY DEF SetOutcome
<1> HIDE DEF record
<1> QED BY <1>4, <1>5, <1>6

\* Counting stores a record of the current version, or changes nothing when the
\* value is no integer.
LEMMA DeltaShape ==
    ASSUME StoreTypeOK, NEW sk \in StorageKeys, NEW amount \in Int
    PROVE  \/ DeltaOutcome(sk, amount) = Silent(table)
           \/ \E record \in Record : /\ record.version = namespaceVersions[sk[1]]
                                    /\ DeltaOutcome(sk, amount) = Upsert(sk, record)
<1> DEFINE old   == table[sk]
           fresh == [value   |-> amount,
                     version |-> namespaceVersions[sk[1]],
                     expires |-> Never,
                     created |-> now]
           next  == [value   |-> AsInt(old.value) + amount,
                     version |-> namespaceVersions[sk[1]],
                     expires |-> old.expires,
                     created |-> old.created]
<1>1. /\ now \in Nat /\ table \in Tables /\ namespaceVersions[sk[1]] \in Nat
  BY NamespaceOfKey DEF StoreTypeOK, Versions
<1>2. CASE ~Live(sk)
  <2>1. fresh \in Record
    BY <1>1 DEF Record, Values
  <2>2. fresh.version = namespaceVersions[sk[1]]
    OBVIOUS
  <2>3. DeltaOutcome(sk, amount) = Upsert(sk, fresh)
    BY <1>2 DEF DeltaOutcome
  <2> HIDE DEF fresh
  <2> QED BY <2>1, <2>2, <2>3
<1>3. CASE Live(sk) /\ AsInt(old.value) = NotAnInt
  BY <1>3 DEF DeltaOutcome
<1>4. CASE Live(sk) /\ AsInt(old.value) # NotAnInt
  <2>1. old \in Record
    BY <1>4, LiveRecord
  <2>2. AsInt(old.value) \in Int
    BY <1>4, <2>1, TextsAssumption DEF AsInt, Record, Values
  <2>3. next \in Record
    BY <1>1, <2>1, <2>2 DEF Record, Values
  <2>4. next.version = namespaceVersions[sk[1]]
    OBVIOUS
  <2>5. DeltaOutcome(sk, amount) = Upsert(sk, next)
    BY <1>4 DEF DeltaOutcome
  <2> HIDE DEF next
  <2> QED BY <2>3, <2>4, <2>5
<1> QED BY <1>2, <1>3, <1>4

\* Counters add integers.
LEMMA DeltasAreIntegers == Deltas \subseteq Int
<1>1. \A amount \in Amounts : amount \in Int /\ -amount \in Int
  BY InputsAssumption
<1> QED BY <1>1 DEF Deltas

\* An operation logs nothing and removes dead records at most, or it stores one
\* record of the current version, or deletes a live one, or takes a namespace
\* to its next version.
LEMMA OutcomeShape ==
    ASSUME StoreTypeOK, NEW outcome \in MutationOutcomes
    PROVE  \/ \E t \in Tables : WithoutDead(t) /\ outcome = Silent(t)
           \/ \E sk \in StorageKeys, record \in Record :
                 record.version = namespaceVersions[sk[1]] /\ outcome = Upsert(sk, record)
           \/ \E sk \in StorageKeys : Live(sk) /\ outcome = Deletion(sk)
           \/ \E ns \in Namespaces : outcome = InvalidateOutcome(ns)
<1>1. ASSUME NEW sk \in StorageKeys, NEW value \in InputValues, NEW ttl \in TTLs,
             outcome = SetOutcome(sk, value, ttl)
      PROVE  \E record \in Record :
                record.version = namespaceVersions[sk[1]] /\ outcome = Upsert(sk, record)
  BY <1>1, SetShape
<1>2. ASSUME NEW sk \in StorageKeys, outcome = DeleteOutcome(sk)
      PROVE  \/ \E t \in Tables : WithoutDead(t) /\ outcome = Silent(t)
             \/ Live(sk) /\ outcome = Deletion(sk)
  BY <1>2, ReadTableShape DEF DeleteOutcome, Deletion
<1>3. ASSUME NEW sk \in StorageKeys, NEW amount \in Deltas, outcome = DeltaOutcome(sk, amount)
      PROVE  \/ \E t \in Tables : WithoutDead(t) /\ outcome = Silent(t)
             \/ \E record \in Record :
                   record.version = namespaceVersions[sk[1]] /\ outcome = Upsert(sk, record)
  <2>1. table \in Tables /\ WithoutDead(table)
    BY DEF StoreTypeOK, WithoutDead
  <2> QED BY <1>3, <2>1, DeltaShape, DeltasAreIntegers
<1>4. \/ \E sk \in StorageKeys, value \in InputValues, ttl \in TTLs :
            outcome = SetOutcome(sk, value, ttl)
      \/ \E sk \in StorageKeys : outcome = DeleteOutcome(sk)
      \/ \E sk \in StorageKeys, amount \in Deltas : outcome = DeltaOutcome(sk, amount)
      \/ \E ns \in Namespaces : outcome = InvalidateOutcome(ns)
  BY DEF MutationOutcomes
<1> QED BY <1>1, <1>2, <1>3, <1>4

------------------------------------------------------------------------------
(***************************************************************************)
(* What clients see of an operation.                                       *)
(***************************************************************************)

\* What clients see under a key depends on the key, its namespace and the clock.
LEMMA SameEntry ==
    ASSUME NEW sk \in StorageKeys, table'[sk] = table[sk],
           namespaceVersions'[sk[1]] = namespaceVersions[sk[1]], now' = now
    PROVE  ClientView'[sk] = ClientView[sk]
BY DEF ClientView, Live, IsLive

\* Clients see an entry exactly under the live keys.
LEMMA SeenIffLive ==
    ASSUME StoreTypeOK, NEW sk \in StorageKeys
    PROVE  /\ ClientView[sk] = Missing <=> ~Live(sk)
           /\ Live(sk) => ClientView[sk] = [value   |-> table[sk].value,
                                           expires |-> table[sk].expires,
                                           created |-> table[sk].created]
<1>1. ClientView[sk] = IF Live(sk)
                       THEN [value   |-> table[sk].value,
                             expires |-> table[sk].expires,
                             created |-> table[sk].created]
                       ELSE Missing
  BY DEF ClientView
<1>2. ASSUME Live(sk)
      PROVE  [value   |-> table[sk].value,
              expires |-> table[sk].expires,
              created |-> table[sk].created] # Missing
  <2>1. table[sk] \in Record
    BY <1>2, LiveRecord
  <2> QED BY <2>1, MissingAssumption DEF Record, Values
<1> QED BY <1>1, <1>2

\* A step that removes dead records only is invisible.
LEMMA SilentStepInvisible ==
    ASSUME StoreTypeOK, NEW t \in Tables, WithoutDead(t), Perform(Silent(t))
    PROVE  UNCHANGED Promise!vars
<1>1. table' = t /\ namespaceVersions' = namespaceVersions /\ now' = now
  BY DEF Perform, Silent
<1>2. \A sk \in StorageKeys : ClientView'[sk] = ClientView[sk]
  BY <1>1 DEF WithoutDead, ClientView, Live, IsLive
<1>3. ClientView' = ClientView
  BY <1>2 DEF ClientView
<1> QED BY <1>1, <1>3 DEF Promise!vars

\* A put of a live record changes what clients see under its key only.
LEMMA UpsertSeen ==
    ASSUME StoreTypeOK, NEW sk \in StorageKeys, NEW record \in Record,
           record.version = namespaceVersions[sk[1]], ~IsExpired(record, now),
           Perform(Upsert(sk, record))
    PROVE  /\ now' = now
           /\ ClientView' = [ClientView EXCEPT ![sk] = [value   |-> record.value,
                                                       expires |-> record.expires,
                                                       created |-> record.created]]
<1>1. /\ table' = [table EXCEPT ![sk] = record]
      /\ namespaceVersions' = namespaceVersions
      /\ now' = now
      /\ table \in Tables
      /\ namespaceVersions[sk[1]] \in Nat
  BY NamespaceOfKey DEF Perform, Upsert, StoreTypeOK, Versions
<1>2. table'[sk] = record /\ \A k \in StorageKeys \ {sk} : table'[k] = table[k]
  BY <1>1 DEF Tables
<1>3. ASSUME NEW k \in StorageKeys, k # sk PROVE ClientView'[k] = ClientView[k]
  BY <1>1, <1>2, <1>3, SameEntry
<1>4. Live(sk)'
  BY <1>1, <1>2, MissingAssumption DEF Live, IsLive, IsStale, Record, Values
<1>5. ClientView'[sk] = [value |-> record.value, expires |-> record.expires,
                         created |-> record.created]
  BY <1>2, <1>4 DEF ClientView
<1> QED BY <1>1, <1>3, <1>5 DEF ClientView

\* set is Set.
LEMMA SetSeen ==
    ASSUME StoreTypeOK, NEW sk \in StorageKeys, NEW value \in InputValues, NEW ttl \in TTLs,
           Perform(SetOutcome(sk, value, ttl))
    PROVE  Promise!Set(sk, value, ttl)
<1> DEFINE expires == IF ttl = Never THEN Never ELSE now + ttl
           created == IF Live(sk) THEN table[sk].created ELSE now
           record  == [value   |-> value,
                       version |-> namespaceVersions[sk[1]],
                       expires |-> expires,
                       created |-> created]
<1>1. /\ now \in Nat /\ namespaceVersions[sk[1]] \in Nat
      /\ value \in Values /\ ttl \in (Nat \ {0}) \cup {Never}
  BY InputsAssumption, NamespaceOfKey DEF StoreTypeOK, Versions
<1>2. Live(sk) => table[sk].created \in Int
  BY LiveRecord, <1>1 DEF Record
<1>3. record \in Record
  BY <1>1, <1>2 DEF Record
<1>4. ~IsExpired(record, now)
  BY <1>1, NeverAssumption DEF IsExpired
<1>5. Perform(Upsert(sk, record))
  BY DEF SetOutcome
<1>6. /\ now' = now
      /\ ClientView' = [ClientView EXCEPT ![sk] = [value |-> value, expires |-> expires,
                                                  created |-> created]]
  BY <1>1, <1>3, <1>4, <1>5, UpsertSeen
<1>7. created = IF ClientView[sk] = Missing THEN now ELSE ClientView[sk].created
  <2>1. CASE Live(sk)
    <3>1. ClientView[sk] # Missing
      BY <1>1, <2>1, SeenIffLive
    <3>2. ClientView[sk] = [value |-> table[sk].value, expires |-> table[sk].expires,
                            created |-> table[sk].created]
      BY <1>1, <2>1, SeenIffLive
    <3> QED BY <2>1, <3>1, <3>2
  <2>2. CASE ~Live(sk)
    BY <1>1, <2>2, SeenIffLive
  <2> QED BY <2>1, <2>2
<1> QED BY <1>6, <1>7 DEF Promise!Set

\* incr and decr are CountFromZero or CountOn, or invisible when the value is no
\* integer.
LEMMA DeltaSeen ==
    ASSUME StoreTypeOK, NEW sk \in StorageKeys, NEW amount \in Int, Perform(DeltaOutcome(sk, amount))
    PROVE  \/ Promise!CountFromZero(sk, amount)
           \/ Promise!CountOn(sk, amount)
           \/ UNCHANGED Promise!vars
<1> DEFINE old   == table[sk]
           fresh == [value   |-> amount,
                     version |-> namespaceVersions[sk[1]],
                     expires |-> Never,
                     created |-> now]
           next  == [value   |-> AsInt(old.value) + amount,
                     version |-> namespaceVersions[sk[1]],
                     expires |-> old.expires,
                     created |-> old.created]
<1>1. /\ now \in Nat /\ table \in Tables /\ namespaceVersions[sk[1]] \in Nat
  BY NamespaceOfKey DEF StoreTypeOK, Versions
<1>2. CASE ~Live(sk)
  <2>1. fresh \in Record /\ ~IsExpired(fresh, now)
    BY <1>1 DEF Record, Values, IsExpired
  <2>2. Perform(Upsert(sk, fresh))
    BY <1>2 DEF DeltaOutcome
  <2>3. /\ now' = now
        /\ ClientView' = [ClientView EXCEPT ![sk] = [value |-> amount, expires |-> Never,
                                                    created |-> now]]
    BY <1>1, <2>1, <2>2, UpsertSeen
  <2>4. ClientView[sk] = Missing
    BY <1>1, <1>2, SeenIffLive
  <2>5. Promise!CountFromZero(sk, amount)
    BY <2>3, <2>4 DEF Promise!CountFromZero
  <2> QED BY <2>5
<1>3. CASE Live(sk) /\ AsInt(old.value) = NotAnInt
  <2>1. Perform(Silent(table))
    BY <1>3 DEF DeltaOutcome
  <2>2. WithoutDead(table)
    BY DEF WithoutDead
  <2>3. UNCHANGED Promise!vars
    BY <1>1, <2>1, <2>2, SilentStepInvisible
  <2> QED BY <2>3
<1>4. CASE Live(sk) /\ AsInt(old.value) # NotAnInt
  <2>1. old \in Record /\ ~IsExpired(old, now)
    BY <1>1, <1>4, LiveRecord DEF Live, IsLive
  <2>2. AsInt(old.value) \in Int
    BY <1>4, <2>1, TextsAssumption DEF AsInt, Record, Values
  <2>3. next \in Record /\ ~IsExpired(next, now)
    BY <1>1, <2>1, <2>2 DEF Record, Values, IsExpired
  <2>4. Perform(Upsert(sk, next))
    BY <1>4 DEF DeltaOutcome
  <2>5. /\ now' = now
        /\ ClientView' = [ClientView EXCEPT ![sk] = [value   |-> AsInt(old.value) + amount,
                                                    expires |-> old.expires,
                                                    created |-> old.created]]
    BY <1>1, <2>3, <2>4, UpsertSeen
  <2>6. /\ ClientView[sk] # Missing
        /\ ClientView[sk] = [value |-> old.value, expires |-> old.expires,
                             created |-> old.created]
    BY <1>1, <1>4, SeenIffLive
  <2>7. /\ ClientView[sk].value = old.value
        /\ ClientView[sk].expires = old.expires
        /\ ClientView[sk].created = old.created
    BY <2>6
  <2>8. Promise!CountOn(sk, amount)
    BY <1>4, <2>5, <2>6, <2>7 DEF Promise!CountOn, Promise!AsInt, AsInt
  <2> QED BY <2>8
<1> QED BY <1>2, <1>3, <1>4

\* delete is Remove, or invisible when the key is dead.
LEMMA DeleteSeen ==
    ASSUME StoreTypeOK, NEW sk \in StorageKeys, Perform(DeleteOutcome(sk))
    PROVE  Promise!Remove(sk) \/ UNCHANGED Promise!vars
<1>1. table \in Tables
  BY DEF StoreTypeOK
<1>2. CASE ~Live(sk)
  <2>1. Perform(Silent(ReadTable(sk)))
    BY <1>2 DEF DeleteOutcome
  <2>2. UNCHANGED Promise!vars
    BY <1>1, <2>1, ReadTableShape, SilentStepInvisible
  <2> QED BY <2>2
<1>3. CASE Live(sk)
  <2>1. /\ table' = [table EXCEPT ![sk] = Missing]
        /\ namespaceVersions' = namespaceVersions
        /\ now' = now
    BY <1>3 DEF Perform, DeleteOutcome
  <2>2. ClientView[sk] # Missing
    BY <1>1, <1>3, SeenIffLive
  <2>3. ASSUME NEW k \in StorageKeys, k # sk PROVE ClientView'[k] = ClientView[k]
    <3>1. table'[k] = table[k]
      BY <1>1, <2>1, <2>3 DEF Tables
    <3> QED BY <2>1, <3>1, SameEntry
  <2>4. ClientView'[sk] = Missing
    BY <1>1, <2>1 DEF ClientView, Live, IsLive, Tables
  <2>5. ClientView' = [ClientView EXCEPT ![sk] = Missing]
    BY <2>3, <2>4 DEF ClientView
  <2>6. Promise!Remove(sk)
    BY <2>1, <2>2, <2>5 DEF Promise!Remove
  <2> QED BY <2>6
<1> QED BY <1>2, <1>3

\* invalidate_namespace is Invalidate.
LEMMA InvalidateSeen ==
    ASSUME StoreTypeOK, TableNotAhead, NEW ns \in Namespaces, Perform(InvalidateOutcome(ns))
    PROVE  Promise!Invalidate(ns)
<1>1. /\ table \in Tables /\ namespaceVersions \in Versions
      /\ table' = table /\ now' = now
      /\ namespaceVersions' = [namespaceVersions EXCEPT ![ns] = namespaceVersions[ns] + 1]
  BY DEF StoreTypeOK, Perform, InvalidateOutcome
<1>2. ASSUME NEW sk \in StorageKeys, sk[1] = ns PROVE ClientView'[sk] = Missing
  <2>1. namespaceVersions[ns] \in Nat /\ namespaceVersions'[ns] = namespaceVersions[ns] + 1
    BY <1>1 DEF Versions
  <2>2. table[sk] # Missing => /\ table[sk].version \in Nat
                               /\ table[sk].version <= namespaceVersions[ns]
    BY <1>1, <1>2 DEF TableNotAhead, Tables, Record
  <2>3. ~Live(sk)'
    BY <1>1, <1>2, <2>1, <2>2 DEF Live, IsLive, IsStale
  <2> QED BY <2>3 DEF ClientView
<1>3. ASSUME NEW sk \in StorageKeys, sk[1] # ns PROVE ClientView'[sk] = ClientView[sk]
  <2>1. namespaceVersions'[sk[1]] = namespaceVersions[sk[1]]
    BY <1>1, <1>3, NamespaceOfKey DEF Versions
  <2> QED BY <1>1, <2>1, SameEntry
<1>4. ClientView' = [sk \in StorageKeys |-> IF sk[1] = ns THEN Missing ELSE ClientView[sk]]
  BY <1>2, <1>3 DEF ClientView
<1> QED BY <1>1, <1>4 DEF Promise!Invalidate, Promise!StorageKeys, StorageKeys

\* The clock is Pass: what clients lose is exactly what has reached its deadline.
LEMMA TickSeen ==
    ASSUME StoreTypeOK, table' = table, namespaceVersions' = namespaceVersions, now' = now + 1
    PROVE  Promise!Pass
<1>1. /\ table \in Tables /\ now \in Nat
      /\ table' = table /\ now' = now + 1 /\ namespaceVersions' = namespaceVersions
  BY DEF StoreTypeOK
<1>2. ASSUME NEW sk \in StorageKeys
      PROVE  ClientView'[sk] = IF ClientView[sk] # Missing /\ IsExpired(ClientView[sk], now + 1)
                               THEN Missing ELSE ClientView[sk]
  <2>1. CASE ~Live(sk)
    <3>1. ~Live(sk)'
      BY <1>1, <2>1, NeverAssumption DEF Live, IsLive, IsExpired, Tables, Record
    <3>2. ClientView'[sk] = Missing
      BY <3>1 DEF ClientView
    <3> QED BY <1>1, <2>1, <3>2, SeenIffLive
  <2>2. CASE Live(sk)
    <3>1. /\ ClientView[sk] # Missing
          /\ ClientView[sk] = [value |-> table[sk].value, expires |-> table[sk].expires,
                               created |-> table[sk].created]
      BY <1>1, <2>2, SeenIffLive
    <3>2. IsExpired(ClientView[sk], now + 1) <=> IsExpired(table[sk], now + 1)
      BY <3>1 DEF IsExpired
    <3>3. Live(sk)' <=> ~IsExpired(table[sk], now + 1)
      BY <1>1, <2>2 DEF Live, IsLive
    <3>4. ClientView'[sk] = IF Live(sk)' THEN ClientView[sk] ELSE Missing
      BY <1>1, <3>1 DEF ClientView
    <3> QED BY <3>1, <3>2, <3>3, <3>4
  <2> QED BY <2>1, <2>2
<1>3. ClientView' = [sk \in StorageKeys |->
                       IF ClientView[sk] # Missing /\ IsExpired(ClientView[sk], now + 1)
                       THEN Missing ELSE ClientView[sk]]
  BY <1>2 DEF ClientView
<1> QED BY <1>1, <1>3 DEF Promise!Pass, Promise!StorageKeys, StorageKeys,
                         Promise!IsExpired, IsExpired

\* Every operation is one of the promised map, or nothing clients can see.
LEMMA OutcomeSeen ==
    ASSUME StoreTypeOK, TableNotAhead, NEW outcome \in MutationOutcomes, Perform(outcome)
    PROVE  Promise!Next \/ UNCHANGED Promise!vars
<1> USE DEF Promise!Next, Promise!StorageKeys, StorageKeys
<1>1. ASSUME NEW sk \in StorageKeys, NEW value \in InputValues, NEW ttl \in TTLs,
             outcome = SetOutcome(sk, value, ttl)
      PROVE  Promise!Next
  BY <1>1, SetSeen
<1>2. ASSUME NEW sk \in StorageKeys, outcome = DeleteOutcome(sk)
      PROVE  Promise!Next \/ UNCHANGED Promise!vars
  BY <1>2, DeleteSeen
<1>3. ASSUME NEW sk \in StorageKeys, NEW amount \in Deltas, outcome = DeltaOutcome(sk, amount)
      PROVE  Promise!Next \/ UNCHANGED Promise!vars
  BY <1>3, DeltaSeen, DeltasAreIntegers
<1>4. ASSUME NEW ns \in Namespaces, outcome = InvalidateOutcome(ns)
      PROVE  Promise!Next
  BY <1>4, InvalidateSeen
<1> QED BY <1>1, <1>2, <1>3, <1>4 DEF MutationOutcomes
==============================================================================
