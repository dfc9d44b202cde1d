-------------------------- MODULE StoreEngineProofs --------------------------
(***************************************************************************)
(* Proofs about StoreEngine, for all namespaces, keys, values, times to    *)
(* live, amounts, cleanup limits and bounds.                               *)
(***************************************************************************)
EXTENDS StoreEngine, StoreProofs

\* Key by key: a record clients see is the record of the replica, and where
\* they see none the replica has none they could see under the versions memory
\* has.  The table and the replica may differ in dead records only.
AgreesOn(sk) ==
    IF Live(sk)
    THEN replica.entries[sk] = table[sk]
    ELSE ~IsLive(replica.entries, namespaceVersions, now, sk)

\* The replica's versions lag behind only where the log missed an invalidation.
VersionsFollow ==
    \A ns \in Namespaces :
        /\ replica.versions[ns] <= namespaceVersions[ns]
        /\ ns \notin unsureNamespaces => replica.versions[ns] = namespaceVersions[ns]

\* The inductive invariant.  NoRecordFromTheFuture is needed because an
\* invalidation makes a record stale only if its version is not ahead already.
IInv ==
    /\ TypeOK
    /\ NoRecordFromTheFuture
    /\ VersionsFollow
    /\ \A sk \in StorageKeys \ unsureKeys : AgreesOn(sk)

------------------------------------------------------------------------------
(***************************************************************************)
(* What the lemmas of StoreProofs ask for, and the shape of a cleanup.     *)
(***************************************************************************)

LEMMA EngineState == IInv => TypeOK /\ StoreTypeOK /\ TableNotAhead
BY DEF IInv, TypeOK, NoRecordFromTheFuture, TableNotAhead

\* cleanup_expired removes dead records only.
LEMMA CleanupShape ==
    ASSUME TypeOK, CleanupExpired
    PROVE  \E t \in Tables : Do(Silent(t)) /\ WithoutDead(t)
<1>1. PICK limit \in Limits : \E removed \in CleanupChoices(limit) : Do(CleanupOutcome(removed))
  BY DEF CleanupExpired
<1>2. PICK removed \in CleanupChoices(limit) : Do(CleanupOutcome(removed))
  BY <1>1
<1> DEFINE t == [sk \in StorageKeys |-> IF sk \in removed THEN Missing ELSE table[sk]]
<1>3. removed \subseteq ExpiredKeys
  BY <1>2 DEF CleanupChoices, kSubset
<1>4. t \in Tables
  BY DEF TypeOK, StoreTypeOK, Tables
<1>5. WithoutDead(t)
  BY <1>3 DEF ExpiredKeys, WithoutDead, Live, IsLive
<1>6. Do(Silent(t))
  BY <1>2 DEF CleanupOutcome
<1> HIDE DEF t
<1> QED BY <1>4, <1>5, <1>6

------------------------------------------------------------------------------
(***************************************************************************)
(* The shapes of a step.                                                   *)
(***************************************************************************)

\* A step that logs nothing and removes dead records only keeps the invariant.
LEMMA SilentStep ==
    ASSUME IInv, NEW t \in Tables, WithoutDead(t), Do(Silent(t))
    PROVE  IInv'
<1>1. /\ table' = t
      /\ namespaceVersions' = namespaceVersions
      /\ mutationSeq' = mutationSeq
      /\ now' = now
      /\ replica' = replica
      /\ unsureKeys' = unsureKeys
      /\ unsureNamespaces' = unsureNamespaces
  BY DEF IInv, TypeOK, StoreTypeOK, Do, Perform, Silent, Replay,
         SettledKeys, SettledNamespaces
<1>2. TypeOK'
  BY <1>1 DEF IInv, TypeOK, StoreTypeOK
<1>3. NoRecordFromTheFuture' /\ VersionsFollow'
  BY <1>1 DEF IInv, NoRecordFromTheFuture, VersionsFollow, WithoutDead
<1>4. \A sk \in StorageKeys \ unsureKeys' : AgreesOn(sk)'
  <2> TAKE sk \in StorageKeys \ unsureKeys'
  <2>1. CASE t[sk] = table[sk]
    BY <2>1, <1>1 DEF IInv, AgreesOn, Live, IsLive
  <2>2. CASE t[sk] = Missing /\ ~Live(sk)
    BY <2>2, <1>1 DEF IInv, AgreesOn, Live, IsLive
  <2> QED BY <2>1, <2>2 DEF WithoutDead
<1> QED BY <1>1, <1>2, <1>3, <1>4 DEF IInv

\* A logged put of a record with the current version of its namespace keeps
\* the invariant: the same record goes to the table and to the replica, and
\* takes the replica's version of the namespace to the current one.
LEMMA UpsertStep ==
    ASSUME IInv, NEW sk \in StorageKeys, NEW record \in Record,
           record.version = namespaceVersions[sk[1]], Do(Upsert(sk, record))
    PROVE  IInv'
<1> DEFINE event == UpsertEvent(NextSeq, sk, record)
           versions == [replica.versions EXCEPT ![sk[1]] = namespaceVersions[sk[1]]]
<1>0. /\ table \in Tables /\ namespaceVersions \in Versions
      /\ replica.entries \in Tables /\ replica.versions \in Versions
      /\ mutationSeq \in Nat /\ now \in Nat /\ sk[1] \in Namespaces
      /\ unsureKeys \subseteq StorageKeys /\ unsureNamespaces \subseteq Namespaces
      /\ VersionsFollow
  BY NamespaceOfKey DEF IInv, TypeOK, StoreTypeOK, Snapshots
<1>1. /\ table' = [table EXCEPT ![sk] = record]
      /\ namespaceVersions' = namespaceVersions
      /\ mutationSeq' = mutationSeq + 1
      /\ now' = now
      /\ replica' = ApplyEvent(replica, event)
  BY DEF Do, Perform, Upsert, Replay
<1>2. unsureKeys' = unsureKeys \ {sk} /\ unsureNamespaces' = unsureNamespaces \ {sk[1]}
  BY DEF Do, Upsert, UpsertEvent, SettledKeys, SettledNamespaces
<1>3. /\ replica'.entries = [replica.entries EXCEPT ![sk] = record]
      /\ replica'.versions = versions
      /\ replica' \in Snapshots
  <2>1. ApplyEvent(replica, event) =
          [entries  |-> [replica.entries EXCEPT ![sk] = record],
           versions |-> [replica.versions EXCEPT ![sk[1]] =
                           Larger(replica.versions[sk[1]], record.version)]]
    BY DEF ApplyEvent, UpsertEvent
  <2>2. Larger(replica.versions[sk[1]], record.version) = namespaceVersions[sk[1]]
    BY <1>0 DEF Larger, Versions, VersionsFollow
  <2>3. [replica.entries EXCEPT ![sk] = record] \in Tables /\ versions \in Versions
    BY <1>0 DEF Tables, Versions
  <2>4. replica' = [entries  |-> [replica.entries EXCEPT ![sk] = record],
                    versions |-> versions]
    BY <1>1, <2>1, <2>2
  <2> HIDE DEF versions
  <2> QED BY <2>3, <2>4 DEF Snapshots
<1>4. TypeOK'
  BY <1>0, <1>1, <1>2, <1>3 DEF TypeOK, StoreTypeOK, Tables
<1>5. /\ \A ns \in Namespaces : /\ namespaceVersions[ns] \in Nat
                                /\ replica.versions[ns] \in Nat
                                /\ replica.versions[ns] <= replica'.versions[ns]
      /\ replica'.versions[sk[1]] = namespaceVersions[sk[1]]
  BY <1>0, <1>3 DEF Versions, VersionsFollow
<1>6. VersionsFollow'
  BY <1>0, <1>1, <1>2, <1>3 DEF VersionsFollow, Versions
<1>7. NoRecordFromTheFuture'
  <2> SUFFICES ASSUME NEW k \in StorageKeys
               PROVE  /\ table'[k] # Missing => table'[k].version <= namespaceVersions[k[1]]
                      /\ replica'.entries[k] # Missing =>
                            replica'.entries[k].version <= replica'.versions[k[1]]
    BY <1>1 DEF NoRecordFromTheFuture
  <2>1. CASE k = sk
    <3>1. table'[k] = record /\ replica'.entries[k] = record
      BY <2>1, <1>0, <1>1, <1>3 DEF Tables
    <3>2. namespaceVersions[k[1]] \in Nat /\ replica'.versions[k[1]] = namespaceVersions[k[1]]
      BY <2>1, <1>0, <1>5
    <3> QED BY <2>1, <3>1, <3>2
  <2>2. CASE k # sk
    <3>1. /\ table'[k] = table[k]
          /\ replica'.entries[k] = replica.entries[k]
          /\ replica.entries[k] # Missing => replica.entries[k].version \in Nat
          /\ k[1] \in Namespaces
      BY <2>2, <1>0, <1>1, <1>3, NamespaceOfKey DEF Tables, Record
    <3>2. /\ table[k] # Missing => table[k].version <= namespaceVersions[k[1]]
          /\ replica.entries[k] # Missing =>
                replica.entries[k].version <= replica.versions[k[1]]
      BY DEF IInv, NoRecordFromTheFuture
    <3>3. /\ replica.versions[k[1]] \in Nat /\ replica'.versions[k[1]] \in Nat
          /\ replica.versions[k[1]] <= replica'.versions[k[1]]
      BY <3>1, <1>0, <1>3, <1>5 DEF Versions, Snapshots
    <3> QED BY <3>1, <3>2, <3>3
  <2> QED BY <2>1, <2>2
<1>8. \A k \in StorageKeys \ unsureKeys' : AgreesOn(k)'
  <2> TAKE k \in StorageKeys \ unsureKeys'
  <2>1. CASE k = sk
    BY <2>1, <1>0, <1>1, <1>3 DEF AgreesOn, Live, IsLive, Tables
  <2>2. CASE k # sk
    BY <2>2, <1>0, <1>1, <1>2, <1>3 DEF IInv, AgreesOn, Live, IsLive, Tables
  <2> QED BY <2>1, <2>2
<1> QED BY <1>4, <1>6, <1>7, <1>8 DEF IInv

\* A logged delete of a live record keeps the invariant.
LEMMA DeleteStep ==
    ASSUME IInv, NEW sk \in StorageKeys, Do(DeleteOutcome(sk))
    PROVE  IInv'
<1>0. /\ table \in Tables /\ namespaceVersions \in Versions
      /\ replica.entries \in Tables /\ replica.versions \in Versions
      /\ replica \in Snapshots
      /\ unsureKeys \subseteq StorageKeys /\ unsureNamespaces \subseteq Namespaces
      /\ mutationSeq \in Nat /\ now \in Nat
  BY DEF IInv, TypeOK, StoreTypeOK, Snapshots
<1>1. CASE ~Live(sk)
  <2>1. Do(Silent(ReadTable(sk)))
    BY <1>1 DEF DeleteOutcome
  <2> QED BY <2>1, EngineState, ReadTableShape, SilentStep
<1>2. CASE Live(sk)
  <2> DEFINE event == DeleteEvent(NextSeq, sk)
  <2>1. /\ table' = [table EXCEPT ![sk] = Missing]
        /\ namespaceVersions' = namespaceVersions
        /\ mutationSeq' = mutationSeq + 1
        /\ now' = now
        /\ replica' = ApplyEvent(replica, event)
        /\ unsureKeys' = unsureKeys \ {sk}
        /\ unsureNamespaces' = unsureNamespaces
    BY <1>2 DEF Do, Perform, DeleteOutcome, DeleteEvent, Replay, SettledKeys, SettledNamespaces
  <2>2. ApplyEvent(replica, event) = [replica EXCEPT !.entries[sk] = Missing]
    BY DEF ApplyEvent, DeleteEvent
  <2>3. [replica.entries EXCEPT ![sk] = Missing] \in Tables
    BY <1>0 DEF Tables
  <2>4. replica' = [entries  |-> [replica.entries EXCEPT ![sk] = Missing],
                    versions |-> replica.versions]
    BY <1>0, <2>1, <2>2 DEF Snapshots
  <2>5. TypeOK'
    BY <1>0, <2>1, <2>3, <2>4 DEF TypeOK, StoreTypeOK, Tables, Snapshots
  <2>6. NoRecordFromTheFuture' /\ VersionsFollow'
    BY <1>0, <2>1, <2>4 DEF IInv, NoRecordFromTheFuture, VersionsFollow, Tables
  <2>7. \A k \in StorageKeys \ unsureKeys' : AgreesOn(k)'
    <3> TAKE k \in StorageKeys \ unsureKeys'
    <3>1. CASE k = sk
      BY <3>1, <1>0, <2>1, <2>4 DEF AgreesOn, Live, IsLive, Tables
    <3>2. CASE k # sk
      BY <3>2, <1>0, <2>1, <2>4 DEF IInv, AgreesOn, Live, IsLive, Tables
    <3> QED BY <3>1, <3>2
  <2> QED BY <2>5, <2>6, <2>7 DEF IInv
<1> QED BY <1>1, <1>2

\* No record, in the table or in the log, has reached the version after the
\* current one, so an invalidation kills every record of its namespace.
LEMMA NextVersionIsNew ==
    ASSUME IInv, NEW sk \in StorageKeys
    PROVE  /\ namespaceVersions[sk[1]] \in Nat
           /\ table[sk] # Missing => IsStale(table[sk], namespaceVersions[sk[1]] + 1)
           /\ replica.entries[sk] # Missing =>
                 IsStale(replica.entries[sk], namespaceVersions[sk[1]] + 1)
<1>1. /\ sk[1] \in Namespaces
      /\ namespaceVersions[sk[1]] \in Nat /\ replica.versions[sk[1]] \in Nat
      /\ replica.versions[sk[1]] <= namespaceVersions[sk[1]]
  BY NamespaceOfKey DEF IInv, TypeOK, StoreTypeOK, Snapshots, Versions, VersionsFollow
<1>2. /\ table[sk] # Missing => table[sk].version \in Nat
      /\ replica.entries[sk] # Missing => replica.entries[sk].version \in Nat
  BY DEF IInv, TypeOK, StoreTypeOK, Snapshots, Tables, Record
<1>3. /\ table[sk] # Missing => table[sk].version <= namespaceVersions[sk[1]]
      /\ replica.entries[sk] # Missing => replica.entries[sk].version <= replica.versions[sk[1]]
  BY DEF IInv, NoRecordFromTheFuture
<1> QED BY <1>1, <1>2, <1>3 DEF IsStale

\* The next version of a namespace, with the same table and the same entries in
\* the log, keeps the invariant when the log has it too or is known not to.
LEMMA NewVersion ==
    ASSUME IInv, NEW ns \in Namespaces,
           table' = table, now' = now, mutationSeq' = mutationSeq + 1,
           namespaceVersions' = [namespaceVersions EXCEPT ![ns] = namespaceVersions[ns] + 1],
           replica' \in Snapshots, replica'.entries = replica.entries,
           \/ replica'.versions = replica.versions /\ ns \in unsureNamespaces'
           \/ replica'.versions = [replica.versions EXCEPT ![ns] = namespaceVersions[ns] + 1],
           unsureKeys' \subseteq unsureKeys,
           \A k \in unsureKeys : k[1] # ns => k \in unsureKeys',
           unsureNamespaces' \subseteq Namespaces,
           unsureNamespaces \ {ns} \subseteq unsureNamespaces'
    PROVE  IInv'
<1>1. /\ table \in Tables /\ namespaceVersions \in Versions /\ replica.versions \in Versions
      /\ replica.entries \in Tables /\ mutationSeq \in Nat /\ now \in Nat
      /\ unsureKeys \subseteq StorageKeys /\ VersionsFollow
  BY DEF IInv, TypeOK, StoreTypeOK, Snapshots
<1>2. /\ namespaceVersions' \in Versions
      /\ namespaceVersions'[ns] = namespaceVersions[ns] + 1
      /\ \A m \in Namespaces \ {ns} : /\ namespaceVersions'[m] = namespaceVersions[m]
                                      /\ replica'.versions[m] = replica.versions[m]
      /\ \A m \in Namespaces : /\ namespaceVersions[m] \in Nat
                               /\ replica.versions[m] \in Nat
  BY <1>1 DEF Versions
<1>3. TypeOK'
  BY <1>1, <1>2 DEF TypeOK, StoreTypeOK
<1>4. \/ replica'.versions[ns] = replica.versions[ns] /\ ns \in unsureNamespaces'
      \/ replica'.versions[ns] = namespaceVersions[ns] + 1
  BY <1>1 DEF Versions
<1>5. replica.versions[ns] <= replica'.versions[ns] /\ replica'.versions[ns] <= namespaceVersions'[ns]
  BY <1>1, <1>2, <1>4 DEF VersionsFollow
<1>6. VersionsFollow'
  BY <1>1, <1>2, <1>4, <1>5 DEF VersionsFollow
<1>7. NoRecordFromTheFuture'
  <2> SUFFICES ASSUME NEW sk \in StorageKeys
               PROVE  /\ table[sk] # Missing => table[sk].version <= namespaceVersions'[sk[1]]
                      /\ replica.entries[sk] # Missing =>
                            replica.entries[sk].version <= replica'.versions[sk[1]]
    BY DEF NoRecordFromTheFuture
  <2>1. /\ table[sk] # Missing => table[sk].version \in Nat
        /\ replica.entries[sk] # Missing => replica.entries[sk].version \in Nat
        /\ sk[1] \in Namespaces
    BY <1>1, NamespaceOfKey DEF Tables, Record
  <2>2. /\ namespaceVersions[sk[1]] <= namespaceVersions'[sk[1]]
        /\ replica.versions[sk[1]] <= replica'.versions[sk[1]]
        /\ namespaceVersions'[sk[1]] \in Nat /\ replica'.versions[sk[1]] \in Nat
    BY <1>2, <1>4, <1>5, <2>1
  <2> QED BY <1>2, <2>1, <2>2 DEF IInv, NoRecordFromTheFuture
<1>8. \A sk \in StorageKeys \ unsureKeys' : AgreesOn(sk)'
  <2> TAKE sk \in StorageKeys \ unsureKeys'
  <2>1. CASE sk[1] = ns
    <3>1. ~Live(sk)'
      BY <2>1, <1>2, NextVersionIsNew DEF Live, IsLive
    <3>2. ~IsLive(replica.entries, namespaceVersions, now, sk)'
      BY <2>1, <1>2, NextVersionIsNew DEF IsLive
    <3> QED BY <3>1, <3>2 DEF AgreesOn
  <2>2. CASE sk[1] # ns
    <3>1. sk \notin unsureKeys
      BY <2>2
    <3>2. namespaceVersions'[sk[1]] = namespaceVersions[sk[1]]
      BY <2>2, <1>2, NamespaceOfKey
    <3> QED BY <3>1, <3>2 DEF IInv, AgreesOn, Live, IsLive
  <2> QED BY <2>1, <2>2
<1> QED BY <1>3, <1>6, <1>7, <1>8 DEF IInv

\* A logged invalidation keeps the invariant.
LEMMA InvalidateStep ==
    ASSUME IInv, NEW ns \in Namespaces, Do(InvalidateOutcome(ns))
    PROVE  IInv'
<1> DEFINE next == namespaceVersions[ns] + 1
           event == InvalidateEvent(NextSeq, ns, next)
<1>0. /\ namespaceVersions \in Versions /\ mutationSeq \in Nat
      /\ replica.entries \in Tables /\ replica.versions \in Versions
      /\ replica \in Snapshots /\ unsureNamespaces \subseteq Namespaces
      /\ unsureKeys \subseteq StorageKeys
  BY DEF IInv, TypeOK, StoreTypeOK, Snapshots
<1>1. /\ table' = table
      /\ namespaceVersions' = [namespaceVersions EXCEPT ![ns] = next]
      /\ mutationSeq' = mutationSeq + 1
      /\ now' = now
      /\ replica' = ApplyEvent(replica, event)
  BY DEF Do, Perform, InvalidateOutcome, Replay
<1>2. /\ unsureKeys' = unsureKeys \ {sk \in StorageKeys : sk[1] = ns}
      /\ unsureNamespaces' = unsureNamespaces \ {ns}
  BY DEF Do, InvalidateOutcome, InvalidateEvent, SettledKeys, SettledNamespaces
<1>3. ApplyEvent(replica, event) = [replica EXCEPT !.versions[ns] = next]
  BY DEF ApplyEvent, InvalidateEvent
<1>4. [replica.versions EXCEPT ![ns] = next] \in Versions
  BY <1>0 DEF Versions
<1>5. replica' = [entries |-> replica.entries, versions |-> [replica.versions EXCEPT ![ns] = next]]
  BY <1>0, <1>1, <1>3 DEF Snapshots
<1>6. replica' \in Snapshots /\ replica'.entries = replica.entries
  BY <1>0, <1>4, <1>5 DEF Snapshots
<1>7. replica'.versions = [replica.versions EXCEPT ![ns] = next]
  BY <1>5
<1> QED BY <1>0, <1>1, <1>2, <1>6, <1>7, NewVersion

\* A write the log missed makes its key unsure and keeps the invariant.
LEMMA UnloggedWrite ==
    ASSUME IInv, NEW sk \in StorageKeys, NEW record \in Record \cup {Missing},
           record # Missing => record.version = namespaceVersions[sk[1]],
           table' = [table EXCEPT ![sk] = record], namespaceVersions' = namespaceVersions,
           mutationSeq' = mutationSeq + 1, now' = now, replica' = replica,
           unsureKeys' = unsureKeys \cup {sk}, unsureNamespaces' = unsureNamespaces
    PROVE  IInv'
<1>1. /\ table \in Tables /\ mutationSeq \in Nat /\ namespaceVersions[sk[1]] \in Nat
  BY NamespaceOfKey DEF IInv, TypeOK, StoreTypeOK, Versions
<1>2. TypeOK'
  BY <1>1 DEF IInv, TypeOK, StoreTypeOK, Tables
<1>3. NoRecordFromTheFuture' /\ VersionsFollow'
  BY <1>1 DEF IInv, NoRecordFromTheFuture, VersionsFollow, Tables
<1>4. \A k \in StorageKeys \ unsureKeys' : AgreesOn(k)'
  BY <1>1 DEF IInv, AgreesOn, Live, IsLive, Tables
<1> QED BY <1>2, <1>3, <1>4 DEF IInv

\* The clock keeps the invariant: a record both sides hold expires on both
\* sides at once, and no dead record revives.
LEMMA TickStep ==
    ASSUME IInv, Tick
    PROVE  IInv'
<1>0. /\ table \in Tables /\ replica.entries \in Tables
      /\ now \in Nat /\ now' = now + 1
      /\ table' = table /\ namespaceVersions' = namespaceVersions
      /\ mutationSeq' = mutationSeq /\ replica' = replica
      /\ unsureKeys' = unsureKeys /\ unsureNamespaces' = unsureNamespaces
  BY DEF IInv, TypeOK, StoreTypeOK, Snapshots, Tick, unsureVars
<1>1. TypeOK' /\ NoRecordFromTheFuture' /\ VersionsFollow'
  BY <1>0 DEF IInv, TypeOK, StoreTypeOK, NoRecordFromTheFuture, VersionsFollow
<1>2. \A sk \in StorageKeys \ unsureKeys' : AgreesOn(sk)'
  <2> TAKE sk \in StorageKeys \ unsureKeys'
  <2>1. ASSUME NEW r \in Record, IsExpired(r, now)
        PROVE  IsExpired(r, now + 1)
    BY <1>0, <2>1 DEF IsExpired, Record
  <2>2. Live(sk)' => Live(sk)
    BY <1>0, <2>1 DEF Live, IsLive, Tables
  <2>3. IsLive(replica.entries, namespaceVersions, now, sk)' =>
           IsLive(replica.entries, namespaceVersions, now, sk)
    BY <1>0, <2>1 DEF IsLive, Tables
  <2>4. Live(sk) /\ ~Live(sk)' => ~IsLive(replica.entries, namespaceVersions, now, sk)'
    BY <1>0 DEF IInv, AgreesOn, Live, IsLive
  <2> QED BY <1>0, <2>2, <2>3, <2>4 DEF IInv, AgreesOn
<1> QED BY <1>0, <1>1, <1>2 DEF IInv

------------------------------------------------------------------------------
(***************************************************************************)
(* The operations have these shapes.                                       *)
(***************************************************************************)

\* Reading a key removes it when it is dead.
LEMMA GetStep ==
    ASSUME IInv, NEW sk \in StorageKeys, Do(GetOutcome(sk))
    PROVE  IInv'
BY EngineState, ReadTableShape, SilentStep DEF GetOutcome

\* A set that is logged keeps the invariant.
LEMMA SetStep ==
    ASSUME IInv, NEW sk \in StorageKeys, NEW value \in InputValues, NEW ttl \in TTLs,
           Do(SetOutcome(sk, value, ttl))
    PROVE  IInv'
BY EngineState, SetShape, UpsertStep

\* So does counting.
LEMMA DeltaStep ==
    ASSUME IInv, NEW sk \in StorageKeys, NEW amount \in Int, Do(DeltaOutcome(sk, amount))
    PROVE  IInv'
<1>1. table \in Tables /\ WithoutDead(table)
  BY DEF IInv, TypeOK, StoreTypeOK, WithoutDead
<1>2. CASE DeltaOutcome(sk, amount) = Silent(table)
  BY <1>1, <1>2, SilentStep
<1>3. ASSUME NEW record \in Record, record.version = namespaceVersions[sk[1]],
             DeltaOutcome(sk, amount) = Upsert(sk, record)
      PROVE  IInv'
  BY <1>3, UpsertStep
<1> QED BY <1>2, <1>3, EngineState, DeltaShape

\* An upsert the log missed.
LEMMA UnloggedUpsert ==
    ASSUME IInv, NEW sk \in StorageKeys, NEW record \in Record,
           record.version = namespaceVersions[sk[1]], DoUnlogged(Upsert(sk, record))
    PROVE  IInv'
<1>1. Upsert(sk, record).events = <<UpsertEvent(NextSeq, sk, record)>>
  BY DEF Upsert
<1>2. /\ table' = [table EXCEPT ![sk] = record]
      /\ namespaceVersions' = namespaceVersions
      /\ mutationSeq' = mutationSeq + 1
      /\ now' = now /\ replica' = replica
      /\ unsureKeys' = unsureKeys \cup {sk} /\ unsureNamespaces' = unsureNamespaces
  BY <1>1 DEF DoUnlogged, Perform, Upsert, UpsertEvent
<1> QED BY <1>2, UnloggedWrite

\* Whatever operation the log misses, the invariant stays.
LEMMA AppendFailsStep ==
    ASSUME IInv, AppendFails
    PROVE  IInv'
<1>1. PICK outcome \in MutationOutcomes : DoUnlogged(outcome)
  BY DEF AppendFails
<1>2. ASSUME NEW sk \in StorageKeys, NEW record \in Record,
             record.version = namespaceVersions[sk[1]], outcome = Upsert(sk, record)
      PROVE  IInv'
  BY <1>1, <1>2, UnloggedUpsert
<1>3. ASSUME NEW sk \in StorageKeys, outcome = Deletion(sk)
      PROVE  IInv'
  <2>1. /\ table' = [table EXCEPT ![sk] = Missing]
        /\ namespaceVersions' = namespaceVersions
        /\ mutationSeq' = mutationSeq + 1
        /\ now' = now /\ replica' = replica
        /\ unsureKeys' = unsureKeys \cup {sk} /\ unsureNamespaces' = unsureNamespaces
    BY <1>1, <1>3 DEF DoUnlogged, Perform, Deletion, DeleteEvent
  <2> QED BY <2>1, UnloggedWrite
<1>4. ASSUME NEW t \in Tables, outcome = Silent(t)
      PROVE  FALSE
  BY <1>1, <1>4 DEF DoUnlogged, Silent
<1>5. ASSUME NEW ns \in Namespaces, outcome = InvalidateOutcome(ns)
      PROVE  IInv'
  <2>1. outcome = [table    |-> table,
                   versions |-> [namespaceVersions EXCEPT ![ns] = namespaceVersions[ns] + 1],
                   events   |-> <<InvalidateEvent(NextSeq, ns, namespaceVersions[ns] + 1)>>]
    BY <1>5 DEF InvalidateOutcome
  <2>2. /\ table' = table
        /\ namespaceVersions' = [namespaceVersions EXCEPT ![ns] = namespaceVersions[ns] + 1]
        /\ mutationSeq' = mutationSeq + 1
        /\ now' = now /\ replica' = replica
        /\ unsureKeys' = unsureKeys /\ unsureNamespaces' = unsureNamespaces \cup {ns}
    BY <1>1, <2>1 DEF DoUnlogged, Perform, InvalidateEvent
  <2>3. replica \in Snapshots /\ unsureNamespaces \subseteq Namespaces
    BY DEF IInv, TypeOK
  <2> QED BY <2>2, <2>3, NewVersion
<1> QED BY <1>2, <1>3, <1>4, <1>5, EngineState, OutcomeShape

\* A cleanup removes expired records only.
LEMMA CleanupStep ==
    ASSUME IInv, CleanupExpired
    PROVE  IInv'
BY EngineState, CleanupShape, SilentStep

------------------------------------------------------------------------------
(***************************************************************************)
(* The invariant.                                                          *)
(***************************************************************************)

\* A new engine and an empty log agree.
LEMMA InitInvariant == Init => IInv
<1> SUFFICES ASSUME Init PROVE IInv
  OBVIOUS
<1>1. EmptyTable \in Tables /\ NoVersions \in Versions
  BY DEF EmptyTable, NoVersions, Tables, Versions
<1>2. replica = [entries |-> EmptyTable, versions |-> NoVersions]
  BY DEF Init, EmptySnapshot
<1>3. TypeOK
  BY <1>1, <1>2 DEF Init, StoreInit, TypeOK, StoreTypeOK, Snapshots
<1>4. \A sk \in StorageKeys : table[sk] = Missing /\ replica.entries[sk] = Missing
  BY <1>2 DEF Init, StoreInit, EmptyTable
<1>5. NoRecordFromTheFuture
  BY <1>4 DEF NoRecordFromTheFuture
<1>6. \A sk \in StorageKeys : AgreesOn(sk)
  BY <1>4 DEF AgreesOn, Live, IsLive
<1>7. VersionsFollow
  <2>1. replica.versions = NoVersions /\ namespaceVersions = NoVersions
    BY <1>2 DEF Init, StoreInit
  <2>2. replica.versions = namespaceVersions /\ namespaceVersions \in Versions
    BY <1>1, <2>1
  <2> QED BY <2>2 DEF VersionsFollow, Versions
<1> QED BY <1>3, <1>5, <1>6, <1>7 DEF IInv

\* Every step of the engine keeps the invariant.
LEMMA NextInvariant == IInv /\ [Next]_vars => IInv'
<1> SUFFICES ASSUME IInv, [Next]_vars PROVE IInv'
  OBVIOUS
<1>1. ASSUME NEW sk \in StorageKeys, Set(sk) PROVE IInv'
  BY <1>1, SetStep DEF Set
<1>2. ASSUME NEW sk \in StorageKeys, Get(sk) PROVE IInv'
  BY <1>2, GetStep DEF Get
<1>3. ASSUME NEW sk \in StorageKeys, Delete(sk) PROVE IInv'
  BY <1>3, DeleteStep DEF Delete
<1>4. ASSUME NEW sk \in StorageKeys, Incr(sk) PROVE IInv'
  <2>1. PICK amount \in Amounts : Do(DeltaOutcome(sk, amount))
    BY <1>4 DEF Incr
  <2> QED BY <2>1, DeltaStep, InputsAssumption
<1>5. ASSUME NEW sk \in StorageKeys, Decr(sk) PROVE IInv'
  <2>1. PICK amount \in Amounts : Do(DeltaOutcome(sk, -amount))
    BY <1>5 DEF Decr
  <2>2. -amount \in Int
    BY InputsAssumption
  <2> QED BY <2>1, <2>2, DeltaStep
<1>6. ASSUME NEW ns \in Namespaces, InvalidateNamespace(ns) PROVE IInv'
  BY <1>6, InvalidateStep DEF InvalidateNamespace
<1>7. CASE CleanupExpired
  BY <1>7, CleanupStep
<1>8. CASE AppendFails
  BY <1>8, AppendFailsStep
<1>9. CASE Tick
  BY <1>9, TickStep
<1>10. CASE UNCHANGED vars
  BY <1>10 DEF vars, storeVars, unsureVars, IInv, TypeOK, StoreTypeOK, NoRecordFromTheFuture,
               VersionsFollow, AgreesOn, Live, IsLive
<1> QED BY <1>1, <1>2, <1>3, <1>4, <1>5, <1>6, <1>7, <1>8, <1>9, <1>10 DEF Next

\* The inductive invariant holds always.
THEOREM Invariant == Spec => []IInv
BY InitInvariant, NextInvariant, PTL DEF Spec

------------------------------------------------------------------------------
(***************************************************************************)
(* What follows from it.                                                   *)
(***************************************************************************)

\* Type correctness of StoreEngine for every value of its constants.
THEOREM TypeCorrect == Spec => []TypeOK
<1>1. IInv => TypeOK
  BY DEF IInv
<1> QED BY <1>1, Invariant, PTL

\* No record, in memory or in the replayed log, ever carries a version its
\* namespace has not reached.
THEOREM NoFuture == Spec => []NoRecordFromTheFuture
<1>1. IInv => NoRecordFromTheFuture
  BY DEF IInv
<1> QED BY <1>1, Invariant, PTL

\* Replaying the log always gives what clients see, at every later time too,
\* whatever was removed lazily without being logged, except where an append
\* failed and no logged write has followed.
THEOREM LogIsComplete == Spec => []ReplicaAgrees
<1>1. ASSUME IInv PROVE ReplicaAgrees
  <2>1. /\ now \in Nat /\ table \in Tables /\ replica.entries \in Tables
        /\ \A ns \in Namespaces \ unsureNamespaces : replica.versions[ns] = namespaceVersions[ns]
    BY <1>1 DEF IInv, TypeOK, StoreTypeOK, Snapshots, VersionsFollow
  <2>2. ASSUME NEW t \in now .. MaxNow, NEW sk \in StorageKeys \ unsureKeys,
               sk[1] \notin unsureNamespaces
        PROVE  LiveView(replica.entries, replica.versions, t)[sk]
                 = LiveView(table, namespaceVersions, t)[sk]
    <3>1. t \in Int /\ now <= t
      BY <2>1, BoundsAssumption
    <3>2. ASSUME NEW tbl \in Tables, IsLive(tbl, namespaceVersions, t, sk)
          PROVE  IsLive(tbl, namespaceVersions, now, sk)
      BY <2>1, <3>1, <3>2, NeverAssumption DEF IsLive, IsExpired, Tables, Record
    <3>3. AgreesOn(sk) /\ replica.versions[sk[1]] = namespaceVersions[sk[1]]
      BY <1>1, <2>1, <2>2, NamespaceOfKey DEF IInv
    <3>4. (IF IsLive(replica.entries, replica.versions, t, sk)
           THEN replica.entries[sk] ELSE Missing)
            = (IF IsLive(table, namespaceVersions, t, sk) THEN table[sk] ELSE Missing)
      <4>1. CASE Live(sk)
        BY <3>3, <4>1 DEF AgreesOn, IsLive
      <4>2. CASE ~Live(sk)
        <5>1. ~IsLive(table, namespaceVersions, t, sk)
          BY <2>1, <3>2, <4>2 DEF Live
        <5>2. ~IsLive(replica.entries, namespaceVersions, t, sk)
          BY <2>1, <3>2, <3>3, <4>2 DEF AgreesOn
        <5> QED BY <3>3, <5>1, <5>2 DEF IsLive
      <4> QED BY <4>1, <4>2
    <3> QED BY <3>4 DEF LiveView
  <2> QED BY <2>1, <2>2 DEF ReplicaAgrees
<1> QED BY <1>1, Invariant, PTL

------------------------------------------------------------------------------
(***************************************************************************)
(* StoreEngine implements DurableStore.                                    *)
(***************************************************************************)

\* get and cleanup_expired are invisible.
LEMMA ReadsInvisible ==
    ASSUME IInv, (\E sk \in StorageKeys : Get(sk)) \/ CleanupExpired
    PROVE  UNCHANGED Promise!vars
<1>1. TypeOK /\ StoreTypeOK
  BY EngineState
<1>2. ASSUME NEW sk \in StorageKeys, Get(sk) PROVE UNCHANGED Promise!vars
  BY <1>1, <1>2, ReadTableShape, SilentStepInvisible DEF Get, GetOutcome, Do
<1>3. ASSUME CleanupExpired PROVE UNCHANGED Promise!vars
  BY <1>1, <1>3, CleanupShape, SilentStepInvisible DEF Do
<1> QED BY <1>2, <1>3

\* StoreEngine implements DurableStore: every step of the engine is one
\* operation of the promised map, the clock, or nothing clients can see.
THEOREM EngineKeepsPromise == Spec => KeepsPromise
<1>1. Init => Promise!Init
  <2> SUFFICES ASSUME Init PROVE Promise!Init
    OBVIOUS
  <2>1. \A sk \in StorageKeys : ClientView[sk] = Missing
    BY DEF Init, StoreInit, EmptyTable, ClientView, Live, IsLive
  <2>2. ClientView = [sk \in StorageKeys |-> Missing]
    BY <2>1 DEF ClientView
  <2> QED BY <2>2 DEF Promise!Init, Promise!StorageKeys, StorageKeys, Init, StoreInit
<1>2. IInv /\ [Next]_vars => [Promise!Next]_Promise!vars
  <2> SUFFICES ASSUME IInv, [Next]_vars PROVE Promise!Next \/ UNCHANGED Promise!vars
    OBVIOUS
  <2> USE DEF Promise!Next, Promise!StorageKeys, StorageKeys
  <2>1. ASSUME NEW sk \in StorageKeys, Set(sk) PROVE Promise!Next
    BY <2>1, EngineState, SetSeen DEF Set, Do
  <2>2. ASSUME NEW sk \in StorageKeys, Get(sk) PROVE UNCHANGED Promise!vars
    BY <2>2, ReadsInvisible
  <2>3. ASSUME NEW sk \in StorageKeys, Delete(sk) PROVE Promise!Next \/ UNCHANGED Promise!vars
    BY <2>3, EngineState, DeleteSeen DEF Delete, Do
  <2>4. ASSUME NEW sk \in StorageKeys, NEW amount \in Deltas, Perform(DeltaOutcome(sk, amount))
        PROVE  Promise!Next \/ UNCHANGED Promise!vars
    BY <2>4, EngineState, DeltaSeen, DeltasAreIntegers
  <2>5. ASSUME NEW sk \in StorageKeys, Incr(sk) \/ Decr(sk)
        PROVE  Promise!Next \/ UNCHANGED Promise!vars
    BY <2>4, <2>5 DEF Incr, Decr, Deltas, Do
  <2>6. ASSUME NEW ns \in Namespaces, InvalidateNamespace(ns) PROVE Promise!Next
    BY <2>6, EngineState, InvalidateSeen DEF InvalidateNamespace, Do
  <2>7. CASE CleanupExpired
    BY <2>7, ReadsInvisible
  <2>8. CASE AppendFails
    BY <2>8, EngineState, OutcomeSeen DEF AppendFails, DoUnlogged
  <2>9. CASE Tick
    BY <2>9, EngineState, TickSeen DEF Tick
  <2>10. CASE UNCHANGED vars
    BY <2>10 DEF vars, storeVars, Promise!vars, ClientView, Live, IsLive
  <2> QED BY <2>1, <2>2, <2>3, <2>5, <2>6, <2>7, <2>8, <2>9, <2>10 DEF Next
<1> QED BY <1>1, <1>2, Invariant, PTL DEF Spec, Promise!Spec, KeepsPromise
==============================================================================
