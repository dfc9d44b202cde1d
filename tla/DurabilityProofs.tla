--------------------------- MODULE DurabilityProofs ---------------------------
(***************************************************************************)
(* Proofs about Durability, for any number of events and saves, any clock  *)
(* and any length of the interval.  The argument: what an append has       *)
(* synced (`fsynced`) is in every file the disk may come back with, since  *)
(* a rewrite starts from a synced copy and the file it replaces keeps what *)
(* it had; and what is not, was logged within an interval of the last      *)
(* fsync, because no process believes in a later one than there was.       *)
(***************************************************************************)
EXTENDS Durability, TLAPS

\* The snapshot the code knows is the newest the disk may have, and every one
\* of them reaches to where the AOF begins.
SnapshotsReach ==
    /\ snapshot \in snapshots
    /\ \A s \in snapshots : aof.base <= s /\ s <= snapshot
    /\ saver.pc # "idle" => snapshot <= saver.marker
    /\ saver.pc = "aof" => snapshot = saver.marker

\* What appends have synced is in the AOF and in the one it replaced.
FilesKeep ==
    /\ aof.last = Logged
    /\ fsynced <= aof.synced
    /\ \A d \in replaced : /\ d.aof.base <= d.snapshot
                           /\ fsynced <= d.aof.synced
                           /\ d.aof.last <= Logged

\* Which events may still be unsynced.
Unsynced ==
    /\ lastFsyncAt <= syncedAt
    /\ mode = "always" => fsynced = Logged
    /\ mode = "everysec" => \A i \in fsynced + 1 .. Logged :
                               appendedAt[i] < syncedAt + SyncInterval

IInv == TypeOK /\ SnapshotsReach /\ FilesKeep /\ Unsynced

LEMMA InitInv == Init => IInv
  BY DurabilityBounds DEF Init, IInv, TypeOK, SnapshotsReach, FilesKeep, Unsynced, Logged, Idle, AofFiles

LEMMA AppendInv ==
  ASSUME IInv, AppendEvent
  PROVE  IInv'
<1> USE DurabilityBounds DEF IInv, TypeOK, Logged, AofFiles
<1>1. /\ Len(appendedAt') = Len(appendedAt) + 1
      /\ appendedAt' \in Seq(0 .. clock')
      /\ \A i \in 1 .. Len(appendedAt) : appendedAt'[i] = appendedAt[i]
      /\ appendedAt'[Len(appendedAt) + 1] = clock
  BY DEF AppendEvent
<1>2. CASE AppendSynced
  <2>1. aof' = [base |-> aof.base, synced |-> Len(appendedAt) + 1, last |-> Len(appendedAt) + 1]
    BY <1>2 DEF AppendSynced
  <2>2. TypeOK'
    BY <1>1, <1>2, <2>1 DEF AppendEvent, AppendSynced, SettleNames, FsyncedAt, SnapshotsReach, FilesKeep
  <2>3. SnapshotsReach'
    BY <1>1, <1>2, <2>1 DEF AppendEvent, AppendSynced, SettleNames, SnapshotsReach
  <2>4. FilesKeep' /\ Unsynced'
    BY <1>1, <1>2, <2>1 DEF AppendEvent, AppendSynced, SettleNames, FsyncedAt, FilesKeep, Unsynced
  <2> QED
    BY <2>2, <2>3, <2>4
<1>3. CASE AppendBuffered
  <2>1. aof' = [base |-> aof.base, synced |-> aof.synced, last |-> Len(appendedAt) + 1]
    BY <1>3 DEF AppendBuffered
  <2>2. UNCHANGED <<mode, clock, lastFsyncAt, snapshot, saver, saves, snapshots, replaced,
                    fsynced, syncedAt>>
    BY <1>3 DEF AppendEvent, AppendBuffered, diskVars
  <2>3. aof' \in AofFiles
    BY <2>1 DEF FilesKeep
  <2>4. \A d \in replaced : d \in [snapshot : 0 .. Len(appendedAt'), aof : AofFiles]
    BY <1>1
  <2>5. TypeOK'
    <3>1. saver \in [pc : {"idle", "snapshot", "aof"}, marker : 0 .. Len(appendedAt')]
      BY <1>1
    <3>2. snapshots \subseteq 0 .. Len(appendedAt') /\ snapshot \in 0 .. Len(appendedAt')
      BY <1>1
    <3>3. fsynced \in 0 .. Len(appendedAt')
      BY <1>1
    <3> QED
      BY <1>1, <2>2, <2>3, <2>4, <3>1, <3>2, <3>3
  <2>6. SnapshotsReach'
    BY <2>1, <2>2 DEF SnapshotsReach
  <2>7. \A d \in replaced : d.aof.last \in Nat
    OBVIOUS
  <2>8. FilesKeep'
    BY <1>1, <2>1, <2>2, <2>7 DEF FilesKeep
  <2>9. mode # "always" /\ (mode = "everysec" => clock < lastFsyncAt + SyncInterval)
    BY <1>3 DEF AppendBuffered, FsyncDue
  <2>10. Unsynced'
    <3>1. ASSUME mode = "everysec", NEW i \in fsynced + 1 .. Len(appendedAt')
          PROVE  appendedAt'[i] < syncedAt + SyncInterval
      <4>1. CASE i = Len(appendedAt) + 1
        BY <1>1, <2>9, <3>1, <4>1 DEF Unsynced
      <4>2. CASE i # Len(appendedAt) + 1
        <5>1. i \in fsynced + 1 .. Len(appendedAt) /\ i \in 1 .. Len(appendedAt)
          BY <1>1, <3>1, <4>2
        <5>2. appendedAt[i] < syncedAt + SyncInterval
          BY <3>1, <5>1 DEF Unsynced
        <5> QED
          BY <1>1, <5>1, <5>2
      <4> QED
        BY <4>1, <4>2
    <3> QED
      BY <2>2, <2>9, <3>1 DEF Unsynced
  <2> QED
    BY <2>5, <2>6, <2>8, <2>10
<1> QED
  BY <1>2, <1>3 DEF AppendEvent

LEMMA SaveInv ==
  ASSUME IInv, BeginSave \/ SaveSnapshot \/ RewriteAof
  PROVE  IInv'
<1> USE DurabilityBounds DEF IInv, TypeOK, Logged, AofFiles
<1>1. CASE BeginSave
  BY <1>1 DEF BeginSave, Idle, diskVars, historyVars, SnapshotsReach, FilesKeep, Unsynced
<1>2. CASE SaveSnapshot
  <2>1. saver' = [pc |-> "aof", marker |-> saver.marker]
    BY <1>2 DEF SaveSnapshot
  <2>2. TypeOK'
    BY <1>2, <2>1 DEF SaveSnapshot, historyVars
  <2>3. SnapshotsReach'
    BY <1>2, <2>1 DEF SaveSnapshot, SnapshotsReach
  <2>4. FilesKeep' /\ Unsynced'
    BY <1>2 DEF SaveSnapshot, historyVars, FilesKeep, Unsynced
  <2> QED
    BY <2>2, <2>3, <2>4
<1>3. CASE RewriteAof
  <2>1. TypeOK'
    BY <1>3 DEF RewriteAof, FsyncedAt, Idle, FilesKeep
  <2>2. SnapshotsReach'
    BY <1>3 DEF RewriteAof, Idle, SnapshotsReach
  <2>3. FilesKeep'
    BY <1>3 DEF RewriteAof, SnapshotsReach, FilesKeep
  <2>4. Unsynced'
    BY <1>3 DEF RewriteAof, FsyncedAt, Unsynced
  <2> QED
    BY <2>1, <2>2, <2>3, <2>4
<1> QED
  BY <1>1, <1>2, <1>3

LEMMA EnvironmentInv ==
  ASSUME IInv, Restart \/ WriteBackData \/ CommitNames \/ Tick
  PROVE  IInv'
<1> USE DurabilityBounds DEF IInv, TypeOK, Logged, AofFiles
<1>1. CASE Restart
  BY <1>1 DEF Restart, Idle, diskVars, historyVars, SnapshotsReach, FilesKeep, Unsynced
<1>2. CASE WriteBackData
  <2>1. PICK n \in aof.synced + 1 .. aof.last :
           aof' = [base |-> aof.base, synced |-> n, last |-> aof.last]
    BY <1>2 DEF WriteBackData
  <2>2. TypeOK'
    <3>1. aof' \in AofFiles
      BY <2>1
    <3> QED
      BY <1>2, <3>1 DEF WriteBackData, diskVars, historyVars
  <2>3. SnapshotsReach'
    BY <1>2, <2>1 DEF WriteBackData, diskVars, SnapshotsReach
  <2>4. FilesKeep' /\ Unsynced'
    BY <1>2, <2>1 DEF WriteBackData, diskVars, historyVars, FilesKeep, Unsynced
  <2> QED
    BY <2>2, <2>3, <2>4
<1>3. CASE CommitNames
  BY <1>3 DEF CommitNames, codeVars, historyVars, SnapshotsReach, FilesKeep, Unsynced
<1>4. CASE Tick
  BY <1>4 DEF Tick, diskVars, historyVars, SnapshotsReach, FilesKeep, Unsynced
<1> QED
  BY <1>1, <1>2, <1>3, <1>4

LEMMA NextInv ==
  ASSUME IInv, [Next]_vars
  PROVE  IInv'
<1>1. CASE Next
  BY <1>1, AppendInv, SaveInv, EnvironmentInv DEF Next
<1>2. CASE UNCHANGED vars
  BY <1>2 DEF vars, codeVars, diskVars, historyVars, IInv, TypeOK, SnapshotsReach, FilesKeep,
              Unsynced, Logged
<1> QED
  BY <1>1, <1>2

\* The inductive invariant: what the files and the disk keep of each other and
\* of what was synced (aof.py:84-117, repository.py:25-33, service.py:34-49).
THEOREM Invariant == Spec => []IInv
  BY InitInv, NextInv, PTL DEF Spec

\* The state of process, files and disk is always of the types declared.
THEOREM TypeCorrect == Spec => []TypeOK
<1>1. IInv => TypeOK
  BY DEF IInv
<1> QED
  BY <1>1, Invariant, PTL

------------------------------------------------------------------------------
(***************************************************************************)
(* What a loss of power can take.                                          *)
(***************************************************************************)

\* A recovery is what a start makes of one surviving snapshot and AOF.
LEMMA RecoveryShape ==
  \A r : r \in Recoveries <=>
           \E d \in Survivors : \E last \in d.aof.synced .. d.aof.last : r = Recovered(d, last)
  BY DEF Recoveries

\* Two files that survive together fit: the snapshot reaches to where the AOF
\* begins, and the AOF has what appends have synced.
LEMMA SurvivorShape ==
  ASSUME IInv, NEW d \in Survivors
  PROVE  /\ d.snapshot \in 0 .. Logged
         /\ d.aof.base \in Nat /\ d.aof.synced \in Nat /\ d.aof.last \in Nat
         /\ d.aof.base <= d.aof.synced
         /\ d.aof.last <= Logged
         /\ d.aof.base <= d.snapshot
         /\ fsynced <= d.aof.synced
<1>1. CASE d \in replaced
  <2>1. d.snapshot \in 0 .. Logged /\ d.aof \in AofFiles
    BY <1>1 DEF IInv, TypeOK
  <2> QED
    BY <1>1, <2>1 DEF IInv, FilesKeep, AofFiles
<1>2. CASE d \in {[snapshot |-> s, aof |-> aof] : s \in snapshots}
  <2>1. PICK s \in snapshots : d = [snapshot |-> s, aof |-> aof]
    BY <1>2
  <2>2. s \in 0 .. Logged /\ aof \in AofFiles
    BY DEF IInv, TypeOK
  <2>3. aof.base <= s /\ aof.last = Logged /\ fsynced <= aof.synced
    BY DEF IInv, SnapshotsReach, FilesKeep
  <2>4. d.snapshot = s /\ d.aof = aof
    BY <2>1
  <2>5. aof.last \in Nat /\ aof.base \in Nat /\ aof.synced \in Nat /\ aof.base <= aof.synced
    BY <2>2 DEF AofFiles
  <2> QED
    BY <2>2, <2>3, <2>4, <2>5
<1> QED
  BY <1>1, <1>2 DEF Survivors

\* A start recovers at least what appends have synced, and nothing that was
\* not logged.
LEMMA RecoveryRange ==
  ASSUME IInv, NEW r \in Recoveries
  PROVE  r \in fsynced .. Logged
<1>1. PICK d \in Survivors : \E last \in d.aof.synced .. d.aof.last : r = Recovered(d, last)
  BY RecoveryShape
<1>2. PICK last \in d.aof.synced .. d.aof.last : r = Recovered(d, last)
  BY <1>1
<1>3. fsynced \in Nat /\ Logged \in Nat
  BY DEF IInv, TypeOK, Logged
<1> QED
  BY <1>2, <1>3, SurvivorShape DEF Recovered

\* With appendfsync always no loss of power takes an answered write, at any
\* step of a save or after any restart of the process (aof.py:107-110).
THEOREM NothingLostWithAlways == Spec => []AlwaysKeeps
<1>1. ASSUME IInv
      PROVE  AlwaysKeeps
  <2>1. SUFFICES ASSUME mode = "always", NEW r \in Recoveries
                 PROVE  r = Logged
    BY DEF AlwaysKeeps
  <2>2. fsynced = Logged /\ Logged \in Nat
    BY <1>1, <2>1 DEF IInv, Unsynced, TypeOK, Logged
  <2> QED
    BY <1>1, <2>2, RecoveryRange
<1> QED
  BY <1>1, Invariant, PTL

\* With everysec a loss of power takes only unsynced events of the interval
\* after the last fsync (aof.py:112-117).
THEOREM LittleLostWithEverysec == Spec => []LossBounded
<1>1. ASSUME IInv
      PROVE  LossBounded
  <2>1. SUFFICES ASSUME mode = "everysec", NEW r \in Recoveries, NEW i \in r + 1 .. Logged
                 PROVE  i > fsynced /\ appendedAt[i] < syncedAt + SyncInterval
    BY DEF LossBounded
  <2>2. r \in fsynced .. Logged /\ fsynced \in Nat /\ Logged \in Nat
    BY <1>1, RecoveryRange DEF IInv, TypeOK, Logged
  <2>3. i \in fsynced + 1 .. Logged
    BY <2>2
  <2> QED
    BY <1>1, <2>1, <2>2, <2>3 DEF IInv, Unsynced
<1> QED
  BY <1>1, Invariant, PTL

------------------------------------------------------------------------------
(***************************************************************************)
(* What no power loss can take stays out of its reach.                     *)
(***************************************************************************)

\* Safe, in terms of the files that survive, now and after a step.
SafeIn(survivors, event) ==
    \A d \in survivors : \A last \in d.aof.synced .. d.aof.last : event <= Recovered(d, last)

LEMMA SafeShape ==
  ASSUME NEW event
  PROVE  /\ Safe(event) <=> SafeIn(Survivors, event)
         /\ Safe(event)' <=> SafeIn(Survivors', event)
<1>1. Safe(event) <=> SafeIn(Survivors, event)
  BY RecoveryShape DEF Safe, SafeIn
<1>2. \A r : r \in Recoveries' <=>
         \E d \in Survivors' : \E last \in d.aof.synced .. d.aof.last : r = Recovered(d, last)
  BY DEF Recoveries, Recovered
<1>3. Safe(event)' <=> SafeIn(Survivors', event)
  BY <1>2 DEF Safe, SafeIn, Recovered
<1> QED
  BY <1>1, <1>3

LEMMA AppendStaysSafe ==
  ASSUME IInv, AppendEvent, NEW event \in 1 .. Logged, SafeIn(Survivors, event)
  PROVE  SafeIn(Survivors', event)
<1>1. /\ Logged \in Nat
      /\ aof = [base |-> aof.base, synced |-> aof.synced, last |-> Logged]
      /\ aof.base \in Nat /\ aof.synced \in Nat
      /\ aof.base <= aof.synced /\ aof.synced <= Logged
  BY DEF IInv, TypeOK, FilesKeep, AofFiles, Logged
<1>2. CASE AppendSynced
  <2>1. aof' = [base |-> aof.base, synced |-> Logged + 1, last |-> Logged + 1]
    BY <1>1, <1>2 DEF AppendSynced
  <2>2. Survivors' = {[snapshot |-> snapshot, aof |-> aof']}
    BY <1>2 DEF AppendSynced, SettleNames, Survivors
  <2> QED
    BY <1>1, <2>1, <2>2 DEF SafeIn, Recovered
<1>3. CASE AppendBuffered
  <2>1. aof' = [base |-> aof.base, synced |-> aof.synced, last |-> Logged + 1]
    BY <1>1, <1>3 DEF AppendBuffered
  <2>2. Survivors' = {[snapshot |-> s, aof |-> aof'] : s \in snapshots} \cup replaced
    BY <1>3 DEF AppendBuffered, diskVars, Survivors
  <2>3. SUFFICES ASSUME NEW d \in Survivors', NEW last \in d.aof.synced .. d.aof.last
                 PROVE  event <= Recovered(d, last)
    BY DEF SafeIn
  <2>4. CASE d \in replaced
    BY <2>3, <2>4 DEF SafeIn, Survivors
  <2>5. CASE d \in {[snapshot |-> s, aof |-> aof'] : s \in snapshots}
    <3>1. PICK s \in snapshots : d = [snapshot |-> s, aof |-> aof']
      BY <2>5
    <3>2. d.snapshot = s /\ d.aof.base = aof.base /\ last \in aof.synced .. Logged + 1
      BY <2>1, <3>1
    <3>3. CASE last = Logged + 1
      BY <1>1, <3>2, <3>3 DEF Recovered
    <3>4. CASE last # Logged + 1
      <4> DEFINE old == [snapshot |-> s, aof |-> aof]
      <4>1. old \in Survivors /\ last \in old.aof.synced .. old.aof.last
        BY <1>1, <3>2, <3>4 DEF Survivors
      <4>2. Recovered(old, last) = Recovered(d, last)
        BY <3>2 DEF Recovered
      <4>3. event <= Recovered(old, last)
        BY <4>1 DEF SafeIn
      <4> QED
        BY <4>2, <4>3
    <3> QED
      BY <3>3, <3>4
  <2> QED
    BY <2>2, <2>4, <2>5
<1> QED
  BY <1>2, <1>3 DEF AppendEvent

LEMMA SaveSnapshotStaysSafe ==
  ASSUME IInv, SaveSnapshot, NEW event \in 1 .. Logged, SafeIn(Survivors, event)
  PROVE  SafeIn(Survivors', event)
<1>1. /\ snapshot \in snapshots /\ snapshot <= saver.marker
      /\ snapshot \in Nat /\ saver.marker \in Nat
      /\ aof.base \in Nat /\ aof.synced \in Nat /\ aof.last \in Nat
  BY DEF SaveSnapshot, IInv, TypeOK, SnapshotsReach, AofFiles, Logged
<1>2. Survivors' = {[snapshot |-> s, aof |-> aof] : s \in snapshots \cup {saver.marker}} \cup replaced
  BY DEF SaveSnapshot, Survivors
<1>3. SUFFICES ASSUME NEW d \in Survivors', NEW last \in d.aof.synced .. d.aof.last
               PROVE  event <= Recovered(d, last)
  BY DEF SafeIn
<1>4. CASE d \in Survivors
  BY <1>3, <1>4 DEF SafeIn
<1>5. CASE d = [snapshot |-> saver.marker, aof |-> aof]
  <2> DEFINE old == [snapshot |-> snapshot, aof |-> aof]
  <2>1. old \in Survivors /\ last \in old.aof.synced .. old.aof.last
    BY <1>1, <1>5 DEF Survivors
  <2>2. event <= Recovered(old, last)
    BY <2>1 DEF SafeIn
  <2>3. d.aof = aof /\ d.snapshot = saver.marker
    BY <1>5
  <2>4. last \in Nat
    BY <1>1, <2>3
  <2> QED
    BY <1>1, <2>2, <2>3, <2>4 DEF Recovered
<1> QED
  BY <1>2, <1>4, <1>5 DEF Survivors

LEMMA RewriteStaysSafe ==
  ASSUME IInv, RewriteAof, NEW event \in 1 .. Logged, SafeIn(Survivors, event)
  PROVE  SafeIn(Survivors', event)
<1>1. /\ snapshot \in snapshots /\ snapshot = saver.marker /\ snapshot \in 0 .. Logged
      /\ aof.last = Logged /\ Logged \in Nat
  BY DEF RewriteAof, IInv, TypeOK, SnapshotsReach, FilesKeep, Logged
<1>2. aof' = [base |-> snapshot, synced |-> Logged, last |-> Logged]
  BY <1>1 DEF RewriteAof
<1>3. Survivors' = {[snapshot |-> snapshot, aof |-> aof'], [snapshot |-> snapshot, aof |-> aof]}
  BY DEF RewriteAof, Survivors
<1>4. SUFFICES ASSUME NEW d \in Survivors', NEW last \in d.aof.synced .. d.aof.last
               PROVE  event <= Recovered(d, last)
  BY DEF SafeIn
<1>5. CASE d = [snapshot |-> snapshot, aof |-> aof]
  BY <1>1, <1>4, <1>5 DEF SafeIn, Survivors
<1>6. CASE d = [snapshot |-> snapshot, aof |-> aof']
  BY <1>1, <1>2, <1>4, <1>6 DEF Recovered
<1> QED
  BY <1>3, <1>5, <1>6

LEMMA DiskStaysSafe ==
  ASSUME IInv, WriteBackData \/ CommitNames, NEW event \in 1 .. Logged, SafeIn(Survivors, event)
  PROVE  SafeIn(Survivors', event)
<1>1. CASE WriteBackData
  <2>1. aof.base \in Nat /\ aof.synced \in Nat /\ aof.last \in Nat
    BY DEF IInv, TypeOK, AofFiles
  <2>2. PICK n \in aof.synced + 1 .. aof.last : aof' = [aof EXCEPT !.synced = n]
    BY <1>1 DEF WriteBackData
  <2>3. aof'.base = aof.base /\ aof'.synced = n /\ aof'.last = aof.last
    BY <2>2 DEF IInv, TypeOK, AofFiles
  <2>4. Survivors' = {[snapshot |-> s, aof |-> aof'] : s \in snapshots} \cup replaced
    BY <1>1 DEF WriteBackData, diskVars, Survivors
  <2>5. SUFFICES ASSUME NEW d \in Survivors', NEW last \in d.aof.synced .. d.aof.last
                 PROVE  event <= Recovered(d, last)
    BY DEF SafeIn
  <2>6. CASE d \in replaced
    BY <2>5, <2>6 DEF SafeIn, Survivors
  <2>7. CASE d \in {[snapshot |-> s, aof |-> aof'] : s \in snapshots}
    <3>1. PICK s \in snapshots : d = [snapshot |-> s, aof |-> aof']
      BY <2>7
    <3> DEFINE old == [snapshot |-> s, aof |-> aof]
    <3>2. d.snapshot = s /\ d.aof.base = aof.base /\ last \in aof.synced .. aof.last
      BY <2>1, <2>3, <3>1
    <3>3. event <= Recovered(old, last)
      BY <3>2 DEF SafeIn, Survivors
    <3> QED
      BY <3>2, <3>3 DEF Recovered
  <2> QED
    BY <2>4, <2>6, <2>7
<1>2. CASE CommitNames
  <2>1. Survivors' \subseteq Survivors
    BY <1>2 DEF CommitNames, codeVars, Survivors
  <2> QED
    BY <2>1 DEF SafeIn
<1> QED
  BY <1>1, <1>2

LEMMA StepStaysSafe ==
  ASSUME IInv, Next, NEW event \in 1 .. Logged, Safe(event)
  PROVE  Safe(event)'
<1>1. SafeIn(Survivors, event)
  BY SafeShape
<1>2. CASE AppendEvent
  BY <1>1, <1>2, AppendStaysSafe, SafeShape
<1>3. CASE SaveSnapshot
  BY <1>1, <1>3, SaveSnapshotStaysSafe, SafeShape
<1>4. CASE RewriteAof
  BY <1>1, <1>4, RewriteStaysSafe, SafeShape
<1>5. CASE WriteBackData \/ CommitNames
  BY <1>1, <1>5, DiskStaysSafe, SafeShape
<1>6. CASE BeginSave \/ Restart \/ Tick
  <2>1. Survivors' = Survivors
    BY <1>6 DEF BeginSave, Restart, Tick, diskVars, Survivors
  <2> QED
    BY <1>1, <2>1, SafeShape
<1> QED
  BY <1>2, <1>3, <1>4, <1>5, <1>6 DEF Next

\* No step gives away what was safe before it, in any mode: above all not the
\* save that drops synced events (repository.py:30-33, aof.py:84-96).
THEOREM SaveGivesNothingAway == Spec => SafeStaysSafe
<1>1. ASSUME IInv, [Next]_vars
      PROVE  [\A event \in 1 .. Logged : Safe(event) => Safe(event)']_vars
  BY <1>1, StepStaysSafe
<1> QED
  BY <1>1, Invariant, PTL DEF Spec, SafeStaysSafe
==============================================================================
