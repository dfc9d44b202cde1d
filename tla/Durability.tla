------------------------------ MODULE Durability ------------------------------
(***************************************************************************)
(* What the files hold when the machine, not only the process, may stop:   *)
(* the fsync policies of the append-only file, the save that replaces      *)
(* snapshot and AOF, and the process that is killed and started again.     *)
(*                                                                         *)
(* Events are numbered from 1 as they are logged, and all write the same   *)
(* record, which is the worst case for a replay over a newer snapshot.  A  *)
(* snapshot is the number of the last event in it.  An AOF holds the       *)
(* events after `base` up to `last`, of which the disk has those up to     *)
(* `synced` at least.                                                      *)
(*                                                                         *)
(* Losing power is not an action: the properties say, in every state, what *)
(* a start would recover if power were lost there.  The file system is     *)
(* external: it keeps renames in order, an fsync makes the earlier ones    *)
(* permanent, a file that replaces another is on disk before its name is,  *)
(* and of an appended file a prefix survives (the recovery truncates).     *)
(***************************************************************************)
EXTENDS Integers, Sequences

CONSTANTS
    SyncInterval,   \* the second of everysec, in ticks
    MaxEvents,      \* bound on the events
    MaxClock,       \* bound on the clock
    MaxSaves        \* bound on the saves

ASSUME DurabilityBounds ==
    /\ SyncInterval \in Nat \ {0}
    /\ MaxEvents \in Nat /\ MaxClock \in Nat /\ MaxSaves \in Nat

VARIABLES
    mode,           \* fsync_mode
    clock,          \* time.monotonic()
    lastFsyncAt,    \* _last_fsync_at of this process
    aof,            \* the AOF
    snapshot,       \* the snapshot file
    saver,          \* the save under way and its marker
    saves,
    snapshots,      \* disk: the snapshot files the name may lead to
    replaced,       \* disk: files before a rewrite the names may lead to
    appendedAt,     \* history: when each event was logged
    fsynced,        \* history: the events that an append has synced
    syncedAt        \* history: when a process last called fsync on the AOF

codeVars    == <<mode, clock, lastFsyncAt, aof, snapshot, saver, saves>>
diskVars    == <<snapshots, replaced>>
historyVars == <<appendedAt, fsynced, syncedAt>>
vars == <<codeVars, diskVars, historyVars>>

Logged == Len(appendedAt)

Idle == [pc |-> "idle", marker |-> 0]

\* The machine has been up for a while when the first process starts.
Init ==
    /\ mode \in {"always", "everysec", "no"}
    /\ clock = SyncInterval
    /\ lastFsyncAt = 0
    /\ aof = [base |-> 0, synced |-> 0, last |-> 0]
    /\ snapshot = 0
    /\ saver = Idle
    /\ saves = 0
    /\ snapshots = {0}
    /\ replaced = {}
    /\ appendedAt = <<>>
    /\ fsynced = 0
    /\ syncedAt = 0

------------------------------------------------------------------------------
(***************************************************************************)
(* Appends.                                                                *)
(***************************************************************************)

\* Mutant: the policy always is taken for everysec.
FsyncOncePerInterval == mode # "no" /\ clock - lastFsyncAt >= SyncInterval

\* _flush_for_policy: does this append call fsync?
FsyncDue ==
    \/ mode = "always"
    \/ mode = "everysec" /\ clock - lastFsyncAt >= SyncInterval

\* Mutant: what is kept is when the next fsync is due.
NextFsyncAt == clock + SyncInterval

FsyncedAt == clock

\* An fsync makes the renames before it permanent.
SettleNames == snapshots' = {snapshot} /\ replaced' = {}

AppendSynced ==
    /\ FsyncDue
    /\ aof' = [aof EXCEPT !.last = Logged + 1, !.synced = Logged + 1]
    /\ lastFsyncAt' = FsyncedAt
    /\ SettleNames
    /\ fsynced' = Logged + 1
    /\ syncedAt' = clock

\* The file is closed, so the page cache has the event and the process may die.
AppendBuffered ==
    /\ ~FsyncDue
    /\ aof' = [aof EXCEPT !.last = Logged + 1]
    /\ UNCHANGED <<lastFsyncAt, diskVars, fsynced, syncedAt>>

AppendEvent ==
    /\ Logged < MaxEvents
    /\ AppendSynced \/ AppendBuffered
    /\ appendedAt' = Append(appendedAt, clock)
    /\ UNCHANGED <<mode, clock, snapshot, saver, saves>>

------------------------------------------------------------------------------
(***************************************************************************)
(* Saves, one at a time and with no append between reading and renaming    *)
(* the AOF: Persistence.tla has both cases.                                *)
(***************************************************************************)

\* export_snapshot_with_marker
BeginSave ==
    /\ saver = Idle
    /\ saves < MaxSaves
    /\ saver' = [pc |-> "snapshot", marker |-> Logged]
    /\ saves' = saves + 1
    /\ UNCHANGED <<mode, clock, lastFsyncAt, aof, snapshot, diskVars, historyVars>>

\* SnapshotRepository.save: written, renamed, nothing synced.
SaveSnapshot ==
    /\ saver.pc = "snapshot"
    /\ snapshot' = saver.marker
    /\ snapshots' = snapshots \cup {saver.marker}
    /\ saver' = [saver EXCEPT !.pc = "aof"]
    /\ UNCHANGED <<mode, clock, lastFsyncAt, aof, saves, replaced, historyVars>>

\* Mutant: the events up to now are dropped, not those up to the snapshot.
RewriteToNow ==
    /\ saver.pc = "aof"
    /\ aof' = [base |-> aof.last, synced |-> aof.last, last |-> aof.last]
    /\ replaced' = {[snapshot |-> snapshot, aof |-> aof]}
    /\ snapshots' = {snapshot}
    /\ lastFsyncAt' = FsyncedAt
    /\ syncedAt' = clock
    /\ saver' = Idle
    /\ UNCHANGED <<mode, clock, snapshot, saves, appendedAt, fsynced>>

\* rewrite_after and rewrite: the events after the marker are synced in the
\* temporary file, which then replaces the AOF; that rename is not synced.
RewriteAof ==
    /\ saver.pc = "aof"
    /\ aof' = [base |-> saver.marker, synced |-> aof.last, last |-> aof.last]
    /\ replaced' = {[snapshot |-> snapshot, aof |-> aof]}
    /\ snapshots' = {snapshot}
    /\ lastFsyncAt' = FsyncedAt
    /\ syncedAt' = clock
    /\ saver' = Idle
    /\ UNCHANGED <<mode, clock, snapshot, saves, appendedAt, fsynced>>

------------------------------------------------------------------------------
(***************************************************************************)
(* The process, the kernel, the clock.                                     *)
(***************************************************************************)

\* Mutant: a new process takes its start for the last fsync.
RestartSynced ==
    /\ <<saver, lastFsyncAt>> # <<Idle, clock>>
    /\ saver' = Idle
    /\ lastFsyncAt' = clock
    /\ UNCHANGED <<mode, clock, aof, snapshot, saves, diskVars, historyVars>>

\* The process dies, also within a save, and another one starts; it does not
\* know when its predecessor last called fsync.
Restart ==
    /\ <<saver, lastFsyncAt>> # <<Idle, 0>>
    /\ saver' = Idle
    /\ lastFsyncAt' = 0
    /\ UNCHANGED <<mode, clock, aof, snapshot, saves, diskVars, historyVars>>

\* The kernel writes some of the AOF's cached pages back.
WriteBackData ==
    /\ \E n \in aof.synced + 1 .. aof.last : aof' = [aof EXCEPT !.synced = n]
    /\ UNCHANGED <<mode, clock, lastFsyncAt, snapshot, saver, saves, diskVars, historyVars>>

\* The file system commits renames, the oldest first.
CommitNames ==
    /\ \E oldest \in snapshots : snapshots' = {s \in snapshots : s >= oldest}
    /\ replaced' = {}
    /\ UNCHANGED <<codeVars, historyVars>>

Tick ==
    /\ clock < MaxClock
    /\ clock' = clock + 1
    /\ UNCHANGED <<mode, lastFsyncAt, aof, snapshot, saver, saves, diskVars, historyVars>>

Next ==
    \/ AppendEvent
    \/ BeginSave \/ SaveSnapshot \/ RewriteAof
    \/ Restart
    \/ WriteBackData \/ CommitNames
    \/ Tick

Spec == Init /\ [][Next]_vars

------------------------------------------------------------------------------
(***************************************************************************)
(* Properties.                                                             *)
(***************************************************************************)

AofFiles == {f \in [base : Nat, synced : Nat, last : Nat] : f.base <= f.synced /\ f.synced <= f.last}

\* Type correctness of process, files and disk.
TypeOK ==
    /\ mode \in {"always", "everysec", "no"}
    /\ clock \in Nat
    /\ lastFsyncAt \in 0 .. clock
    /\ aof \in AofFiles
    /\ snapshot \in 0 .. Logged
    /\ saver \in [pc : {"idle", "snapshot", "aof"}, marker : 0 .. Logged]
    /\ saves \in Nat
    /\ snapshots \subseteq 0 .. Logged
    /\ replaced \subseteq [snapshot : 0 .. Logged, aof : AofFiles]
    /\ appendedAt \in Seq(0 .. clock)
    /\ fsynced \in 0 .. Logged
    /\ syncedAt \in 0 .. clock

\* What a power loss can leave: a snapshot and an AOF.
Survivors == {[snapshot |-> s, aof |-> aof] : s \in snapshots} \cup replaced

\* The event whose value a start recovers from what is left.  The replay knows
\* no marker: an AOF with some event takes the record back to its last one,
\* whether the snapshot is newer or not.
Recovered(survivor, last) == IF last > survivor.aof.base THEN last ELSE survivor.snapshot

Recoveries ==
    UNION {{Recovered(survivor, last) : last \in survivor.aof.synced .. survivor.aof.last} :
              survivor \in Survivors}

\* With appendfsync always an answered write survives the loss of power at any
\* moment: between the two renames of a save, after a rewrite that nobody
\* synced the name of, and in a process that was just started (aof.py:107-110).
AlwaysKeeps == mode = "always" => Recoveries \subseteq {Logged}

\* With everysec (aof.py:112-117) a loss of power takes only events that no
\* append has synced and that were logged less than a second after the last
\* fsync, across restarts of the process and saves.  They may stay unsynced for
\* as long as no other append comes.
LossBounded ==
    mode = "everysec" =>
        \A r \in Recoveries : \A i \in r + 1 .. Logged :
            i > fsynced /\ appendedAt[i] < syncedAt + SyncInterval

\* An event that a loss of power cannot take, it never can again: the save, which
\* replaces a synced AOF by files that are synced at other moments or not at all
\* (repository.py:30-33, aof.py:84-96), gives nothing away in any mode.
Safe(event) == \A r \in Recoveries : event <= r
SafeStaysSafe == [][\A event \in 1 .. Logged : Safe(event) => Safe(event)']_vars
==============================================================================
