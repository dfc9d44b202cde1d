----------------------------- MODULE Persistence -----------------------------
(***************************************************************************)
(* The store with its files: the append-only file every logged operation   *)
(* is appended to, the snapshot file, the two temporary files, the         *)
(* requests and the shutdown that save snapshots, and the process that     *)
(* dies and is started again.                                              *)
(*                                                                         *)
(* A save is not protected by any lock.  It exports a snapshot with the    *)
(* number of the last event in it (the marker), writes the snapshot file,  *)
(* reads the AOF and writes it again without the events up to the marker.  *)
(* Both files are written the same way: open the temporary file, whose     *)
(* name is the same for every save, write it, rename it over the file.     *)
(*                                                                         *)
(* While the process is down table and namespaceVersions keep what it held *)
(* when it died, so that the files can be compared with it.                *)
(***************************************************************************)
EXTENDS Store, AofFile

CONSTANTS
    Requests,               \* threads serving POST /admin/snapshot
    Lifespan,               \* the thread that shuts the application down
    RecoveryMode,           \* "strict" or "truncate"
    NoFile,                 \* there is no such file
    Emptied,                \* a snapshot file opened for writing, still empty
    Garbled,                \* a snapshot file that is not JSON
    WritesDuringRewrite,    \* do clients write while a save rewrites the AOF?
    WritesOnTornTail,       \* do clients write after a recovery from a torn tail,
                            \* before a save has rewritten the AOF?
    MaxSeq, MaxNow,         \* bounds on the events and the clock
    MaxRestarts             \* bound on the restarts of the process

ASSUME SettingsAssumption == /\ RecoveryMode \in {"strict", "truncate"}
                             /\ WritesDuringRewrite \in BOOLEAN
                             /\ WritesOnTornTail \in BOOLEAN
                             /\ Lifespan \notin Requests
                             /\ MaxRestarts \in Nat

\* The contents no save writes are told apart from each other and from those
\* that a save does write.
ASSUME ContentsAssumption == /\ Emptied # Garbled /\ NoFile \notin {Emptied, Garbled}
                             /\ {NoFile, Emptied, Garbled} \cap Snapshots = {}
                             /\ NoFile \notin Seq(Chunks)

Savers == Requests \cup {Lifespan}

FileNames == {"snapshot", "aof"}

VARIABLES
    status,     \* "up", "stopping" (the shutdown saves) or "down"
    file,       \* the two files; no AOF reads like an empty one
    temp,       \* the two temporary files
    saver,      \* what each thread that saves is doing
    restarts

processVars == <<status, file, temp, saver, restarts>>

vars == <<storeVars, processVars>>

\* A save: its next step, the file it is at, what it writes there, its marker
\* and where the bytes it writes go: the temporary file it opened ("temp"),
\* which another save may have renamed to the file itself ("dest") and a third
\* one replaced there ("orphan").
Idle == [pc |-> "idle", target |-> "snapshot", content |-> NoFile, marker |-> 0, handle |-> "none"]

SnapshotContents == Snapshots \cup {NoFile, Emptied, Garbled}

\* Type correctness of memory, files and saves.
TypeOK ==
    /\ StoreTypeOK
    /\ status \in {"up", "stopping", "down"}
    /\ DOMAIN file = FileNames /\ DOMAIN temp = FileNames
    /\ file["snapshot"] \in SnapshotContents /\ temp["snapshot"] \in SnapshotContents
    /\ file["aof"] \in Seq(Chunks) /\ temp["aof"] \in Seq(Chunks) \cup {NoFile}
    /\ DOMAIN saver = Savers
    /\ \A t \in Savers :
          /\ saver[t].pc \in {"idle", "open", "write", "replace", "read"}
          /\ saver[t].target \in FileNames
          /\ saver[t].content \in IF saver[t].target = "aof" THEN Seq(Chunks) ELSE SnapshotContents
          /\ saver[t].marker \in Nat
          /\ saver[t].handle \in {"none", "temp", "dest", "orphan"}
    /\ restarts \in 0 .. MaxRestarts

Init ==
    /\ StoreInit
    /\ status = "up"
    /\ file = [snapshot |-> NoFile, aof |-> <<>>]
    /\ temp = [snapshot |-> NoFile, aof |-> NoFile]
    /\ saver = [t \in Savers |-> Idle]
    /\ restarts = 0

------------------------------------------------------------------------------
(***************************************************************************)
(* Client operations.  The engine calls the logger inside its lock, so an  *)
(* operation and its append are one step; an append that straddles the     *)
(* rename of a rewritten AOF ends like one just before that rename.        *)
(***************************************************************************)

Rewriting == \E t \in Savers : saver[t].target = "aof"

MayLog ==
    /\ mutationSeq < MaxSeq
    /\ Rewriting => WritesDuringRewrite
    /\ ~Terminated(file["aof"]) => WritesOnTornTail

AppendChunks(chunks) == file' = [file EXCEPT !["aof"] = @ \o chunks]

Read(sk) ==
    /\ status = "up"
    /\ Perform(GetOutcome(sk))
    /\ UNCHANGED processVars

Mutate ==
    /\ status = "up"
    /\ MayLog
    /\ \E outcome \in MutationOutcomes :
          /\ Perform(outcome)
          /\ AppendChunks(Lines(outcome.events))
    /\ UNCHANGED <<status, temp, saver, restarts>>

Tick ==
    /\ now < MaxNow
    /\ now' = now + 1
    /\ UNCHANGED <<table, namespaceVersions, mutationSeq, processVars>>

------------------------------------------------------------------------------
(***************************************************************************)
(* SnapshotService.save_from, step by step.                                *)
(***************************************************************************)

\* export_snapshot_with_marker
BeginSave(t) ==
    saver' = [saver EXCEPT ![t] =
                [pc      |-> "open",
                 target  |-> "snapshot",
                 content |-> ExportSnapshot(table, namespaceVersions, now),
                 marker  |-> mutationSeq,
                 handle  |-> "none"]]

\* POST /admin/snapshot
RequestSave(t) ==
    /\ status = "up"
    /\ saver[t] = Idle
    /\ BeginSave(t)
    /\ UNCHANGED <<storeVars, status, file, temp, restarts>>

\* The shutdown saves once the requests have been served.
Shutdown ==
    /\ status = "up"
    /\ \A t \in Savers : saver[t] = Idle
    /\ status' = "stopping"
    /\ BeginSave(Lifespan)
    /\ UNCHANGED <<storeVars, file, temp, restarts>>

\* open(temp, "w") truncates a temporary file another save is writing.
OpenTemp(t) ==
    LET target == saver[t].target
    IN  /\ saver[t].pc = "open"
        /\ temp' = [temp EXCEPT ![target] = IF target = "aof" THEN <<>> ELSE Emptied]
        /\ saver' = [saver EXCEPT ![t].pc = "write", ![t].handle = "temp"]
        /\ UNCHANGED <<storeVars, status, file, restarts>>

\* What writing `new` from the start of a file that holds `old` can leave:
\* when `old` is longer in bytes, its rest stays behind `new`.
Overwritten(target, old, new) ==
    IF target = "snapshot"
    THEN IF old \in {Emptied, new} THEN {new} ELSE {new, Garbled}
    ELSE LET rests == {SubSeq(old, i, Len(old)) : i \in 1 .. Len(old) + 1}
         IN  IF old = <<>> THEN {new}
             ELSE UNION {{new \o rest, new \o <<Garbage>> \o rest} : rest \in rests}

\* The bytes go to the file the thread opened, wherever that has been renamed.
Written(files, t) ==
    LET target == saver[t].target
    IN  {[files EXCEPT ![target] = c] :
            c \in Overwritten(target, files[target], saver[t].content)}

WriteTemp(t) ==
    /\ saver[t].pc = "write"
    /\ temp' \in IF saver[t].handle = "temp" THEN Written(temp, t) ELSE {temp}
    /\ file' \in IF saver[t].handle = "dest" THEN Written(file, t) ELSE {file}
    /\ saver' = [saver EXCEPT ![t].pc = "replace", ![t].handle = "none"]
    /\ UNCHANGED <<storeVars, status, restarts>>

\* The threads that have the temporary or the replaced file open keep it.
Renamed(handle) ==
    CASE handle = "temp" -> "dest"
      [] handle = "dest" -> "orphan"
      [] OTHER -> handle

\* temp_path.replace(path), and what the thread does next: rewrite_after once
\* the snapshot is in place, and nothing once the AOF is.  If another save has
\* taken the temporary file away, FileNotFoundError ends the save.
Replace(t) ==
    LET target == saver[t].target
        next   == IF target = "snapshot" THEN [saver[t] EXCEPT !.pc = "read"] ELSE Idle
        others == [u \in Savers |-> IF saver[u].target = target
                                    THEN [saver[u] EXCEPT !.handle = Renamed(@)]
                                    ELSE saver[u]]
    IN  /\ saver[t].pc = "replace"
        /\ IF temp[target] = NoFile
           THEN /\ saver' = [saver EXCEPT ![t] = Idle]
                /\ UNCHANGED <<file, temp>>
           ELSE /\ file' = [file EXCEPT ![target] = temp[target]]
                /\ temp' = [temp EXCEPT ![target] = NoFile]
                /\ saver' = [others EXCEPT ![t] = next]
        /\ UNCHANGED <<storeVars, status, restarts>>

\* Mutant: what is dropped are the events up to now, not up to the snapshot.
ReadAofLate(t) ==
    LET retained == EventsAfter(ReadEvents(file["aof"]), mutationSeq)
    IN  /\ saver[t].pc = "read"
        /\ saver' = [saver EXCEPT ![t] =
                       [@ EXCEPT !.pc = "open", !.target = "aof", !.content = Lines(retained)]]
        /\ UNCHANGED <<storeVars, status, file, temp, restarts>>

\* rewrite_after reads the whole AOF before it opens the temporary file; an
\* AofCorruptionError ends the save.
ReadAof(t) ==
    LET retained == EventsAfter(ReadEvents(file["aof"]), saver[t].marker)
    IN  /\ saver[t].pc = "read"
        /\ saver' = [saver EXCEPT ![t] =
                       IF Readable(file["aof"], RecoveryMode)
                       THEN [@ EXCEPT !.pc = "open", !.target = "aof", !.content = Lines(retained)]
                       ELSE Idle]
        /\ UNCHANGED <<storeVars, status, file, temp, restarts>>

SaveStep(t) == OpenTemp(t) \/ WriteTemp(t) \/ Replace(t) \/ ReadAof(t)

------------------------------------------------------------------------------
(***************************************************************************)
(* Stops and restarts.                                                     *)
(***************************************************************************)

NoSaves == saver' = [t \in Savers |-> Idle]

\* The shutdown is over; so it is when its save failed.
Exit ==
    /\ status = "stopping"
    /\ saver[Lifespan] = Idle
    /\ status' = "down"
    /\ UNCHANGED <<storeVars, file, temp, saver, restarts>>

\* The process is killed, or ends itself with os._exit, between two steps.
Crash ==
    /\ status \in {"up", "stopping"}
    /\ status' = "down"
    /\ NoSaves
    /\ UNCHANGED <<storeVars, file, temp, restarts>>

\* It is killed in the middle of an append: the file has part of the event, or
\* the event without its newline.  The client has no answer in either case;
\* the operation counts as done if the whole event is there.
CrashInAppend ==
    /\ status = "up"
    /\ MayLog
    /\ \E outcome \in MutationOutcomes :
          /\ outcome.events # <<>>
          /\ \/ /\ AppendChunks(<<Cut(outcome.events[1])>>)
                /\ UNCHANGED storeVars
             \/ /\ AppendChunks(<<Unterminated(outcome.events[1])>>)
                /\ Perform(outcome)
    /\ status' = "down"
    /\ NoSaves
    /\ UNCHANGED <<temp, restarts>>

\* load_into and replay_into raise nothing.
CanStart ==
    /\ file["snapshot"] \notin {Emptied, Garbled}
    /\ Readable(file["aof"], RecoveryMode)

Loaded == IF file["snapshot"] = NoFile THEN EmptySnapshot ELSE file["snapshot"]

\* What replay_into starts from: the imported snapshot, exported again.
Base == ExportSnapshot(Loaded.entries, Loaded.versions, now)

Replayed == ApplyEvents(Base, ReadEvents(file["aof"]))

\* Mutant: the AOF is read for its sequence numbers and never imported.
NotImported == {Loaded.entries}

\* The table after load_into and replay_into.  A replay that changes nothing is
\* not imported, unless its equal entries come in another order.
Imported == IF Replayed = Base THEN {Loaded.entries, Base.entries} ELSE {Replayed.entries}

\* Mutant: a restarted engine numbers its events from 1 again.
ForgottenSeq == 0

\* restore_mutation_seq, in an engine that starts from 0.
RestoredSeq == Larger(0, MaxSeqOf(ReadEvents(file["aof"])))

\* Startup changes no file, so a startup that fails leaves everything as it is.
Restart ==
    /\ status = "down"
    /\ restarts < MaxRestarts
    /\ CanStart
    /\ status' = "up"
    /\ table' \in Imported
    /\ namespaceVersions' = Replayed.versions
    /\ mutationSeq' = RestoredSeq
    /\ restarts' = restarts + 1
    /\ UNCHANGED <<now, file, temp, saver>>

Next ==
    \/ \E sk \in StorageKeys : Read(sk)
    \/ Mutate
    \/ \E t \in Requests : RequestSave(t)
    \/ \E t \in Savers : SaveStep(t)
    \/ Shutdown
    \/ Exit
    \/ Crash
    \/ CrashInAppend
    \/ Restart
    \/ Tick

Spec == Init /\ [][Next]_vars

------------------------------------------------------------------------------
(***************************************************************************)
(* Properties.                                                             *)
(***************************************************************************)

\* At every moment, also between any two steps of a save and after a crash in
\* the middle of an append, the files start a process that shows clients what
\* they saw last: every answered write is there, with its deadline and its
\* creation time, and nothing that was deleted, invalidated or expired is
\* back.
Recoverable ==
    /\ CanStart
    /\ Replayed.versions = namespaceVersions
    /\ LiveView(Replayed.entries, Replayed.versions, now) =
          LiveView(table, namespaceVersions, now)

\* The AOF holds its events in the order of their sequence numbers, none
\* newer than the engine's own.  rewrite_after tells what the snapshot lacks
\* by these numbers alone, so a restart that numbers events anew, or a rewrite
\* that reorders them, would lose writes at a later save.
NumberedInOrder ==
    LET events == ReadEvents(file["aof"])
    IN  /\ \A i, j \in DOMAIN events : i < j => events[i].seq < events[j].seq
        /\ status # "down" => \A i \in DOMAIN events : events[i].seq <= mutationSeq

\* A snapshot file is the whole of some snapshot, or there is none: the
\* temporary file is renamed only when it has been written to its end.
SnapshotWhole == file["snapshot"] \notin {Emptied, Garbled}

\* The process with its files keeps the promise of DurableStore: a crash, a
\* shutdown, a save and a restart change nothing a client can see.
KeepsPromise == Promise!Spec
==============================================================================
