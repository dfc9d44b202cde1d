-------------------------- MODULE PersistenceProofs --------------------------
(***************************************************************************)
(* Proofs about Persistence, for all namespaces, keys, values, times to    *)
(* live, amounts and bounds.                                               *)
(***************************************************************************)
EXTENDS Persistence, StoreProofs, Iteration, SequenceTheorems

------------------------------------------------------------------------------
(***************************************************************************)
(* The inductive invariant.                                                *)
(***************************************************************************)

\* What is asked of the settings.  A torn tail is cut off and not refused; no
\* client writes while a save rewrites the AOF, nor behind a torn tail; and one
\* request at most saves at a time.  The runs rewrite_race, torn_tail and
\* two_saves show that the last three are needed.
Supported ==
    /\ RecoveryMode = "truncate"
    /\ ~WritesDuringRewrite
    /\ ~WritesOnTornTail
    /\ \A r, s \in Requests : r = s

\* The records of a table are no newer than their namespaces.
NotAhead(t, versions) ==
    \A sk \in StorageKeys : t[sk] # Missing => t[sk].version <= versions[sk[1]]

\* A snapshot with the live records of another one, and else with dead ones.
Shows(s, of, at) ==
    /\ s \in Snapshots
    /\ s.versions = of.versions
    /\ NotAhead(s.entries, s.versions)
    /\ \A sk \in StorageKeys :
          IF IsLive(of.entries, of.versions, at, sk)
          THEN s.entries[sk] = of.entries[sk]
          ELSE ~IsLive(s.entries, s.versions, at, sk)

\* What the engine holds, as a replay would leave it.
Memory == [entries |-> table, versions |-> namespaceVersions]

Agrees(s) == Shows(s, Memory, now)

\* Versions only grow, so a record that is dead under the versions of a
\* snapshot stays dead.
NotNewer(s) ==
    /\ s \in Snapshots
    /\ \A ns \in Namespaces : s.versions[ns] <= namespaceVersions[ns]
    /\ NotAhead(s.entries, namespaceVersions)

\* A snapshot that the events take to what clients see.
Faithful(s, events) == NotNewer(s) /\ Agrees(ApplyEvents(s, events))

\* A snapshot that lacks nothing of another one but dead records.
Trimmed(s, of, at) ==
    /\ s.versions = of.versions
    /\ \A sk \in StorageKeys :
          \/ s.entries[sk] = of.entries[sk]
          \/ s.entries[sk] = Missing /\ ~IsLive(of.entries, of.versions, at, sk)

\* The marker tells the first n events from the others.
Splits(events, marker, n) ==
    /\ \A i \in 1 .. n : events[i].seq <= marker
    /\ \A i \in n + 1 .. Len(events) : events[i].seq > marker

\* A snapshot has the events up to the marker in it: they change it no more.
Covers(s, marker, events) ==
    \E n \in 0 .. Len(events) :
       Splits(events, marker, n) /\ Trimmed(s, Replays(s, events)[n], now)

Ascending(events) ==
    \A i, j \in DOMAIN events : i < j => events[i].seq < events[j].seq

\* Events in their order, none newer than the engine's own.
Numbered(events) ==
    Ascending(events) /\ \A i \in DOMAIN events : events[i].seq <= mutationSeq

\* Every chunk is a line, or every one but the last, which an append has torn.
Whole(f) == \A i \in DOMAIN f : f[i].form = "line"

TornAtEnd(f) ==
    \A i \in DOMAIN f : f[i].form = "line" \/ (i = Len(f) /\ f[i].form \in {"cut", "unterminated"})

AofEvents == ReadEvents(file["aof"])

\* The files recover what clients see.
FilesAgree ==
    /\ SnapshotWhole
    /\ TornAtEnd(file["aof"])
    /\ Numbered(AofEvents)
    /\ Faithful(Loaded, AofEvents)

\* The bytes of a save that has opened its temporary file go there, and when it
\* has written them, all of them are there.
BytesInPlace(t) ==
    LET target == saver[t].target
    IN  /\ saver[t].pc = "write" => /\ saver[t].handle = "temp"
                                    /\ temp[target] = IF target = "aof" THEN <<>> ELSE Emptied
        /\ saver[t].pc = "replace" => temp[target] = saver[t].content

SavesSnapshot(t) ==
    /\ saver[t].target = "snapshot"
    /\ saver[t].pc \in {"open", "write", "replace"}
    /\ BytesInPlace(t)
    /\ Faithful(saver[t].content, AofEvents)
    /\ Covers(saver[t].content, saver[t].marker, AofEvents)
    /\ saver[t].marker <= mutationSeq

HasSnapshot(t) ==
    /\ saver[t].target = "snapshot"
    /\ saver[t].pc = "read"
    /\ Covers(Loaded, saver[t].marker, AofEvents)
    /\ saver[t].marker <= mutationSeq

RewritesAof(t) ==
    /\ saver[t].target = "aof"
    /\ saver[t].pc \in {"open", "write", "replace"}
    /\ BytesInPlace(t)
    /\ Whole(saver[t].content)
    /\ Numbered(ReadEvents(saver[t].content))
    /\ Agrees(ApplyEvents(Loaded, ReadEvents(saver[t].content)))

\* One thread saves at a time: a request while the process is up, the shutdown
\* while it stops.
OneSaver ==
    /\ status = "up" => saver[Lifespan] = Idle
    /\ status = "stopping" => \A r \in Requests : saver[r] = Idle
    /\ status = "down" => \A t \in Savers : saver[t] = Idle

SaveAgrees(t) == saver[t] = Idle \/ SavesSnapshot(t) \/ HasSnapshot(t) \/ RewritesAof(t)

SavesAgree == \A t \in Savers : SaveAgrees(t)

\* Type correctness as a step needs it: what a file that is there can hold, and
\* that a thread finds the file it has open there.
Contents(name) == IF name = "aof" THEN Seq(Chunks) ELSE Snapshots \cup {Emptied, Garbled}

FileContents == SnapshotContents \cup Seq(Chunks)

Files == {f \in [FileNames -> FileContents] :
             \A name \in FileNames : f[name] = NoFile \/ f[name] \in Contents(name)}

Save == [pc      : {"idle", "open", "write", "replace", "read"},
         target  : FileNames,
         content : FileContents,
         marker  : Nat,
         handle  : {"none", "temp", "dest", "orphan"}]

Saving(s, files, temps) ==
    /\ s.pc # "idle"
    /\ s.content \in Contents(s.target)
    /\ s.pc # "write" => s.handle = "none"
    /\ s.handle = "temp" => temps[s.target] # NoFile
    /\ s.handle = "dest" => files[s.target] # NoFile

Types ==
    /\ StoreTypeOK
    /\ status \in {"up", "stopping", "down"}
    /\ file \in Files /\ file["aof"] # NoFile
    /\ temp \in Files
    /\ saver \in [Savers -> Save]
    /\ \A t \in Savers : saver[t] = Idle \/ Saving(saver[t], file, temp)
    /\ restarts \in 0 .. MaxRestarts

IInv ==
    /\ Supported
    /\ Types
    /\ NotAhead(table, namespaceVersions)
    /\ FilesAgree
    /\ OneSaver
    /\ SavesAgree

------------------------------------------------------------------------------
(***************************************************************************)
(* The recursive definitions of AofFile are good ones.                     *)
(***************************************************************************)

\* One step of the recursive definition of Picks.
PickNext(seq, positions, f) ==
    [n \in 0 .. Len(seq) |->
        IF n = 0 THEN <<>>
        ELSE IF n \in positions THEN Append(f[n - 1], seq[n]) ELSE f[n - 1]]

LEMMA PickNextUnfolds ==
  ASSUME NEW seq, Len(seq) \in Nat, NEW positions, NEW f, f = PickNext(seq, positions, f)
  PROVE  /\ f[0] = <<>>
         /\ \A n \in 1 .. Len(seq) :
               f[n] = IF n \in positions THEN Append(f[n - 1], seq[n]) ELSE f[n - 1]
<1> DEFINE Kept(n) == IF n \in positions THEN Append(f[n - 1], seq[n]) ELSE f[n - 1]
<1> HIDE DEF Kept
<1>1. f = [n \in 0 .. Len(seq) |-> IF n = 0 THEN <<>> ELSE Kept(n)]
  BY DEF PickNext, Kept
<1>2. f[0] = <<>> /\ \A n \in 1 .. Len(seq) : f[n] = Kept(n)
  BY <1>1
<1> QED
  BY <1>2 DEF Kept

LEMMA PicksIs ==
  ASSUME NEW T, NEW seq, Len(seq) \in Nat, NEW positions,
         \A n \in 1 .. Len(seq) : n \in positions => seq[n] \in T
  PROVE  /\ \A n \in 0 .. Len(seq) : Picks(seq, positions)[n] \in Seq(T)
         /\ Picks(seq, positions)[0] = <<>>
         /\ \A n \in 1 .. Len(seq) :
               Picks(seq, positions)[n] =
                 IF n \in positions THEN Append(Picks(seq, positions)[n - 1], seq[n])
                 ELSE Picks(seq, positions)[n - 1]
<1> DEFINE N == Len(seq)
           S == Seq(T)
           g == [n \in 1 .. N |-> [x \in S |-> IF n \in positions THEN Append(x, seq[n]) ELSE x]]
           P == Picks(seq, positions)
<1>1. <<>> \in S
  BY EmptySeq
<1>2. N \in Nat
  OBVIOUS
<1>3. ASSUME NEW n \in 1 .. N, NEW x \in S
      PROVE  (IF n \in positions THEN Append(x, seq[n]) ELSE x) \in S
  BY AppendProperties
<1> HIDE DEF S, N
<1>4. g \in [1 .. N -> [S -> S]]
  BY <1>3
<1>5. \A n \in 1 .. N : \A x \in S :
         g[n][x] = IF n \in positions THEN Append(x, seq[n]) ELSE x
  OBVIOUS
<1> HIDE DEF g
<1>6. PICK f : f \in LoopResults(S, <<>>, N, g)
  BY <1>1, <1>2, <1>4, LoopExists
<1> f \in [0 .. N -> S]
  BY <1>6 DEF LoopResults
<1>7. f = PickNext(seq, positions, f)
  <2>1. ASSUME NEW n \in 1 .. N
        PROVE  f[n] = IF n \in positions THEN Append(f[n - 1], seq[n]) ELSE f[n - 1]
    <3>1. f[n - 1] \in S
      BY <1>2
    <3>2. f[n] = g[n][f[n - 1]]
      BY <1>6 DEF LoopResults
    <3> QED
      BY <1>5, <3>1, <3>2
  <2>2. ASSUME NEW n \in 0 .. N
        PROVE  f[n] = IF n = 0 THEN <<>>
                      ELSE IF n \in positions THEN Append(f[n - 1], seq[n]) ELSE f[n - 1]
    <3>1. CASE n = 0
      BY <1>6, <3>1 DEF LoopResults
    <3>2. CASE n # 0
      <4>1. n \in 1 .. N
        BY <1>2, <3>2
      <4> QED
        BY <2>1, <3>2, <4>1
    <3> QED
      BY <3>1, <3>2
  <2>3. f = [n \in 0 .. N |-> f[n]]
    OBVIOUS
  <2> QED
    BY <2>2, <2>3, Zenon DEF PickNext, N
<1>8. P = PickNext(seq, positions, P)
  <2>1. P = CHOOSE h : h = PickNext(seq, positions, h)
    BY DEF Picks, PickNext
  <2> QED
    BY <1>7, <2>1
<1> HIDE DEF P
<1>9. /\ P[0] = <<>>
      /\ \A n \in 1 .. N : P[n] = IF n \in positions THEN Append(P[n - 1], seq[n]) ELSE P[n - 1]
  BY <1>2, <1>8, PickNextUnfolds DEF N
<1> DEFINE Good == {n \in 0 .. N : P[n] \in S}
<1>10. 0 \in Good
  BY <1>1, <1>2, <1>9
<1>11. ASSUME NEW n \in 1 .. N, n - 1 \in Good PROVE n \in Good
  <2>1. (IF n \in positions THEN Append(P[n - 1], seq[n]) ELSE P[n - 1]) \in S
    BY <1>3, <1>11
  <2> QED
    BY <1>2, <1>9, <2>1
<1>12. \A n \in 0 .. N : n \in Good
  <2> HIDE DEF Good
  <2> QED
    BY <1>2, <1>10, <1>11, UpTo
<1> QED
  BY <1>9, <1>12 DEF P, N, S

\* One step of the recursive definition of Replays.
ReplayNext(snapshot, events, f) ==
    [n \in 0 .. Len(events) |-> IF n = 0 THEN snapshot ELSE ApplyEvent(f[n - 1], events[n])]

LEMMA ReplayNextUnfolds ==
  ASSUME NEW snapshot, NEW events, Len(events) \in Nat,
         NEW f, f = ReplayNext(snapshot, events, f)
  PROVE  /\ f[0] = snapshot
         /\ \A n \in 1 .. Len(events) : f[n] = ApplyEvent(f[n - 1], events[n])
<1>1. f = [n \in 0 .. Len(events) |-> IF n = 0 THEN snapshot ELSE ApplyEvent(f[n - 1], events[n])]
  BY DEF ReplayNext
<1> QED
  BY <1>1

\* A replayed event makes a snapshot of a snapshot.
LEMMA ApplyEventType ==
  ASSUME NEW s \in Snapshots, NEW e \in Events
  PROVE  ApplyEvent(s, e) \in Snapshots
<1>1. /\ s = [entries |-> s.entries, versions |-> s.versions]
      /\ s.entries \in Tables /\ s.versions \in Versions
  BY DEF Snapshots
<1>2. CASE e \in [op : {"upsert"}, seq : Nat, key : StorageKeys, record : Record]
  <2>1. e.op = "upsert" /\ e.key[1] \in Namespaces /\ e.key \in StorageKeys /\ e.record \in Record
    BY <1>2, NamespaceOfKey
  <2>2. Larger(s.versions[e.key[1]], e.record.version) \in Nat
    BY <1>1, <2>1 DEF Larger, Versions, Record
  <2>3. /\ [s.entries EXCEPT ![e.key] = e.record] \in Tables
        /\ [s.versions EXCEPT ![e.key[1]] = Larger(@, e.record.version)] \in Versions
    BY <1>1, <2>1, <2>2 DEF Tables, Versions
  <2>4. ApplyEvent(s, e) = [entries  |-> [s.entries EXCEPT ![e.key] = e.record],
                            versions |-> [s.versions EXCEPT ![e.key[1]] =
                                            Larger(@, e.record.version)]]
    BY <2>1 DEF ApplyEvent
  <2> QED
    BY <2>3, <2>4 DEF Snapshots
<1>3. CASE e \in [op : {"delete"}, seq : Nat, key : StorageKeys]
  <2>1. ApplyEvent(s, e) = [s EXCEPT !.entries[e.key] = Missing]
    BY <1>3 DEF ApplyEvent
  <2>2. [s.entries EXCEPT ![e.key] = Missing] \in Tables
    BY <1>1, <1>3 DEF Tables
  <2> QED
    BY <1>1, <2>1, <2>2 DEF Snapshots
<1>4. CASE e \in [op : {"invalidate"}, seq : Nat, namespace : Namespaces, version : Nat]
  <2>1. ApplyEvent(s, e) = [s EXCEPT !.versions[e.namespace] = e.version]
    BY <1>4 DEF ApplyEvent
  <2>2. [s.versions EXCEPT ![e.namespace] = e.version] \in Versions
    BY <1>1, <1>4 DEF Versions
  <2> QED
    BY <1>1, <2>1, <2>2 DEF Snapshots
<1> QED
  BY <1>2, <1>3, <1>4 DEF Events

LEMMA ReplaysIs ==
  ASSUME NEW s \in Snapshots, NEW E \in Seq(Events)
  PROVE  /\ \A n \in 0 .. Len(E) : Replays(s, E)[n] \in Snapshots
         /\ Replays(s, E)[0] = s
         /\ \A n \in 1 .. Len(E) : Replays(s, E)[n] = ApplyEvent(Replays(s, E)[n - 1], E[n])
<1> DEFINE N == Len(E)
           g == [n \in 1 .. N |-> [x \in Snapshots |-> ApplyEvent(x, E[n])]]
           R == Replays(s, E)
<1>2. N \in Nat
  BY LenProperties
<1>3. ASSUME NEW n \in 1 .. N, NEW x \in Snapshots
      PROVE  ApplyEvent(x, E[n]) \in Snapshots
  BY ApplyEventType, ElementOfSeq
<1> HIDE DEF N
<1>4. g \in [1 .. N -> [Snapshots -> Snapshots]]
  BY <1>3
<1>5. \A n \in 1 .. N : \A x \in Snapshots : g[n][x] = ApplyEvent(x, E[n])
  OBVIOUS
<1> HIDE DEF g
<1>6. PICK f : f \in LoopResults(Snapshots, s, N, g)
  BY <1>2, <1>4, LoopExists
<1> f \in [0 .. N -> Snapshots]
  BY <1>6 DEF LoopResults
<1>7. f = ReplayNext(s, E, f)
  <2>1. ASSUME NEW n \in 1 .. N
        PROVE  f[n] = ApplyEvent(f[n - 1], E[n])
    <3>1. f[n - 1] \in Snapshots
      BY <1>2
    <3>2. f[n] = g[n][f[n - 1]]
      BY <1>6 DEF LoopResults
    <3> QED
      BY <1>5, <3>1, <3>2
  <2>2. ASSUME NEW n \in 0 .. N
        PROVE  f[n] = IF n = 0 THEN s ELSE ApplyEvent(f[n - 1], E[n])
    <3>1. CASE n = 0
      BY <1>6, <3>1 DEF LoopResults
    <3>2. CASE n # 0
      <4>1. n \in 1 .. N
        BY <1>2, <3>2
      <4> QED
        BY <2>1, <3>2, <4>1
    <3> QED
      BY <3>1, <3>2
  <2>3. f = [n \in 0 .. N |-> f[n]]
    OBVIOUS
  <2> QED
    BY <2>2, <2>3, Zenon DEF ReplayNext, N
<1>8. R = ReplayNext(s, E, R)
  <2>1. R = CHOOSE h : h = ReplayNext(s, E, h)
    BY DEF Replays, ReplayNext
  <2> QED
    BY <1>7, <2>1
<1> HIDE DEF R
<1>9. R[0] = s /\ \A n \in 1 .. N : R[n] = ApplyEvent(R[n - 1], E[n])
  BY <1>2, <1>8, ReplayNextUnfolds DEF N
<1> DEFINE Good == {n \in 0 .. N : R[n] \in Snapshots}
<1>10. 0 \in Good
  BY <1>2, <1>9
<1>11. ASSUME NEW n \in 1 .. N, n - 1 \in Good PROVE n \in Good
  BY <1>2, <1>3, <1>9, <1>11
<1>12. \A n \in 0 .. N : n \in Good
  <2> HIDE DEF Good
  <2> QED
    BY <1>2, <1>10, <1>11, UpTo
<1> QED
  BY <1>9, <1>12 DEF R, N

------------------------------------------------------------------------------
(***************************************************************************)
(* Reading a file.                                                         *)
(***************************************************************************)

\* What is picked from a sequence is of the kind of the elements picked.
LEMMA PickedType ==
  ASSUME NEW T, NEW seq, Len(seq) \in Nat, NEW positions,
         \A n \in 1 .. Len(seq) : n \in positions => seq[n] \in T
  PROVE  Picked(seq, positions) \in Seq(T)
BY PicksIs DEF Picked

\* Picking a range of positions gives that part of the sequence.
LEMMA PickedRange ==
  ASSUME NEW T, NEW seq \in Seq(T), NEW positions,
         NEW a \in 0 .. Len(seq), NEW b \in a .. Len(seq),
         \A n \in 1 .. Len(seq) : n \in positions <=> a < n /\ n <= b
  PROVE  /\ Picked(seq, positions) \in Seq(T)
         /\ Len(Picked(seq, positions)) = b - a
         /\ \A i \in 1 .. b - a : Picked(seq, positions)[i] = seq[a + i]
<1> DEFINE N == Len(seq)
           P == Picks(seq, positions)
           C(n) == IF n <= a THEN 0 ELSE IF n <= b THEN n - a ELSE b - a
           Good == {n \in 0 .. N : /\ Len(P[n]) = C(n)
                                   /\ \A i \in 1 .. C(n) : P[n][i] = seq[a + i]}
<1>1. N \in Nat /\ \A n \in 1 .. N : seq[n] \in T
  BY LenProperties, ElementOfSeq
<1>2. /\ \A n \in 0 .. N : P[n] \in Seq(T)
      /\ P[0] = <<>>
      /\ \A n \in 1 .. N :
            P[n] = IF n \in positions THEN Append(P[n - 1], seq[n]) ELSE P[n - 1]
  BY <1>1, PicksIs
<1> HIDE DEF P, N
<1>3. a \in 0 .. N /\ b \in a .. N /\ \A n \in 1 .. N : n \in positions <=> a < n /\ n <= b
  BY DEF N
<1>4. 0 \in Good
  BY <1>1, <1>2, <1>3, EmptySeq
<1>5. ASSUME NEW n \in 1 .. N, n - 1 \in Good PROVE n \in Good
  <2>1. /\ n - 1 \in 0 .. N /\ n \in 0 .. N /\ P[n - 1] \in Seq(T) /\ seq[n] \in T
        /\ Len(P[n - 1]) = C(n - 1)
        /\ \A i \in 1 .. C(n - 1) : P[n - 1][i] = seq[a + i]
    BY <1>1, <1>2, <1>5
  <2>2. CASE a < n /\ n <= b
    <3>1. P[n] = Append(P[n - 1], seq[n])
      BY <1>2, <1>3, <2>2
    <3>2. C(n) = C(n - 1) + 1 /\ C(n) = n - a /\ C(n - 1) \in Nat
      BY <1>1, <1>3, <2>2
    <3> HIDE DEF C
    <3>3. /\ Len(P[n]) = C(n)
          /\ \A i \in 1 .. C(n - 1) : P[n][i] = seq[a + i]
          /\ P[n][C(n)] = seq[n]
      BY <2>1, <3>1, <3>2, AppendProperties
    <3>4. \A i \in 1 .. C(n) : P[n][i] = seq[a + i]
      <4> TAKE i \in 1 .. C(n)
      <4>1. CASE i = C(n)
        <5>1. a + C(n) = n
          BY <1>1, <1>3, <3>2
        <5> QED
          BY <3>3, <4>1, <5>1
      <4>2. CASE i # C(n)
        <5>1. i \in 1 .. C(n - 1)
          BY <3>2, <4>2
        <5> QED
          BY <3>3, <5>1
      <4> QED
        BY <4>1, <4>2
    <3> QED
      BY <2>1, <3>3, <3>4
  <2>3. CASE ~(a < n /\ n <= b)
    <3>1. P[n] = P[n - 1]
      BY <1>2, <1>3, <2>3
    <3>2. C(n) = C(n - 1)
      BY <1>1, <1>3, <2>3
    <3> HIDE DEF C
    <3> QED
      BY <2>1, <3>1, <3>2
  <2> QED
    BY <2>2, <2>3
<1>6. \A n \in 0 .. N : n \in Good
  <2> HIDE DEF Good
  <2> QED
    BY <1>1, <1>4, <1>5, UpTo
<1>7. N \in 0 .. N /\ C(N) = b - a
  BY <1>1, <1>3
<1> QED
  BY <1>2, <1>6, <1>7 DEF Picked, P, N

\* What a file yields are events, whatever is in it.
LEMMA ReadEventsType ==
  ASSUME NEW f \in Seq(Chunks)
  PROVE  ReadEvents(f) \in Seq(Events)
<1> DEFINE T == [event : Events, form : {"line", "cut", "unterminated"}]
           positions == LineStarts(f) \ BrokenLines(f)
           lines == Picked(f, positions)
<1>1. Len(f) \in Nat /\ DOMAIN f = 1 .. Len(f)
  BY LenProperties
<1>2. ASSUME NEW n \in 1 .. Len(f), n \in positions PROVE f[n] \in T
  <2>1. f[n] \in Chunks
    BY ElementOfSeq
  <2>2. f[n].form # "garbage"
    BY <1>1, <1>2 DEF LineStarts, BrokenLines, Parses
  <2> QED
    BY <2>1, <2>2 DEF Chunks
<1>3. lines \in Seq(T)
  <2> HIDE DEF positions
  <2> QED
    BY <1>1, <1>2, PickedType
<1>4. ReadEvents(f) = [n \in DOMAIN lines |-> lines[n].event]
  BY DEF ReadEvents
<1> HIDE DEF lines
<1>5. /\ Len(lines) \in Nat /\ DOMAIN lines = 1 .. Len(lines)
      /\ \A n \in 1 .. Len(lines) : lines[n].event \in Events
  <2>1. \A n \in 1 .. Len(lines) : lines[n] \in T
    BY <1>3, ElementOfSeq
  <2> QED
    BY <1>3, <2>1, LenProperties
<1> QED
  BY <1>4, <1>5

\* The events of a file that is torn at its end at most.
Intact(f) == IF f # <<>> /\ f[Len(f)].form = "cut" THEN Len(f) - 1 ELSE Len(f)

LEMMA ReadTornAtEnd ==
  ASSUME NEW f \in Seq(Chunks), TornAtEnd(f)
  PROVE  /\ ReadEvents(f) \in Seq(Events)
         /\ Len(ReadEvents(f)) = Intact(f)
         /\ \A i \in 1 .. Intact(f) : ReadEvents(f)[i] = f[i].event
         /\ Readable(f, "truncate")
<1> DEFINE N == Len(f)
           positions == LineStarts(f) \ BrokenLines(f)
           lines == Picked(f, positions)
<1>1. N \in Nat /\ DOMAIN f = 1 .. N /\ (f # <<>> => N # 0) /\ (N # 0 => f # <<>>)
  BY LenProperties, EmptySeq
<1>2. \A i \in 1 .. N : f[i].form = "line" \/ (i = N /\ f[i].form \in {"cut", "unterminated"})
  BY <1>1 DEF TornAtEnd
<1>3. LineStarts(f) = 1 .. N
  <2>1. \A i \in 1 .. N : i = 1 \/ (i - 1 \in 1 .. N /\ i - 1 # N)
    BY <1>1
  <2>2. \A i \in 1 .. N : StartsLine(f, i)
    BY <1>2, <2>1 DEF StartsLine, HasNewline
  <2> QED
    BY <1>1, <2>2 DEF LineStarts
<1>4. \A i \in 1 .. N : i \in BrokenLines(f) <=> i = N /\ f[i].form = "cut"
  BY <1>2, <1>3 DEF BrokenLines, Parses
<1>5. Intact(f) \in 0 .. N /\ \A i \in 1 .. N : i \in positions <=> 0 < i /\ i <= Intact(f)
  <2>1. CASE f # <<>> /\ f[N].form = "cut"
    <3>1. Intact(f) = N - 1 /\ N # 0
      BY <1>1, <2>1 DEF Intact
    <3>2. \A i \in 1 .. N : i \in positions <=> i # N
      BY <1>3, <1>4, <2>1
    <3> HIDE DEF N, positions
    <3> QED
      BY <1>1, <3>1, <3>2
  <2>2. CASE ~(f # <<>> /\ f[N].form = "cut")
    <3>1. Intact(f) = N
      BY <2>2 DEF Intact
    <3>2. \A i \in 1 .. N : i \in positions
      <4>1. \A i \in 1 .. N : i \notin BrokenLines(f)
        <5> TAKE i \in 1 .. N
        <5>1. f # <<>>
          BY <1>1
        <5> QED
          BY <1>4, <2>2, <5>1
      <4> QED
        BY <1>3, <4>1
    <3> HIDE DEF N, positions
    <3> QED
      BY <1>1, <3>1, <3>2
  <2> QED
    BY <2>1, <2>2
<1>6. /\ lines \in Seq(Chunks) /\ Len(lines) = Intact(f)
      /\ \A i \in 1 .. Intact(f) : lines[i] = f[i]
  <2> DEFINE a == 0
             b == Intact(f)
  <2>1. /\ a \in 0 .. N /\ b \in a .. N /\ b - a = b /\ \A i \in 1 .. b : a + i = i
        /\ \A i \in 1 .. N : i \in positions <=> a < i /\ i <= b
    BY <1>1, <1>5
  <2> HIDE DEF positions, a, b, N
  <2>2. /\ lines \in Seq(Chunks) /\ Len(lines) = b - a
        /\ \A i \in 1 .. b - a : lines[i] = f[a + i]
    <3>1. a \in 0 .. Len(f) /\ b \in a .. Len(f)
      BY <2>1 DEF N
    <3>2. \A n \in 1 .. Len(f) : n \in positions <=> a < n /\ n <= b
      BY <2>1 DEF N
    <3> HIDE DEF N
    <3>3. lines \in Seq(Chunks)
      BY <3>1, <3>2, PickedRange
    <3>4. Len(lines) = b - a
      BY <3>1, <3>2, PickedRange
    <3>5. \A i \in 1 .. b - a : lines[i] = f[a + i]
      BY <3>1, <3>2, PickedRange
    <3> QED
      BY <3>3, <3>4, <3>5
  <2>3. Len(lines) = b /\ \A i \in 1 .. b : lines[i] = f[i]
    BY <2>1, <2>2
  <2> QED
    BY <2>2, <2>3 DEF b
<1>7. ReadEvents(f) = [n \in DOMAIN lines |-> lines[n].event]
  BY DEF ReadEvents
<1> HIDE DEF lines
<1>8. DOMAIN lines = 1 .. Intact(f) /\ Intact(f) \in Nat
  BY <1>1, <1>5, <1>6, LenProperties
<1>9. /\ Len(ReadEvents(f)) = Intact(f)
      /\ \A i \in 1 .. Intact(f) : ReadEvents(f)[i] = f[i].event
  BY <1>6, <1>7, <1>8
<1>10. Readable(f, "truncate")
  <2>1. \A i \in BrokenLines(f) : i = N
    <3>1. BrokenLines(f) \subseteq 1 .. N
      BY <1>3 DEF BrokenLines
    <3> QED
      BY <1>4, <3>1
  <2>2. \A j \in N .. N - 1 : FALSE
    BY <1>1
  <2> QED
    BY <2>1, <2>2 DEF Readable, IsLastRecord
<1> QED
  BY <1>9, <1>10, ReadEventsType

\* A file of lines yields the event of each.
LEMMA ReadWhole ==
  ASSUME NEW f \in Seq(Chunks), Whole(f)
  PROVE  /\ TornAtEnd(f)
         /\ ReadEvents(f) \in Seq(Events)
         /\ Len(ReadEvents(f)) = Len(f)
         /\ \A i \in 1 .. Len(f) : ReadEvents(f)[i] = f[i].event
<1>1. TornAtEnd(f)
  BY DEF Whole, TornAtEnd
<1>2. Intact(f) = Len(f)
  <2>1. f # <<>> => Len(f) \in DOMAIN f
    BY LenProperties, EmptySeq
  <2> QED
    BY <2>1 DEF Whole, Intact
<1> QED
  BY <1>1, <1>2, ReadTornAtEnd

\* What a rewrite writes is read back as it is.
LEMMA ReadLines ==
  ASSUME NEW E \in Seq(Events)
  PROVE  Lines(E) \in Seq(Chunks) /\ Whole(Lines(E)) /\ ReadEvents(Lines(E)) = E
<1>1. Len(E) \in Nat /\ DOMAIN E = 1 .. Len(E) /\ \A i \in 1 .. Len(E) : E[i] \in Events
  BY LenProperties, ElementOfSeq
<1>2. \A i \in 1 .. Len(E) : Line(E[i]) \in Chunks
  BY <1>1 DEF Line, Chunks
<1>3. Lines(E) = [i \in 1 .. Len(E) |-> Line(E[i])]
  BY <1>1 DEF Lines
<1>4. /\ Lines(E) \in Seq(Chunks) /\ Len(Lines(E)) = Len(E)
      /\ \A i \in 1 .. Len(E) : Lines(E)[i] = Line(E[i])
  BY <1>1, <1>2, <1>3
<1>5. Whole(Lines(E))
  BY <1>3, <1>4 DEF Whole, Line
<1>6. \A i \in 1 .. Len(E) : Lines(E)[i].event = E[i]
  <2> TAKE i \in 1 .. Len(E)
  <2>1. Line(E[i]).event = E[i]
    BY DEF Line
  <2> QED
    BY <1>4, <2>1
<1>7. /\ ReadEvents(Lines(E)) \in Seq(Events) /\ Len(ReadEvents(Lines(E))) = Len(E)
      /\ \A i \in 1 .. Len(E) : ReadEvents(Lines(E))[i] = E[i]
  BY <1>4, <1>5, <1>6, ReadWhole
<1> QED
  BY <1>4, <1>5, <1>7, SeqEqual

\* A file that ends in a complete line can be appended to.
LEMMA TerminatedIsWhole ==
  ASSUME NEW f \in Seq(Chunks), TornAtEnd(f), Terminated(f)
  PROVE  Whole(f)
<1>1. f # <<>> => f[Len(f)].form \in {"line", "garbage"}
  BY DEF Terminated, HasNewline, Last
<1>2. \A i \in DOMAIN f : f # <<>>
  BY LenProperties, EmptySeq
<1> QED
  BY <1>1, <1>2 DEF TornAtEnd, Whole

\* An event appended with or without its newline is read as the last one.
LEMMA ReadAppended ==
  ASSUME NEW f \in Seq(Chunks), Whole(f), NEW e \in Events,
         NEW chunk \in {Line(e), Unterminated(e)}
  PROVE  /\ f \o <<chunk>> \in Seq(Chunks)
         /\ TornAtEnd(f \o <<chunk>>)
         /\ ReadEvents(f \o <<chunk>>) = Append(ReadEvents(f), e)
<1> DEFINE g == f \o <<chunk>>
           E == ReadEvents(f)
<1>1. chunk \in Chunks /\ chunk.event = e /\ chunk.form \in {"line", "unterminated"}
  BY DEF Line, Unterminated, Chunks
<1>2. /\ Len(f) \in Nat /\ DOMAIN f = 1 .. Len(f) /\ E \in Seq(Events) /\ Len(E) = Len(f)
      /\ \A i \in 1 .. Len(f) : E[i] = f[i].event /\ f[i].form = "line"
  BY LenProperties, ReadWhole DEF Whole
<1>3. g = Append(f, chunk)
  BY <1>1, AppendIsConcat
<1>4. /\ g \in Seq(Chunks) /\ Len(g) = Len(f) + 1 /\ g # <<>> /\ DOMAIN g = 1 .. Len(f) + 1
      /\ \A i \in 1 .. Len(f) : g[i] = f[i]
      /\ g[Len(f) + 1] = chunk
  BY <1>1, <1>3, AppendProperties, LenProperties
<1> HIDE DEF g, E
<1>5. TornAtEnd(g)
  BY <1>1, <1>2, <1>4 DEF TornAtEnd
<1>6. Intact(g) = Len(f) + 1
  BY <1>1, <1>4 DEF Intact
<1>7. /\ ReadEvents(g) \in Seq(Events) /\ Len(ReadEvents(g)) = Len(f) + 1
      /\ \A i \in 1 .. Len(f) + 1 : ReadEvents(g)[i] = g[i].event
  BY <1>4, <1>5, <1>6, ReadTornAtEnd
<1>8. /\ Append(E, e) \in Seq(Events) /\ Len(Append(E, e)) = Len(f) + 1
      /\ \A i \in 1 .. Len(f) : Append(E, e)[i] = E[i]
      /\ Append(E, e)[Len(f) + 1] = e
  BY <1>2, AppendProperties
<1>9. \A i \in 1 .. Len(f) + 1 : ReadEvents(g)[i] = Append(E, e)[i]
  <2> TAKE i \in 1 .. Len(f) + 1
  <2>1. CASE i = Len(f) + 1
    BY <1>1, <1>4, <1>7, <1>8, <2>1
  <2>2. CASE i # Len(f) + 1
    <3>1. i \in 1 .. Len(f)
      BY <1>2, <2>2
    <3> QED
      BY <1>2, <1>4, <1>7, <1>8, <3>1
  <2> QED
    BY <2>1, <2>2
<1>10. ReadEvents(g) = Append(E, e)
  BY <1>7, <1>8, <1>9, SeqEqual
<1> QED
  BY <1>4, <1>5, <1>10 DEF g, E

\* A part of an event is not read, and is no reason not to start.
LEMMA ReadCut ==
  ASSUME NEW f \in Seq(Chunks), Whole(f), NEW e \in Events
  PROVE  /\ f \o <<Cut(e)>> \in Seq(Chunks)
         /\ TornAtEnd(f \o <<Cut(e)>>)
         /\ ReadEvents(f \o <<Cut(e)>>) = ReadEvents(f)
<1> DEFINE g == f \o <<Cut(e)>>
           E == ReadEvents(f)
<1>1. Cut(e) \in Chunks /\ Cut(e).form = "cut"
  BY DEF Cut, Chunks
<1>2. /\ Len(f) \in Nat /\ DOMAIN f = 1 .. Len(f) /\ E \in Seq(Events) /\ Len(E) = Len(f)
      /\ \A i \in 1 .. Len(f) : E[i] = f[i].event /\ f[i].form = "line"
  BY LenProperties, ReadWhole DEF Whole
<1>3. g = Append(f, Cut(e))
  BY <1>1, AppendIsConcat
<1>4. /\ g \in Seq(Chunks) /\ Len(g) = Len(f) + 1 /\ g # <<>> /\ DOMAIN g = 1 .. Len(f) + 1
      /\ \A i \in 1 .. Len(f) : g[i] = f[i]
      /\ g[Len(f) + 1] = Cut(e)
  BY <1>1, <1>3, AppendProperties, LenProperties
<1> HIDE DEF g, E
<1>5. TornAtEnd(g)
  BY <1>1, <1>2, <1>4 DEF TornAtEnd
<1>6. Intact(g) = Len(f)
  BY <1>1, <1>2, <1>4 DEF Intact
<1>7. /\ ReadEvents(g) \in Seq(Events) /\ Len(ReadEvents(g)) = Len(f)
      /\ \A i \in 1 .. Len(f) : ReadEvents(g)[i] = g[i].event
  BY <1>4, <1>5, <1>6, ReadTornAtEnd
<1>8. ReadEvents(g) = E
  <2>1. \A i \in 1 .. Len(f) : ReadEvents(g)[i] = E[i]
    BY <1>2, <1>4, <1>7
  <2> QED
    BY <1>2, <1>7, <2>1, SeqEqual
<1> QED
  BY <1>4, <1>5, <1>8 DEF g, E

\* restore_mutation_seq sets a number that no event exceeds.
LEMMA MaxSeqIs ==
  ASSUME NEW E \in Seq(Events)
  PROVE  MaxSeqOf(E) \in Nat /\ \A i \in 1 .. Len(E) : E[i].seq <= MaxSeqOf(E)
<1> DEFINE N == Len(E)
           Seqs(n) == {0} \cup {E[i].seq : i \in 1 .. n}
           Good == {n \in 0 .. N : \E m \in Seqs(n) : \A y \in Seqs(n) : m >= y}
<1>1. N \in Nat /\ DOMAIN E = 1 .. N
  BY LenProperties
<1>2. \A i \in 1 .. N : E[i].seq \in Nat
  <2> TAKE i \in 1 .. N
  <2>1. E[i] \in Events
    BY ElementOfSeq
  <2> QED
    BY <2>1 DEF Events
<1> HIDE DEF N
<1>3. \A n \in 0 .. N : Seqs(n) \subseteq Nat
  BY <1>1, <1>2
<1>4. 0 \in Good
  <2>1. Seqs(0) = {0}
    OBVIOUS
  <2> QED
    BY <1>1, <2>1
<1>5. ASSUME NEW n \in 1 .. N, n - 1 \in Good PROVE n \in Good
  <2>1. PICK m \in Seqs(n - 1) : \A y \in Seqs(n - 1) : m >= y
    BY <1>5
  <2>2. n \in 0 .. N /\ n - 1 \in 0 .. N /\ m \in Nat /\ E[n].seq \in Nat
    BY <1>1, <1>2, <1>3, <2>1
  <2>3. Seqs(n) = Seqs(n - 1) \cup {E[n].seq}
    BY <1>1
  <2>4. \A y \in Seqs(n - 1) : y \in Nat
    BY <1>3, <2>2
  <2> HIDE DEF Seqs
  <2> DEFINE top == IF m >= E[n].seq THEN m ELSE E[n].seq
  <2>5. top \in Seqs(n) /\ \A y \in Seqs(n) : top >= y
    BY <2>1, <2>2, <2>3, <2>4
  <2> QED
    BY <2>2, <2>5
<1>6. N \in Good
  <2> HIDE DEF Good
  <2>1. \A n \in 0 .. N : n \in Good
    BY <1>1, <1>4, <1>5, UpTo
  <2> QED
    BY <1>1, <2>1
<1>7. MaxSeqOf(E) = CHOOSE m \in Seqs(N) : \A y \in Seqs(N) : m >= y
  BY <1>1 DEF MaxSeqOf, Max
<1>8. MaxSeqOf(E) \in Seqs(N) /\ \A y \in Seqs(N) : MaxSeqOf(E) >= y
  <2> HIDE DEF Seqs
  <2> QED
    BY <1>6, <1>7
<1>9. MaxSeqOf(E) \in Nat
  BY <1>1, <1>3, <1>8
<1>10. ASSUME NEW i \in 1 .. N PROVE E[i].seq <= MaxSeqOf(E)
  <2>1. MaxSeqOf(E) >= E[i].seq
    BY <1>8
  <2> QED
    BY <1>2, <1>9, <2>1
<1> QED
  BY <1>9, <1>10 DEF N

\* What rewrite_after keeps are events.
LEMMA EventsAfterType ==
  ASSUME NEW E \in Seq(Events), NEW marker
  PROVE  EventsAfter(E, marker) \in Seq(Events)
<1>1. Len(E) \in Nat /\ \A i \in 1 .. Len(E) : E[i] \in Events
  BY LenProperties, ElementOfSeq
<1> QED
  BY <1>1, PickedType DEF EventsAfter

\* Where the marker splits the events, rewrite_after keeps the second part.
LEMMA EventsAfterSplit ==
  ASSUME NEW E \in Seq(Events), NEW marker \in Nat,
         NEW n \in 0 .. Len(E), Splits(E, marker, n)
  PROVE  /\ Len(EventsAfter(E, marker)) = Len(E) - n
         /\ \A i \in 1 .. Len(E) - n : EventsAfter(E, marker)[i] = E[n + i]
<1> DEFINE a == n
           b == Len(E)
           later == {i \in DOMAIN E : E[i].seq > marker}
<1>1. Len(E) \in Nat /\ DOMAIN E = 1 .. Len(E)
  BY LenProperties
<1>2. \A i \in 1 .. Len(E) : E[i].seq \in Nat
  <2> TAKE i \in 1 .. Len(E)
  <2>1. E[i] \in Events
    BY ElementOfSeq
  <2> QED
    BY <2>1 DEF Events
<1>3. \A i \in 1 .. Len(E) : i \in later <=> a < i /\ i <= b
  <2> TAKE i \in 1 .. Len(E)
  <2>1. CASE i \in 1 .. n
    BY <1>1, <1>2, <2>1 DEF Splits
  <2>2. CASE i \in n + 1 .. Len(E)
    BY <1>1, <1>2, <2>2 DEF Splits
  <2> QED
    BY <1>1, <2>1, <2>2
<1>4. a \in 0 .. Len(E) /\ b \in a .. Len(E)
  BY <1>1
<1>5. EventsAfter(E, marker) = Picked(E, later)
  BY DEF EventsAfter
<1> HIDE DEF later, a, b
<1>6. Len(Picked(E, later)) = b - a
  BY <1>3, <1>4, PickedRange
<1>7. \A i \in 1 .. b - a : Picked(E, later)[i] = E[a + i]
  BY <1>3, <1>4, PickedRange, Z3
<1> QED
  BY <1>5, <1>6, <1>7 DEF a, b

------------------------------------------------------------------------------
(***************************************************************************)
(* Replaying events.                                                       *)
(***************************************************************************)

\* An event sets the record of its key, or the version of its namespace, and
\* an upsert takes its namespace to the version of the record at least.
LEMMA ApplyEventIs ==
  ASSUME NEW s \in Snapshots, NEW e \in Events
  PROVE  /\ \A sk \in StorageKeys :
               ApplyEvent(s, e).entries[sk] =
                  IF e.op = "upsert" /\ sk = e.key THEN e.record
                  ELSE IF e.op = "delete" /\ sk = e.key THEN Missing
                  ELSE s.entries[sk]
         /\ \A ns \in Namespaces :
               ApplyEvent(s, e).versions[ns] =
                  IF e.op = "upsert" /\ ns = e.key[1]
                  THEN Larger(s.versions[ns], e.record.version)
                  ELSE IF e.op = "invalidate" /\ ns = e.namespace THEN e.version
                  ELSE s.versions[ns]
<1>1. /\ s = [entries |-> s.entries, versions |-> s.versions]
      /\ s.entries \in Tables /\ s.versions \in Versions
  BY DEF Snapshots
<1>2. CASE e \in [op : {"upsert"}, seq : Nat, key : StorageKeys, record : Record]
  <2>1. e.op = "upsert"
    BY <1>2
  <2>2. ApplyEvent(s, e) = [entries  |-> [s.entries EXCEPT ![e.key] = e.record],
                            versions |-> [s.versions EXCEPT ![e.key[1]] =
                                            Larger(@, e.record.version)]]
    BY <2>1 DEF ApplyEvent
  <2> QED
    BY <1>1, <2>1, <2>2 DEF Tables, Versions
<1>3. CASE e \in [op : {"delete"}, seq : Nat, key : StorageKeys]
  <2>1. e.op = "delete" /\ ApplyEvent(s, e) = [s EXCEPT !.entries[e.key] = Missing]
    BY <1>3 DEF ApplyEvent
  <2>2. ApplyEvent(s, e) = [entries  |-> [s.entries EXCEPT ![e.key] = Missing],
                            versions |-> s.versions]
    BY <1>1, <2>1
  <2> QED
    BY <1>1, <2>1, <2>2 DEF Tables, Versions
<1>4. CASE e \in [op : {"invalidate"}, seq : Nat, namespace : Namespaces, version : Nat]
  <2>1. e.op = "invalidate" /\ ApplyEvent(s, e) = [s EXCEPT !.versions[e.namespace] = e.version]
    BY <1>4 DEF ApplyEvent
  <2>2. ApplyEvent(s, e) = [entries  |-> s.entries,
                            versions |-> [s.versions EXCEPT ![e.namespace] = e.version]]
    BY <1>1, <2>1
  <2> QED
    BY <1>1, <2>1, <2>2 DEF Tables, Versions
<1> QED
  BY <1>2, <1>3, <1>4 DEF Events

\* A replay over another snapshot differs only where no event has come.
LEMMA EntriesOver ==
  ASSUME NEW s \in Snapshots, NEW q \in Snapshots, NEW E \in Seq(Events), NEW sk \in StorageKeys
  PROVE  \A n \in 0 .. Len(E) :
            \/ Replays(q, E)[n].entries[sk] = Replays(s, E)[n].entries[sk]
            \/ /\ Replays(q, E)[n].entries[sk] = q.entries[sk]
               /\ Replays(s, E)[n].entries[sk] = s.entries[sk]
<1> DEFINE N == Len(E)
           S == Replays(s, E)
           Q == Replays(q, E)
           Same(n) == \/ Q[n].entries[sk] = S[n].entries[sk]
                      \/ Q[n].entries[sk] = q.entries[sk] /\ S[n].entries[sk] = s.entries[sk]
           Good == {n \in 0 .. N : Same(n)}
<1>1. N \in Nat /\ \A n \in 1 .. N : E[n] \in Events
  BY LenProperties, ElementOfSeq
<1>2. /\ \A n \in 0 .. N : S[n] \in Snapshots /\ Q[n] \in Snapshots
      /\ S[0] = s /\ Q[0] = q
      /\ \A n \in 1 .. N : S[n] = ApplyEvent(S[n - 1], E[n]) /\ Q[n] = ApplyEvent(Q[n - 1], E[n])
  BY ReplaysIs
<1> HIDE DEF N, S, Q
<1>3. 0 \in Good
  BY <1>1, <1>2
<1>4. ASSUME NEW n \in 1 .. N, n - 1 \in Good PROVE n \in Good
  <2>1. n \in 0 .. N /\ n - 1 \in 0 .. N /\ Same(n - 1)
    BY <1>1, <1>4
  <2>2. /\ S[n].entries[sk] = IF E[n].op = "upsert" /\ sk = E[n].key THEN E[n].record
                              ELSE IF E[n].op = "delete" /\ sk = E[n].key THEN Missing
                              ELSE S[n - 1].entries[sk]
        /\ Q[n].entries[sk] = IF E[n].op = "upsert" /\ sk = E[n].key THEN E[n].record
                              ELSE IF E[n].op = "delete" /\ sk = E[n].key THEN Missing
                              ELSE Q[n - 1].entries[sk]
    BY <1>1, <1>2, <2>1, ApplyEventIs
  <2> QED
    BY <2>1, <2>2
<1>5. \A n \in 0 .. N : n \in Good
  <2> HIDE DEF Good
  <2> QED
    BY <1>1, <1>3, <1>4, UpTo
<1> QED
  BY <1>5 DEF N, S, Q

\* A replay that starts from later versions never falls behind, and catches up
\* or stays where it started.
LEMMA VersionsOver ==
  ASSUME NEW s \in Snapshots, NEW q \in Snapshots, NEW E \in Seq(Events), NEW ns \in Namespaces,
         s.versions[ns] <= q.versions[ns]
  PROVE  \A n \in 0 .. Len(E) :
            /\ Replays(s, E)[n].versions[ns] <= Replays(q, E)[n].versions[ns]
            /\ \/ Replays(q, E)[n].versions[ns] = Replays(s, E)[n].versions[ns]
               \/ Replays(q, E)[n].versions[ns] = q.versions[ns]
<1> DEFINE N == Len(E)
           S == Replays(s, E)
           Q == Replays(q, E)
           Later(n) == /\ S[n].versions[ns] <= Q[n].versions[ns]
                       /\ \/ Q[n].versions[ns] = S[n].versions[ns]
                          \/ Q[n].versions[ns] = q.versions[ns]
           Good == {n \in 0 .. N : Later(n)}
<1>1. N \in Nat /\ \A n \in 1 .. N : E[n] \in Events
  BY LenProperties, ElementOfSeq
<1>2. /\ \A n \in 0 .. N : S[n] \in Snapshots /\ Q[n] \in Snapshots
      /\ S[0] = s /\ Q[0] = q
      /\ \A n \in 1 .. N : S[n] = ApplyEvent(S[n - 1], E[n]) /\ Q[n] = ApplyEvent(Q[n - 1], E[n])
  BY ReplaysIs
<1> HIDE DEF N, S, Q
<1>3. 0 \in Good
  BY <1>1, <1>2
<1>4. ASSUME NEW n \in 1 .. N, n - 1 \in Good PROVE n \in Good
  <2> DEFINE upserted == E[n].op = "upsert" /\ ns = E[n].key[1]
             set == E[n].op = "invalidate" /\ ns = E[n].namespace
             v == E[n].record.version
             x == S[n - 1].versions[ns]
             y == Q[n - 1].versions[ns]
  <2>1. n \in 0 .. N /\ n - 1 \in 0 .. N /\ Later(n - 1)
    BY <1>1, <1>4
  <2>2. /\ S[n].versions[ns] = IF upserted THEN Larger(x, v)
                               ELSE IF set THEN E[n].version ELSE x
        /\ Q[n].versions[ns] = IF upserted THEN Larger(y, v)
                               ELSE IF set THEN E[n].version ELSE y
    BY <1>1, <1>2, <2>1, ApplyEventIs
  <2>3. x \in Nat /\ y \in Nat /\ q.versions[ns] \in Nat
    BY <1>2, <2>1 DEF Snapshots, Versions
  <2>4. /\ upserted => v \in Nat
        /\ set => E[n].version \in Nat
    BY <1>1 DEF Events, Record
  <2>5. x <= y /\ (y = x \/ y = q.versions[ns])
    BY <2>1
  <2> HIDE DEF upserted, set, v, x, y
  <2>6. CASE upserted
    BY <2>1, <2>2, <2>3, <2>4, <2>5, <2>6 DEF Larger
  <2>7. CASE ~upserted /\ set
    BY <2>1, <2>2, <2>4, <2>7
  <2>8. CASE ~upserted /\ ~set
    BY <2>1, <2>2, <2>5, <2>8
  <2> QED
    BY <2>6, <2>7, <2>8
<1>5. \A n \in 0 .. N : n \in Good
  <2> HIDE DEF Good
  <2> QED
    BY <1>1, <1>3, <1>4, UpTo
<1> QED
  BY <1>5 DEF N, S, Q

\* Replays of two sequences of events that agree from some points on.
LEMMA ReplayParts ==
  ASSUME NEW s \in Snapshots, NEW E \in Seq(Events), NEW K \in Seq(Events),
         NEW n \in 0 .. Len(E), NEW m \in 0 .. Len(K), m <= Len(E) - n,
         \A i \in 1 .. m : K[i] = E[n + i]
  PROVE  Replays(Replays(s, E)[n], K)[m] = Replays(s, E)[n + m]
<1> DEFINE S == Replays(s, E)
           Q == Replays(S[n], K)
           Good == {i \in 0 .. m : Q[i] = S[n + i]}
<1>1. Len(E) \in Nat /\ Len(K) \in Nat /\ m \in Nat /\ n \in Nat
  BY LenProperties
<1>2. /\ S[n] \in Snapshots
      /\ \A i \in 1 .. Len(E) : S[i] = ApplyEvent(S[i - 1], E[i])
  BY <1>1, ReplaysIs
<1>3. /\ Q[0] = S[n]
      /\ \A i \in 1 .. Len(K) : Q[i] = ApplyEvent(Q[i - 1], K[i])
  BY <1>2, ReplaysIs
<1> HIDE DEF S, Q
<1>4. 0 \in Good
  BY <1>1, <1>3
<1>5. ASSUME NEW i \in 1 .. m, i - 1 \in Good PROVE i \in Good
  <2>1. i \in 0 .. m /\ i \in 1 .. Len(K) /\ n + i \in 1 .. Len(E) /\ n + (i - 1) = n + i - 1
    BY <1>1
  <2>2. Q[i - 1] = S[n + i - 1] /\ K[i] = E[n + i]
    BY <1>5, <2>1
  <2>3. Q[i] = ApplyEvent(Q[i - 1], K[i])
    BY <1>3, <2>1
  <2>4. S[n + i] = ApplyEvent(S[n + i - 1], E[n + i])
    BY <1>2, <2>1
  <2> QED
    BY <2>1, <2>2, <2>3, <2>4
<1>6. \A i \in 0 .. m : i \in Good
  <2> HIDE DEF Good
  <2> QED
    BY <1>1, <1>4, <1>5, UpTo
<1>7. m \in 0 .. m
  BY <1>1
<1> QED
  BY <1>6, <1>7 DEF S, Q

\* An appended event comes after all others.
LEMMA ReplayAppended ==
  ASSUME NEW s \in Snapshots, NEW E \in Seq(Events), NEW e \in Events
  PROVE  /\ \A n \in 0 .. Len(E) : Replays(s, Append(E, e))[n] = Replays(s, E)[n]
         /\ ApplyEvents(s, Append(E, e)) = ApplyEvent(ApplyEvents(s, E), e)
<1> DEFINE K == Append(E, e)
           N == Len(E)
           z == 0
<1>1. /\ N \in Nat /\ K \in Seq(Events) /\ Len(K) = N + 1
      /\ \A i \in 1 .. N : K[i] = E[i]
      /\ K[N + 1] = e
  BY LenProperties, AppendProperties
<1> HIDE DEF K, z
<1>2. ASSUME NEW n \in 0 .. N PROVE Replays(s, K)[n] = Replays(s, E)[n]
  <2>1. Replays(s, E)[z] = s
    BY ReplaysIs DEF z
  <2>2. /\ z \in 0 .. Len(E) /\ n \in 0 .. Len(K) /\ n <= Len(E) - z
        /\ z + n = n
        /\ \A i \in 1 .. n : K[i] = E[z + i]
    BY <1>1 DEF z
  <2>3. Replays(Replays(s, E)[z], K)[n] = Replays(s, E)[z + n]
    BY <1>1, <2>2, ReplayParts
  <2> QED
    BY <2>1, <2>2, <2>3
<1>3. Replays(s, K)[N + 1] = ApplyEvent(Replays(s, K)[N], e)
  <2>1. N + 1 \in 1 .. Len(K) /\ (N + 1) - 1 = N
    BY <1>1
  <2>2. Replays(s, K)[N + 1] = ApplyEvent(Replays(s, K)[(N + 1) - 1], K[N + 1])
    BY <1>1, <2>1, ReplaysIs
  <2> QED
    BY <1>1, <2>1, <2>2
<1>4. N \in 0 .. N
  BY <1>1
<1>5. ApplyEvents(s, K) = ApplyEvent(ApplyEvents(s, E), e)
  BY <1>1, <1>2, <1>3, <1>4 DEF ApplyEvents
<1> QED
  BY <1>2, <1>5 DEF K

------------------------------------------------------------------------------
(***************************************************************************)
(* What an operation does.                                                 *)
(***************************************************************************)

\* An event of the engine: an upsert carries the current version, and an
\* invalidation the next one.
Current(e) ==
    /\ e \in Events
    /\ e.seq = NextSeq
    /\ e.op = "upsert" => e.record.version = namespaceVersions[e.key[1]]
    /\ e.op = "invalidate" => e.version = namespaceVersions[e.namespace] + 1

\* An operation logs nothing and removes dead records at most, or it does to
\* the engine what a replay of the event it logs does.
LEMMA OutcomeIsReplay ==
  ASSUME StoreTypeOK, NEW outcome \in MutationOutcomes
  PROVE  \/ /\ outcome.events = <<>>
            /\ outcome.table \in Tables /\ WithoutDead(outcome.table)
            /\ outcome.versions = namespaceVersions
         \/ \E e \in Events : /\ outcome.events = <<e>> /\ Current(e)
                              /\ outcome.table = ApplyEvent(Memory, e).entries
                              /\ outcome.versions = ApplyEvent(Memory, e).versions
<1>1. table \in Tables /\ namespaceVersions \in Versions /\ mutationSeq \in Nat /\ NextSeq \in Nat
  BY DEF StoreTypeOK, NextSeq
<1>2. ASSUME NEW t \in Tables, WithoutDead(t), outcome = Silent(t)
      PROVE  /\ outcome.events = <<>>
             /\ outcome.table \in Tables /\ WithoutDead(outcome.table)
             /\ outcome.versions = namespaceVersions
  BY <1>2 DEF Silent
<1>3. ASSUME NEW sk \in StorageKeys, NEW record \in Record,
             record.version = namespaceVersions[sk[1]], outcome = Upsert(sk, record)
      PROVE  \E e \in Events : /\ outcome.events = <<e>> /\ Current(e)
                               /\ outcome.table = ApplyEvent(Memory, e).entries
                               /\ outcome.versions = ApplyEvent(Memory, e).versions
  <2> DEFINE e == UpsertEvent(NextSeq, sk, record)
  <2>1. /\ e \in Events /\ e.op = "upsert" /\ e.seq = NextSeq
        /\ e.key = sk /\ e.record = record
    BY <1>1 DEF UpsertEvent, Events
  <2>2. sk[1] \in Namespaces /\ namespaceVersions[sk[1]] \in Nat
    BY <1>1, NamespaceOfKey DEF Versions
  <2>3. /\ ApplyEvent(Memory, e).entries = [table EXCEPT ![sk] = record]
        /\ ApplyEvent(Memory, e).versions =
              [namespaceVersions EXCEPT ![sk[1]] = Larger(@, record.version)]
    BY <2>1 DEF ApplyEvent, Memory
  <2>4. [namespaceVersions EXCEPT ![sk[1]] = Larger(@, record.version)] = namespaceVersions
    BY <1>1, <1>3, <2>2 DEF Larger, Versions
  <2>5. /\ outcome.events = <<e>> /\ outcome.table = [table EXCEPT ![sk] = record]
        /\ outcome.versions = namespaceVersions
    BY <1>3 DEF Upsert
  <2>6. Current(e)
    BY <1>3, <2>1 DEF Current
  <2> QED
    BY <2>1, <2>3, <2>4, <2>5, <2>6
<1>4. ASSUME NEW sk \in StorageKeys, outcome = Deletion(sk)
      PROVE  \E e \in Events : /\ outcome.events = <<e>> /\ Current(e)
                               /\ outcome.table = ApplyEvent(Memory, e).entries
                               /\ outcome.versions = ApplyEvent(Memory, e).versions
  <2> DEFINE e == DeleteEvent(NextSeq, sk)
  <2>1. e \in Events /\ e.op = "delete" /\ e.seq = NextSeq /\ e.key = sk
    BY <1>1 DEF DeleteEvent, Events
  <2>2. /\ ApplyEvent(Memory, e).entries = [table EXCEPT ![sk] = Missing]
        /\ ApplyEvent(Memory, e).versions = namespaceVersions
    BY <2>1 DEF ApplyEvent, Memory
  <2>3. /\ outcome.events = <<e>> /\ outcome.table = [table EXCEPT ![sk] = Missing]
        /\ outcome.versions = namespaceVersions
    BY <1>4 DEF Deletion
  <2>4. Current(e)
    BY <2>1 DEF Current
  <2> QED
    BY <2>1, <2>2, <2>3, <2>4
<1>5. ASSUME NEW ns \in Namespaces, outcome = InvalidateOutcome(ns)
      PROVE  \E e \in Events : /\ outcome.events = <<e>> /\ Current(e)
                               /\ outcome.table = ApplyEvent(Memory, e).entries
                               /\ outcome.versions = ApplyEvent(Memory, e).versions
  <2> DEFINE v == namespaceVersions[ns] + 1
             e == InvalidateEvent(NextSeq, ns, v)
  <2>1. v \in Nat
    BY <1>1 DEF Versions
  <2>2. /\ e \in Events /\ e.op = "invalidate" /\ e.seq = NextSeq
        /\ e.namespace = ns /\ e.version = v
    BY <1>1, <2>1 DEF InvalidateEvent, Events
  <2>3. /\ ApplyEvent(Memory, e).entries = table
        /\ ApplyEvent(Memory, e).versions = [namespaceVersions EXCEPT ![ns] = v]
    BY <2>2 DEF ApplyEvent, Memory
  <2>4. /\ outcome.events = <<e>> /\ outcome.table = table
        /\ outcome.versions = [namespaceVersions EXCEPT ![ns] = v]
    BY <1>5 DEF InvalidateOutcome
  <2>5. Current(e)
    BY <2>2 DEF Current
  <2> QED
    BY <2>2, <2>3, <2>4, <2>5
<1> QED
  BY <1>2, <1>3, <1>4, <1>5, OutcomeShape

\* The engine's own state is one a replay can start from.
LEMMA MemoryType ==
  ASSUME StoreTypeOK
  PROVE  Memory \in Snapshots
BY DEF Memory, Snapshots, StoreTypeOK

\* An operation keeps the types of the engine's state.
LEMMA OutcomeType ==
  ASSUME StoreTypeOK, NEW outcome \in MutationOutcomes
  PROVE  /\ outcome.events \in Seq(Events)
         /\ outcome.table \in Tables /\ outcome.versions \in Versions
         /\ Perform(outcome) => StoreTypeOK'
<1>1. namespaceVersions \in Versions /\ mutationSeq \in Nat /\ now \in Nat
  BY DEF StoreTypeOK
<1>2. /\ outcome.events \in Seq(Events)
      /\ outcome.table \in Tables /\ outcome.versions \in Versions
  <2>1. CASE /\ outcome.events = <<>>
             /\ outcome.table \in Tables /\ WithoutDead(outcome.table)
             /\ outcome.versions = namespaceVersions
    BY <1>1, <2>1, EmptySeq
  <2>2. CASE \E e \in Events : /\ outcome.events = <<e>> /\ Current(e)
                               /\ outcome.table = ApplyEvent(Memory, e).entries
                               /\ outcome.versions = ApplyEvent(Memory, e).versions
    <3>1. PICK e \in Events : /\ outcome.events = <<e>>
                              /\ outcome.table = ApplyEvent(Memory, e).entries
                              /\ outcome.versions = ApplyEvent(Memory, e).versions
      BY <2>2
    <3>2. ApplyEvent(Memory, e) \in Snapshots
      BY MemoryType, ApplyEventType
    <3> QED
      BY <3>1, <3>2 DEF Snapshots
  <2> QED
    BY <2>1, <2>2, OutcomeIsReplay
<1>3. Len(outcome.events) \in Nat
  BY <1>2, LenProperties
<1> QED
  BY <1>1, <1>2, <1>3 DEF Perform, StoreTypeOK

------------------------------------------------------------------------------
(***************************************************************************)
(* Type correctness.                                                       *)
(***************************************************************************)

LEMMA TypesImplyTypeOK == Types => TypeOK
<1> SUFFICES ASSUME Types PROVE TypeOK
  OBVIOUS
<1>1. /\ DOMAIN file = FileNames /\ DOMAIN temp = FileNames
      /\ file["snapshot"] \in SnapshotContents /\ temp["snapshot"] \in SnapshotContents
      /\ file["aof"] \in Seq(Chunks) /\ temp["aof"] \in Seq(Chunks) \cup {NoFile}
  BY DEF Types, Files, FileNames, Contents, SnapshotContents
<1>2. DOMAIN saver = Savers
  BY DEF Types
<1>3. ASSUME NEW t \in Savers
      PROVE  /\ saver[t].pc \in {"idle", "open", "write", "replace", "read"}
             /\ saver[t].target \in FileNames
             /\ saver[t].content \in IF saver[t].target = "aof" THEN Seq(Chunks) ELSE SnapshotContents
             /\ saver[t].marker \in Nat
             /\ saver[t].handle \in {"none", "temp", "dest", "orphan"}
  <2>1. saver[t] \in Save /\ (saver[t] = Idle \/ Saving(saver[t], file, temp))
    BY DEF Types
  <2>2. saver[t].content \in IF saver[t].target = "aof" THEN Seq(Chunks) ELSE SnapshotContents
    BY <2>1 DEF Idle, Saving, Contents, SnapshotContents
  <2> QED
    BY <2>1, <2>2 DEF Save
<1> QED
  BY <1>1, <1>2, <1>3 DEF Types, TypeOK

LEMMA IdleType == Idle \in Save /\ Idle.pc = "idle" /\ Idle.content = NoFile
BY DEF Idle, Save, FileContents, SnapshotContents, FileNames

LEMMA TypesInit == Init => Types
<1> SUFFICES ASSUME Init PROVE Types
  OBVIOUS
<1>1. StoreTypeOK
  BY DEF Init, StoreInit, StoreTypeOK, EmptyTable, NoVersions, Tables, Versions
<1>2. file["snapshot"] = NoFile /\ file["aof"] = <<>> /\ <<>> \in Seq(Chunks)
  BY DEF Init
<1>3. file \in Files
  BY <1>2 DEF Init, Files, FileNames, FileContents, SnapshotContents, Contents
<1>4. temp \in Files
  BY DEF Init, Files, FileNames, FileContents, SnapshotContents, Contents
<1>5. file["aof"] # NoFile
  BY <1>2, ContentsAssumption
<1>6. saver \in [Savers -> Save] /\ \A t \in Savers : saver[t] = Idle
  BY IdleType DEF Init
<1>7. status = "up" /\ restarts \in 0 .. MaxRestarts
  BY SettingsAssumption DEF Init
<1> QED
  BY <1>1, <1>3, <1>4, <1>5, <1>6, <1>7 DEF Types

\* What a thread writes is no name for a missing file, and a file keeps its
\* type when one name gets contents that are right for it.
LEMMA ContentsThere ==
  ASSUME NEW name, NEW c \in Contents(name)
  PROVE  c # NoFile
<1>1. NoFile \notin Snapshots
  BY ContentsAssumption
<1> QED
  BY <1>1, ContentsAssumption DEF Contents

Put(f, name, c) == [f EXCEPT ![name] = c]

LEMMA FilesSet ==
  ASSUME NEW f \in Files, NEW name \in FileNames, NEW c, c = NoFile \/ c \in Contents(name)
  PROVE  /\ Put(f, name, c) \in Files
         /\ Put(f, name, c)[name] = c
         /\ \A other \in FileNames : other # name => Put(f, name, c)[other] = f[other]
<1>1. c \in FileContents
  BY DEF FileContents, SnapshotContents, Contents
<1> HIDE DEF FileContents
<1> QED
  BY <1>1 DEF Files, Put

\* One thread takes a step, and no file goes away.
LEMMA SaverSet ==
  ASSUME Types, NEW t \in Savers, NEW s \in Save, s = Idle \/ Saving(s, file', temp'),
         saver' = [saver EXCEPT ![t] = s],
         \A name \in FileNames : temp[name] # NoFile => temp'[name] # NoFile,
         \A name \in FileNames : file[name] # NoFile => file'[name] # NoFile
  PROVE  /\ saver' \in [Savers -> Save]
         /\ \A u \in Savers : saver'[u] = Idle \/ Saving(saver'[u], file', temp')
<1>1. saver \in [Savers -> Save]
  BY DEF Types
<1>2. ASSUME NEW u \in Savers, u # t
      PROVE  saver'[u] = Idle \/ Saving(saver'[u], file', temp')
  <2>1. saver'[u] = saver[u] /\ saver[u].target \in FileNames
    BY <1>1, <1>2 DEF Save
  <2>2. saver[u] = Idle \/ Saving(saver[u], file, temp)
    BY DEF Types
  <2> QED
    BY <2>1, <2>2 DEF Saving
<1>3. saver'[t] = s
  BY <1>1
<1> QED
  BY <1>1, <1>2, <1>3

\* What is left when a thread has overwritten a file.
LEMMA OverwrittenType ==
  ASSUME NEW target \in FileNames, NEW old \in Contents(target), NEW new \in Contents(target)
  PROVE  Overwritten(target, old, new) \subseteq Contents(target)
<1>1. CASE target = "snapshot"
  BY <1>1 DEF Overwritten, Contents
<1>2. CASE target = "aof"
  <2>1. old \in Seq(Chunks) /\ new \in Seq(Chunks) /\ Contents(target) = Seq(Chunks)
    BY <1>2 DEF Contents
  <2>2. Garbage \in Chunks
    BY DEF Garbage, Chunks
  <2>3. ASSUME NEW i \in 1 .. Len(old) + 1
        PROVE  /\ SubSeq(old, i, Len(old)) \in Seq(Chunks)
    <3>1. Len(old) \in Nat /\ \A j \in i .. Len(old) : j \in 1 .. Len(old)
      BY <2>1, LenProperties
    <3>2. \A j \in i .. Len(old) : old[j] \in Chunks
      BY <2>1, <3>1, ElementOfSeq
    <3> QED
      BY <3>1, <3>2, SubSeqProperties
  <2>4. ASSUME NEW rest \in Seq(Chunks)
        PROVE  new \o rest \in Seq(Chunks) /\ new \o <<Garbage>> \o rest \in Seq(Chunks)
    <3>1. <<Garbage>> \in Seq(Chunks)
      BY <2>2
    <3> QED
      BY <2>1, <3>1, ConcatProperties
  <2> QED
    BY <1>2, <2>1, <2>3, <2>4 DEF Overwritten
<1> QED
  BY <1>1, <1>2 DEF FileNames

\* A replay of the files starts from a snapshot and makes one.
LEMMA ExportType ==
  ASSUME NEW t \in Tables, NEW versions \in Versions, NEW at
  PROVE  ExportSnapshot(t, versions, at) \in Snapshots
BY DEF ExportSnapshot, LiveView, Tables, Snapshots

LEMMA LoadedType ==
  ASSUME file \in Files, SnapshotWhole
  PROVE  Loaded \in Snapshots /\ Loaded.entries \in Tables /\ Loaded.versions \in Versions
<1>1. EmptySnapshot \in Snapshots
  BY DEF EmptySnapshot, Snapshots, EmptyTable, NoVersions, Tables, Versions
<1>2. file["snapshot"] = NoFile \/ file["snapshot"] \in Snapshots
  BY DEF Files, FileNames, Contents, SnapshotWhole
<1> QED
  BY <1>1, <1>2 DEF Loaded, Snapshots

LEMMA ReplayedType ==
  ASSUME file \in Files, file["aof"] # NoFile, SnapshotWhole
  PROVE  /\ Base \in Snapshots
         /\ AofEvents \in Seq(Events)
         /\ Replayed \in Snapshots
<1>1. file["aof"] \in Seq(Chunks)
  BY DEF Files, FileNames, Contents
<1>2. AofEvents \in Seq(Events)
  BY <1>1, ReadEventsType DEF AofEvents
<1>3. Base \in Snapshots
  BY LoadedType, ExportType DEF Base
<1>4. ApplyEvents(Base, AofEvents) \in Snapshots
  <2>1. Len(AofEvents) \in 0 .. Len(AofEvents)
    BY <1>2, LenProperties
  <2> QED
    BY <1>2, <1>3, <2>1, ReplaysIs DEF ApplyEvents
<1> QED
  BY <1>2, <1>3, <1>4 DEF Replayed, AofEvents

\* The appends.
LEMMA AppendType ==
  ASSUME file \in Files, file["aof"] # NoFile, NEW chunks \in Seq(Chunks), AppendChunks(chunks)
  PROVE  /\ file' \in Files /\ file'["aof"] # NoFile
         /\ file'["aof"] = file["aof"] \o chunks
         /\ file'["snapshot"] = file["snapshot"]
<1>1. file["aof"] \in Seq(Chunks) /\ "aof" \in FileNames /\ "snapshot" \in FileNames
  BY DEF Files, FileNames, Contents
<1>2. file["aof"] \o chunks \in Contents("aof")
  BY <1>1, ConcatProperties DEF Contents
<1>3. file' = [file EXCEPT !["aof"] = file["aof"] \o chunks]
  BY DEF AppendChunks
<1> DEFINE c == file["aof"] \o chunks
<1>4. c \in Contents("aof") /\ file' = Put(file, "aof", c)
  BY <1>2, <1>3 DEF Put
<1> HIDE DEF c
<1>5. c # NoFile
  BY <1>4, ContentsThere
<1>6. /\ file' \in Files /\ file'["aof"] = c
      /\ \A other \in FileNames : other # "aof" => file'[other] = file[other]
  BY <1>1, <1>4, FilesSet
<1> QED
  BY <1>1, <1>5, <1>6 DEF c

\* A thread that begins to save.
LEMMA BeginSaveType ==
  ASSUME Types, NEW t \in Savers, BeginSave(t), file' = file, temp' = temp
  PROVE  /\ saver' \in [Savers -> Save]
         /\ \A u \in Savers : saver'[u] = Idle \/ Saving(saver'[u], file', temp')
<1> DEFINE s == [pc      |-> "open",
                 target  |-> "snapshot",
                 content |-> ExportSnapshot(table, namespaceVersions, now),
                 marker  |-> mutationSeq,
                 handle  |-> "none"]
<1>1. ExportSnapshot(table, namespaceVersions, now) \in Snapshots /\ mutationSeq \in Nat
  BY ExportType DEF Types, StoreTypeOK
<1>2. s \in Save /\ Saving(s, file', temp')
  BY <1>1 DEF Save, Saving, FileNames, FileContents, SnapshotContents, Contents
<1>3. saver' = [saver EXCEPT ![t] = s]
  BY DEF BeginSave
<1> HIDE DEF s
<1> QED
  BY <1>2, <1>3, SaverSet

LEMMA OpenTempType ==
  ASSUME Types, NEW t \in Savers, OpenTemp(t)
  PROVE  Types'
<1> DEFINE target == saver[t].target
           s == [saver[t] EXCEPT !.pc = "write", !.handle = "temp"]
           c == IF target = "aof" THEN <<>> ELSE Emptied
<1>1. saver[t] \in Save /\ Saving(saver[t], file, temp) /\ target \in FileNames
  BY DEF Types, OpenTemp, Idle, Save
<1>2. c \in Contents(target) /\ c # NoFile
  <2>1. c \in Contents(target)
    <3>1. <<>> \in Seq(Chunks) /\ Emptied \in Snapshots \cup {Emptied, Garbled}
      OBVIOUS
    <3> QED
      BY <3>1 DEF Contents
  <2> HIDE DEF c, target
  <2> QED
    BY <2>1, ContentsThere
<1>3. temp' = [temp EXCEPT ![target] = c] /\ saver' = [saver EXCEPT ![t] = s]
  <2>1. saver' = [saver EXCEPT ![t].pc = "write", ![t].handle = "temp"]
    BY DEF OpenTemp
  <2> QED
    BY <2>1 DEF OpenTemp, Types
<1>4. /\ s \in Save /\ s.target = target /\ s.content = saver[t].content
      /\ s.pc = "write" /\ s.handle = "temp"
  BY <1>1 DEF Save
<1> HIDE DEF s, c, target
<1>5. /\ temp' \in Files /\ temp'[target] = c
      /\ \A other \in FileNames : other # target => temp'[other] = temp[other]
  <2>1. temp' = Put(temp, target, c) /\ temp \in Files
    BY <1>3 DEF Put, Types
  <2> QED
    BY <1>1, <1>2, <2>1, FilesSet
<1>6. Saving(s, file', temp')
  <2>1. s.content \in Contents(s.target) /\ temp'[s.target] # NoFile /\ s.handle = "temp"
    BY <1>1, <1>2, <1>4, <1>5 DEF Saving, target
  <2> QED
    BY <1>4, <2>1 DEF Saving
<1>7. \A name \in FileNames : temp[name] # NoFile => temp'[name] # NoFile
  BY <1>2, <1>5
<1>8. /\ saver' \in [Savers -> Save]
      /\ \A u \in Savers : saver'[u] = Idle \/ Saving(saver'[u], file', temp')
  <2>1. file' = file
    BY DEF OpenTemp
  <2> QED
    BY <1>3, <1>4, <1>6, <1>7, <2>1, SaverSet
<1> QED
  BY <1>5, <1>8 DEF Types, OpenTemp, storeVars, StoreTypeOK

LEMMA WriteTempType ==
  ASSUME Types, NEW t \in Savers, WriteTemp(t)
  PROVE  Types'
<1> DEFINE target == saver[t].target
           s == [saver[t] EXCEPT !.pc = "replace", !.handle = "none"]
<1>1. /\ saver[t] \in Save /\ Saving(saver[t], file, temp) /\ target \in FileNames
      /\ saver[t].content \in Contents(target)
  BY DEF Types, WriteTemp, Idle, Save, Saving
<1>2. saver' = [saver EXCEPT ![t] = s]
  <2>1. saver' = [saver EXCEPT ![t].pc = "replace", ![t].handle = "none"]
    BY DEF WriteTemp
  <2> QED
    BY <2>1 DEF Types
<1>3. s \in Save /\ s.pc = "replace" /\ s.handle = "none" /\ Saving(s, file', temp')
  BY <1>1 DEF Save, Saving
<1> HIDE DEF s
<1>4. ASSUME NEW f \in Files, NEW g \in Written(f, t), f[target] # NoFile
      PROVE  /\ g \in Files
             /\ \A name \in FileNames : f[name] # NoFile => g[name] # NoFile
  <2>1. f[target] \in Contents(target)
    BY <1>1, <1>4 DEF Files
  <2>2. PICK c \in Overwritten(target, f[target], saver[t].content) : g = [f EXCEPT ![target] = c]
    BY DEF Written
  <2>3. c \in Contents(target) /\ c # NoFile
    BY <1>1, <2>1, OverwrittenType, ContentsThere
  <2>4. g = Put(f, target, c)
    BY <2>2 DEF Put
  <2> HIDE DEF target
  <2> QED
    BY <1>1, <2>3, <2>4, FilesSet
<1>5. /\ temp' \in Files
      /\ \A name \in FileNames : temp[name] # NoFile => temp'[name] # NoFile
  <2>1. CASE saver[t].handle = "temp"
    <3>1. temp \in Files /\ temp[target] # NoFile /\ temp' \in Written(temp, t)
      BY <1>1, <2>1 DEF Types, Saving, WriteTemp
    <3> QED
      BY <1>4, <3>1
  <2>2. CASE saver[t].handle # "temp"
    BY <2>2 DEF WriteTemp, Types
  <2> QED
    BY <2>1, <2>2
<1>6. /\ file' \in Files /\ file'["aof"] # NoFile
      /\ \A name \in FileNames : file[name] # NoFile => file'[name] # NoFile
  <2>1. CASE saver[t].handle = "dest"
    <3>1. file \in Files /\ file[target] # NoFile /\ file' \in Written(file, t)
      BY <1>1, <2>1 DEF Types, Saving, WriteTemp
    <3> QED
      BY <1>4, <3>1 DEF FileNames, Types
  <2>2. CASE saver[t].handle # "dest"
    BY <2>2 DEF WriteTemp, Types
  <2> QED
    BY <2>1, <2>2
<1>7. /\ saver' \in [Savers -> Save]
      /\ \A u \in Savers : saver'[u] = Idle \/ Saving(saver'[u], file', temp')
  BY <1>2, <1>3, <1>5, <1>6, SaverSet
<1> QED
  BY <1>5, <1>6, <1>7 DEF Types, WriteTemp, storeVars, StoreTypeOK

\* A handle that was open before a rename is still one, and what a save that
\* has no file open does not change.
LEMMA RenamedType ==
  ASSUME NEW s \in Save
  PROVE  /\ [s EXCEPT !.handle = Renamed(@)] \in Save
         /\ [s EXCEPT !.handle = Renamed(@)].handle # "temp"
         /\ [s EXCEPT !.handle = Renamed(@)].handle = "dest" => s.handle = "temp"
         /\ s.handle = "none" => [s EXCEPT !.handle = Renamed(@)] = s
<1>1. s.handle \in {"none", "temp", "dest", "orphan"}
  BY DEF Save
<1>2. /\ Renamed(s.handle) \in {"none", "dest", "orphan"}
      /\ Renamed(s.handle) = "dest" => s.handle = "temp"
      /\ s.handle = "none" => Renamed(s.handle) = "none"
  BY <1>1 DEF Renamed
<1> DEFINE handle == Renamed(s.handle)
<1> HIDE DEF handle
<1>3. [s EXCEPT !.handle = Renamed(@)] = [s EXCEPT !.handle = handle]
  BY DEF handle
<1>4. handle \in {"none", "dest", "orphan"} /\ (handle = "dest" => s.handle = "temp")
  BY <1>2 DEF handle
<1>5. s.handle = "none" => handle = s.handle
  BY <1>2 DEF handle
<1>6. [s EXCEPT !.handle = handle] \in Save /\ [s EXCEPT !.handle = handle].handle = handle
  BY <1>4 DEF Save
<1>7. s.handle = "none" => [s EXCEPT !.handle = handle] = s
  BY <1>5 DEF Save
<1> QED
  BY <1>3, <1>4, <1>6, <1>7

LEMMA ReplaceType ==
  ASSUME Types, NEW t \in Savers, Replace(t)
  PROVE  Types'
<1> DEFINE target == saver[t].target
           s == IF target = "snapshot" THEN [saver[t] EXCEPT !.pc = "read"] ELSE Idle
<1>1. /\ saver[t] \in Save /\ Saving(saver[t], file, temp) /\ target \in FileNames
      /\ saver[t].handle = "none" /\ saver[t].pc = "replace"
  <2>1. saver[t] \in Save /\ (saver[t] = Idle \/ Saving(saver[t], file, temp))
    BY DEF Types
  <2>2. saver[t].pc = "replace" /\ saver[t] # Idle
    BY DEF Replace, Idle
  <2> QED
    BY <2>1, <2>2 DEF Saving, Save
<1>2. CASE temp[target] = NoFile
  <2>1. saver' = [saver EXCEPT ![t] = Idle] /\ file' = file /\ temp' = temp
    BY <1>2 DEF Replace
  <2>2. /\ saver' \in [Savers -> Save]
        /\ \A u \in Savers : saver'[u] = Idle \/ Saving(saver'[u], file', temp')
    BY <2>1, IdleType, SaverSet
  <2> QED
    BY <2>1, <2>2 DEF Types, Replace, storeVars, StoreTypeOK
<1>3. CASE temp[target] # NoFile
  <2>1. /\ file' = Put(file, target, temp[target])
        /\ temp' = Put(temp, target, NoFile)
        /\ saver' = [[u \in Savers |-> IF saver[u].target = target
                                       THEN [saver[u] EXCEPT !.handle = Renamed(@)]
                                       ELSE saver[u]] EXCEPT ![t] = s]
    BY <1>3 DEF Replace, Put
  <2>2. file \in Files /\ temp \in Files /\ temp[target] \in Contents(target)
    BY <1>1, <1>3 DEF Types, Files
  <2>3. s \in Save /\ (s = Idle \/ Saving(s, file', temp'))
    <3>1. CASE target = "snapshot"
      <4>1. /\ s \in Save /\ s.pc = "read" /\ s.handle = "none" /\ s.target = target
            /\ s.content = saver[t].content
        BY <1>1, <3>1 DEF Save
      <4> HIDE DEF s
      <4> QED
        BY <1>1, <4>1 DEF Saving
    <3>2. CASE target # "snapshot"
      BY <3>2, IdleType
    <3> QED
      BY <3>1, <3>2
  <2> HIDE DEF target, s
  <2>4. /\ file' \in Files /\ file'[target] = temp[target]
        /\ \A other \in FileNames : other # target => file'[other] = file[other]
    BY <1>1, <2>1, <2>2, FilesSet
  <2>5. /\ temp' \in Files
        /\ \A other \in FileNames : other # target => temp'[other] = temp[other]
    BY <1>1, <2>1, <2>2, FilesSet
  <2>6. file'["aof"] # NoFile
    BY <1>3, <2>4 DEF Types, FileNames
  <2>7. ASSUME NEW u \in Savers, u # t
        PROVE  saver'[u] \in Save /\ (saver'[u] = Idle \/ Saving(saver'[u], file', temp'))
    <3>1. saver[u] \in Save /\ (saver[u] = Idle \/ Saving(saver[u], file, temp))
      BY DEF Types
    <3>2. CASE saver[u].target # target
      <4>1. saver'[u] = saver[u] /\ saver[u].target \in FileNames
        BY <2>1, <2>7, <3>1, <3>2 DEF Save
      <4> QED
        BY <2>4, <2>5, <3>1, <3>2, <4>1 DEF Saving
    <3>3. CASE saver[u].target = target
      <4>1. saver'[u] = [saver[u] EXCEPT !.handle = Renamed(@)]
        BY <2>1, <2>7, <3>3
      <4>2. /\ saver'[u] \in Save
            /\ saver'[u].handle # "temp"
            /\ saver'[u].handle = "dest" => saver[u].handle = "temp"
            /\ saver[u].handle = "none" => saver'[u] = saver[u]
        BY <3>1, <4>1, RenamedType
      <4>3. CASE saver[u] = Idle
        BY <4>2, <4>3 DEF Idle
      <4>4. CASE Saving(saver[u], file, temp)
        <5>1. /\ saver'[u].pc = saver[u].pc /\ saver'[u].target = target
              /\ saver'[u].content = saver[u].content
          BY <3>1, <3>3, <4>1 DEF Save
        <5>2. file'[target] # NoFile
          BY <1>3, <2>4
        <5>3. saver'[u].pc # "write" => saver'[u].handle = "none"
          BY <4>2, <4>4, <5>1 DEF Saving
        <5> QED
          BY <3>3, <4>2, <4>4, <5>1, <5>2, <5>3 DEF Saving
      <4> QED
        BY <3>1, <4>2, <4>3, <4>4
    <3> QED
      BY <3>2, <3>3
  <2>8. saver'[t] = s /\ DOMAIN saver' = Savers /\ saver' = [u \in Savers |-> saver'[u]]
    BY <2>1
  <2>9. /\ saver' \in [Savers -> Save]
        /\ \A u \in Savers : saver'[u] = Idle \/ Saving(saver'[u], file', temp')
    BY <2>3, <2>7, <2>8
  <2> QED
    BY <2>4, <2>5, <2>6, <2>9 DEF Types, Replace, storeVars, StoreTypeOK
<1> QED
  BY <1>2, <1>3

LEMMA ReadAofType ==
  ASSUME Types, NEW t \in Savers, ReadAof(t)
  PROVE  Types'
<1> DEFINE kept == Lines(EventsAfter(ReadEvents(file["aof"]), saver[t].marker))
           s == IF Readable(file["aof"], RecoveryMode)
                THEN [saver[t] EXCEPT !.pc = "open", !.target = "aof", !.content = kept]
                ELSE Idle
<1>1. saver[t] \in Save /\ Saving(saver[t], file, temp) /\ saver[t].handle = "none"
  <2>1. saver[t] \in Save /\ (saver[t] = Idle \/ Saving(saver[t], file, temp))
    BY DEF Types
  <2>2. saver[t].pc = "read" /\ saver[t] # Idle
    BY DEF ReadAof, Idle
  <2> QED
    BY <2>1, <2>2 DEF Saving, Save
<1>2. kept \in Seq(Chunks)
  <2>1. file["aof"] \in Seq(Chunks)
    BY DEF Types, Files, FileNames, Contents
  <2> QED
    BY <2>1, ReadEventsType, EventsAfterType, ReadLines
<1>3. saver' = [saver EXCEPT ![t] = s]
  BY DEF ReadAof, Types
<1> HIDE DEF kept
<1>4. s \in Save /\ (s = Idle \/ Saving(s, file', temp'))
  <2>1. CASE Readable(file["aof"], RecoveryMode)
    <3> DEFINE x == [saver[t] EXCEPT !.pc = "open", !.target = "aof", !.content = kept]
    <3>1. /\ x \in Save /\ x.pc = "open" /\ x.target = "aof" /\ x.content = kept
          /\ x.handle = "none"
      BY <1>1, <1>2 DEF Save, FileContents, FileNames
    <3>2. s = x
      BY <2>1
    <3> HIDE DEF x
    <3> QED
      BY <1>2, <3>1, <3>2 DEF Saving, Contents
  <2>2. CASE ~Readable(file["aof"], RecoveryMode)
    BY <2>2, IdleType
  <2> QED
    BY <2>1, <2>2
<1> HIDE DEF s
<1>5. file' = file /\ temp' = temp
  BY DEF ReadAof
<1>6. /\ saver' \in [Savers -> Save]
      /\ \A u \in Savers : saver'[u] = Idle \/ Saving(saver'[u], file', temp')
  BY <1>3, <1>4, <1>5, SaverSet
<1> QED
  BY <1>5, <1>6 DEF Types, ReadAof, storeVars, StoreTypeOK

\* A crash in the middle of an append is one in the middle of an event.
LEMMA TornEvent ==
  ASSUME StoreTypeOK, NEW outcome \in MutationOutcomes, outcome.events # <<>>
  PROVE  outcome.events[1] \in Events /\ outcome.events = <<outcome.events[1]>>
<1>1. PICK e \in Events : outcome.events = <<e>>
  BY OutcomeIsReplay
<1> QED
  BY <1>1

LEMMA RestartType ==
  ASSUME Types, Restart
  PROVE  StoreTypeOK'
<1>1. file \in Files /\ file["aof"] # NoFile /\ SnapshotWhole /\ now \in Nat /\ now' = now
  BY DEF Types, Restart, CanStart, SnapshotWhole, StoreTypeOK
<1>2. Base \in Snapshots /\ AofEvents \in Seq(Events) /\ Replayed \in Snapshots
  BY <1>1, ReplayedType
<1>3. Loaded.entries \in Tables
  BY <1>1, LoadedType
<1>4. table' \in Tables /\ namespaceVersions' \in Versions
  BY <1>2, <1>3 DEF Restart, Imported, Snapshots
<1>5. mutationSeq' \in Nat
  <2>1. mutationSeq' = Larger(0, MaxSeqOf(AofEvents))
    BY DEF Restart, RestoredSeq, AofEvents
  <2> QED
    BY <1>2, <2>1, MaxSeqIs DEF Larger
<1> QED
  BY <1>1, <1>4, <1>5 DEF StoreTypeOK

LEMMA TypesKept == Types /\ [Next]_vars => Types'
<1> SUFFICES ASSUME Types, [Next]_vars
             PROVE  Types'
  OBVIOUS
<1>1. ASSUME NEW sk \in StorageKeys, Read(sk) PROVE Types'
  <2>1. StoreTypeOK'
    <3>1. ReadTable(sk) \in Tables
      BY ReadTableShape DEF Types
    <3> QED
      BY <1>1, <3>1 DEF Types, Read, Perform, GetOutcome, Silent, StoreTypeOK
  <2> QED
    BY <1>1, <2>1 DEF Types, Read, processVars
<1>2. CASE Mutate
  <2>1. PICK outcome \in MutationOutcomes : Perform(outcome) /\ AppendChunks(Lines(outcome.events))
    BY <1>2 DEF Mutate
  <2>2. outcome.events \in Seq(Events) /\ StoreTypeOK'
    BY <2>1, OutcomeType DEF Types
  <2>3. Lines(outcome.events) \in Seq(Chunks)
    BY <2>2, ReadLines
  <2>4. file' \in Files /\ file'["aof"] # NoFile
    BY <2>1, <2>3, AppendType DEF Types
  <2>5. \A t \in Savers : saver[t] = Idle \/ Saving(saver[t], file', temp)
    <3>1. file'["snapshot"] = file["snapshot"]
      BY <2>1, <2>3, AppendType DEF Types
    <3>2. \A t \in Savers : saver[t].target \in {"snapshot", "aof"}
      BY DEF Types, Save, FileNames
    <3> QED
      BY <2>4, <3>1, <3>2 DEF Types, Saving
  <2> QED
    BY <1>2, <2>2, <2>4, <2>5 DEF Types, Mutate
<1>3. ASSUME NEW t \in Requests, RequestSave(t) PROVE Types'
  <2>1. t \in Savers /\ BeginSave(t) /\ file' = file /\ temp' = temp
    BY <1>3 DEF Savers, RequestSave
  <2>2. /\ saver' \in [Savers -> Save]
        /\ \A u \in Savers : saver'[u] = Idle \/ Saving(saver'[u], file', temp')
    BY <2>1, BeginSaveType
  <2> QED
    BY <1>3, <2>2 DEF Types, RequestSave, storeVars, StoreTypeOK
<1>4. ASSUME NEW t \in Savers, SaveStep(t) PROVE Types'
  BY <1>4, OpenTempType, WriteTempType, ReplaceType, ReadAofType DEF SaveStep
<1>5. CASE Shutdown
  <2>1. Lifespan \in Savers /\ BeginSave(Lifespan) /\ file' = file /\ temp' = temp
    BY <1>5 DEF Savers, Shutdown
  <2>2. /\ saver' \in [Savers -> Save]
        /\ \A u \in Savers : saver'[u] = Idle \/ Saving(saver'[u], file', temp')
    BY <2>1, BeginSaveType
  <2> QED
    BY <1>5, <2>2 DEF Types, Shutdown, storeVars, StoreTypeOK
<1>6. CASE Exit
  BY <1>6 DEF Types, Exit, storeVars, StoreTypeOK
<1>7. NoSaves => saver' \in [Savers -> Save] /\ \A t \in Savers : saver'[t] = Idle
  BY IdleType DEF NoSaves
<1>8. CASE Crash
  BY <1>7, <1>8 DEF Types, Crash, storeVars, StoreTypeOK
<1>9. CASE CrashInAppend
  <2>1. PICK outcome \in MutationOutcomes :
           /\ outcome.events # <<>>
           /\ \/ /\ AppendChunks(<<Cut(outcome.events[1])>>)
                 /\ UNCHANGED storeVars
              \/ /\ AppendChunks(<<Unterminated(outcome.events[1])>>)
                 /\ Perform(outcome)
    BY <1>9 DEF CrashInAppend
  <2>2. outcome.events[1] \in Events
    BY <2>1, TornEvent DEF Types
  <2>3. /\ <<Cut(outcome.events[1])>> \in Seq(Chunks)
        /\ <<Unterminated(outcome.events[1])>> \in Seq(Chunks)
    BY <2>2 DEF Cut, Unterminated, Chunks
  <2>4. file' \in Files /\ file'["aof"] # NoFile
    BY <2>1, <2>3, AppendType DEF Types
  <2>5. StoreTypeOK'
    <3>1. UNCHANGED storeVars => StoreTypeOK'
      BY DEF Types, storeVars, StoreTypeOK
    <3> QED
      BY <2>1, <3>1, OutcomeType DEF Types
  <2> QED
    BY <1>7, <1>9, <2>4, <2>5 DEF Types, CrashInAppend
<1>10. CASE Restart
  <2>1. restarts' \in 0 .. MaxRestarts
    BY <1>10, SettingsAssumption DEF Types, Restart
  <2> QED
    BY <1>10, <2>1, RestartType DEF Types, Restart
<1>11. CASE Tick
  <2>1. StoreTypeOK'
    BY <1>11 DEF Tick, Types, StoreTypeOK
  <2> QED
    BY <1>11, <2>1 DEF Types, Tick, processVars
<1>12. CASE UNCHANGED vars
  BY <1>12 DEF Types, vars, storeVars, processVars, StoreTypeOK
<1> QED
  BY <1>1, <1>2, <1>3, <1>4, <1>5, <1>6, <1>8, <1>9, <1>10, <1>11, <1>12 DEF Next

\* Memory, files and saves keep their types, whatever the settings: also where
\* saves run into each other and writes land on a torn tail.
THEOREM TypeCorrect == Spec => []TypeOK
<1>1. Spec => []Types
  BY TypesInit, TypesKept, PTL DEF Spec
<1> QED
  BY <1>1, TypesImplyTypeOK, PTL

------------------------------------------------------------------------------
(***************************************************************************)
(* Snapshots that show the same.                                           *)
(***************************************************************************)

LEMMA SnapshotParts ==
  ASSUME NEW s \in Snapshots
  PROVE  /\ s.entries \in Tables /\ s.versions \in Versions
         /\ \A sk \in StorageKeys : /\ sk[1] \in Namespaces /\ s.versions[sk[1]] \in Nat
                                    /\ s.entries[sk] \in Record \cup {Missing}
                                    /\ s.entries[sk] # Missing => s.entries[sk].version \in Nat
BY NamespaceOfKey DEF Snapshots, Tables, Versions, Record

\* Liveness is a matter of the record, the version and the time alone.
LEMMA LiveSame ==
  ASSUME NEW s, NEW q, NEW at, NEW sk \in StorageKeys,
         s.entries[sk] = q.entries[sk], s.versions[sk[1]] = q.versions[sk[1]]
  PROVE  IsLive(s.entries, s.versions, at, sk) <=> IsLive(q.entries, q.versions, at, sk)
BY DEF IsLive

LEMMA ShowsItself ==
  ASSUME NEW s \in Snapshots, NotAhead(s.entries, s.versions), NEW at
  PROVE  Shows(s, s, at)
BY DEF Shows

LEMMA ShowsBack ==
  ASSUME NEW s, NEW q \in Snapshots, NotAhead(q.entries, q.versions), NEW at, Shows(s, q, at)
  PROVE  Shows(q, s, at)
<1>1. s \in Snapshots /\ s.versions = q.versions
  BY DEF Shows
<1>2. ASSUME NEW sk \in StorageKeys
      PROVE  IF IsLive(s.entries, s.versions, at, sk)
             THEN q.entries[sk] = s.entries[sk]
             ELSE ~IsLive(q.entries, q.versions, at, sk)
  BY <1>1, LiveSame DEF Shows
<1> QED
  BY <1>1, <1>2 DEF Shows

LEMMA ShowsThrough ==
  ASSUME NEW s, NEW q, NEW r, NEW at, Shows(s, q, at), Shows(q, r, at)
  PROVE  Shows(s, r, at)
<1>1. s \in Snapshots /\ s.versions = q.versions /\ q.versions = r.versions
  BY DEF Shows
<1>2. ASSUME NEW sk \in StorageKeys
      PROVE  IF IsLive(r.entries, r.versions, at, sk)
             THEN s.entries[sk] = r.entries[sk]
             ELSE ~IsLive(s.entries, s.versions, at, sk)
  BY <1>1, LiveSame DEF Shows
<1> QED
  BY <1>1, <1>2 DEF Shows

\* What is dead stays dead.
LEMMA DeadStaysDead ==
  ASSUME NEW s \in Snapshots, NEW at \in Int, NEW sk \in StorageKeys,
         IsLive(s.entries, s.versions, at + 1, sk)
  PROVE  IsLive(s.entries, s.versions, at, sk)
<1>1. s.entries[sk] \in Record
  BY SnapshotParts DEF IsLive
<1>2. s.entries[sk].expires \in Int \cup {Never}
  BY <1>1 DEF Record
<1> QED
  BY <1>2, NeverAssumption DEF IsLive, IsExpired

LEMMA ShowsLater ==
  ASSUME NEW s, NEW q \in Snapshots, NEW at \in Int, Shows(s, q, at)
  PROVE  Shows(s, q, at + 1)
<1>1. s \in Snapshots /\ s.versions = q.versions
  BY DEF Shows
<1>2. ASSUME NEW sk \in StorageKeys
      PROVE  IF IsLive(q.entries, q.versions, at + 1, sk)
             THEN s.entries[sk] = q.entries[sk]
             ELSE ~IsLive(s.entries, s.versions, at + 1, sk)
  <2>1. CASE IsLive(q.entries, q.versions, at, sk)
    <3>1. s.entries[sk] = q.entries[sk]
      BY <2>1 DEF Shows
    <3> QED
      BY <1>1, <3>1, LiveSame
  <2>2. CASE ~IsLive(q.entries, q.versions, at, sk)
    <3>1. ~IsLive(s.entries, s.versions, at, sk)
      BY <2>2 DEF Shows
    <3>2. ~IsLive(q.entries, q.versions, at + 1, sk) /\ ~IsLive(s.entries, s.versions, at + 1, sk)
      BY <1>1, <2>2, <3>1, DeadStaysDead
    <3> QED
      BY <3>2
  <2> QED
    BY <2>1, <2>2
<1> QED
  BY <1>1, <1>2 DEF Shows

\* An event that leaves the versions where they are, or takes one past every
\* record, does the same to both.
LEMMA ShowsEvent ==
  ASSUME NEW s, NEW q \in Snapshots, NotAhead(q.entries, q.versions), NEW at, Shows(s, q, at),
         NEW e \in Events,
         e.op = "upsert" => e.record.version = q.versions[e.key[1]],
         e.op = "invalidate" => e.version = q.versions[e.namespace] + 1
  PROVE  /\ Shows(ApplyEvent(s, e), ApplyEvent(q, e), at)
         /\ NotAhead(ApplyEvent(q, e).entries, ApplyEvent(q, e).versions)
         /\ \A ns \in Namespaces : q.versions[ns] <= ApplyEvent(q, e).versions[ns]
<1> DEFINE x == ApplyEvent(s, e)
           y == ApplyEvent(q, e)
<1>1. s \in Snapshots /\ s.versions = q.versions /\ NotAhead(s.entries, s.versions)
  BY DEF Shows
<1>2. x \in Snapshots /\ y \in Snapshots
  BY <1>1, ApplyEventType
<1>3. ASSUME NEW sk \in StorageKeys
      PROVE  /\ x.entries[sk] = IF e.op = "upsert" /\ sk = e.key THEN e.record
                                ELSE IF e.op = "delete" /\ sk = e.key THEN Missing
                                ELSE s.entries[sk]
             /\ y.entries[sk] = IF e.op = "upsert" /\ sk = e.key THEN e.record
                                ELSE IF e.op = "delete" /\ sk = e.key THEN Missing
                                ELSE q.entries[sk]
  BY <1>1, ApplyEventIs
<1>4. ASSUME NEW ns \in Namespaces
      PROVE  /\ x.versions[ns] = IF e.op = "upsert" /\ ns = e.key[1]
                                 THEN Larger(s.versions[ns], e.record.version)
                                 ELSE IF e.op = "invalidate" /\ ns = e.namespace THEN e.version
                                 ELSE s.versions[ns]
             /\ y.versions[ns] = IF e.op = "upsert" /\ ns = e.key[1]
                                 THEN Larger(q.versions[ns], e.record.version)
                                 ELSE IF e.op = "invalidate" /\ ns = e.namespace THEN e.version
                                 ELSE q.versions[ns]
  BY <1>1, ApplyEventIs
<1> HIDE DEF x, y
<1>5. ASSUME NEW ns \in Namespaces
      PROVE  /\ x.versions[ns] = y.versions[ns]
             /\ y.versions[ns] = IF e.op = "invalidate" /\ ns = e.namespace
                                 THEN q.versions[ns] + 1 ELSE q.versions[ns]
             /\ q.versions[ns] \in Nat
  <2>1. q.versions[ns] \in Nat
    BY DEF Snapshots, Versions
  <2>2. e.op = "upsert" /\ ns = e.key[1] => Larger(q.versions[ns], e.record.version) = q.versions[ns]
    BY <2>1 DEF Larger
  <2> QED
    BY <1>1, <1>4, <2>1, <2>2
<1>6. x.versions = y.versions
  BY <1>2, <1>5 DEF Snapshots, Versions
<1>7. ASSUME NEW sk \in StorageKeys
      PROVE  /\ x.entries[sk] # Missing => x.entries[sk].version <= x.versions[sk[1]]
             /\ y.entries[sk] # Missing => y.entries[sk].version <= y.versions[sk[1]]
  <2>1. /\ sk[1] \in Namespaces
        /\ q.versions[sk[1]] <= y.versions[sk[1]] /\ x.versions[sk[1]] = y.versions[sk[1]]
        /\ q.versions[sk[1]] \in Nat /\ y.versions[sk[1]] \in Nat
    BY <1>5, NamespaceOfKey
  <2>2. CASE e.op = "upsert" /\ sk = e.key
    <3>1. e.record.version = q.versions[sk[1]]
      BY <2>2
    <3> QED
      BY <1>3, <2>1, <2>2, <3>1
  <2>3. CASE ~(e.op = "upsert" /\ sk = e.key)
    <3>1. /\ x.entries[sk] = Missing \/ x.entries[sk] = s.entries[sk]
          /\ y.entries[sk] = Missing \/ y.entries[sk] = q.entries[sk]
      BY <1>3, <2>3
    <3>2. /\ s.entries[sk] # Missing => s.entries[sk].version <= q.versions[sk[1]]
          /\ q.entries[sk] # Missing => q.entries[sk].version <= q.versions[sk[1]]
          /\ s.entries[sk] # Missing => s.entries[sk].version \in Nat
          /\ q.entries[sk] # Missing => q.entries[sk].version \in Nat
      BY <1>1, SnapshotParts DEF NotAhead
    <3> QED
      BY <2>1, <3>1, <3>2
  <2> QED
    BY <2>2, <2>3
<1>8. ASSUME NEW sk \in StorageKeys
      PROVE  IF IsLive(y.entries, y.versions, at, sk)
             THEN x.entries[sk] = y.entries[sk]
             ELSE ~IsLive(x.entries, x.versions, at, sk)
  <2>1. CASE x.entries[sk] = y.entries[sk]
    BY <1>6, <2>1, LiveSame
  <2>2. CASE x.entries[sk] # y.entries[sk]
    <3>1. /\ x.entries[sk] = s.entries[sk] /\ y.entries[sk] = q.entries[sk]
          /\ s.entries[sk] # q.entries[sk]
      BY <1>3, <2>2
    <3>2. ~IsLive(q.entries, q.versions, at, sk) /\ ~IsLive(s.entries, s.versions, at, sk)
      BY <3>1 DEF Shows
    <3>3. /\ q.versions[sk[1]] <= y.versions[sk[1]] /\ x.versions[sk[1]] = y.versions[sk[1]]
          /\ q.versions[sk[1]] \in Nat /\ y.versions[sk[1]] \in Nat
      BY <1>5, NamespaceOfKey
    <3>4. /\ s.entries[sk] # Missing => s.entries[sk].version \in Nat
          /\ q.entries[sk] # Missing => q.entries[sk].version \in Nat
      BY <1>1, SnapshotParts
    <3>5. ~IsLive(y.entries, y.versions, at, sk)
      BY <3>1, <3>2, <3>3, <3>4 DEF IsLive, IsStale
    <3>6. ~IsLive(x.entries, x.versions, at, sk)
      BY <1>1, <3>1, <3>2, <3>3, <3>4 DEF IsLive, IsStale
    <3> QED
      BY <3>5, <3>6
  <2> QED
    BY <2>1, <2>2
<1>9. Shows(x, y, at) /\ NotAhead(y.entries, y.versions)
  BY <1>2, <1>6, <1>7, <1>8 DEF Shows, NotAhead
<1> QED
  BY <1>5, <1>9 DEF x, y

\* A trimmed snapshot shows what the other one does.
LEMMA TrimmedShows ==
  ASSUME NEW s \in Snapshots, NEW q, NEW r, NEW at, Trimmed(s, q, at), Shows(q, r, at)
  PROVE  Shows(s, r, at)
<1>1. q \in Snapshots /\ s.versions = q.versions /\ q.versions = r.versions
  BY DEF Trimmed, Shows
<1>2. NotAhead(s.entries, s.versions)
  BY <1>1 DEF Trimmed, Shows, NotAhead
<1>3. ASSUME NEW sk \in StorageKeys
      PROVE  IF IsLive(r.entries, r.versions, at, sk)
             THEN s.entries[sk] = r.entries[sk]
             ELSE ~IsLive(s.entries, s.versions, at, sk)
  <2>1. CASE s.entries[sk] = q.entries[sk]
    BY <1>1, <2>1, LiveSame DEF Shows
  <2>2. CASE s.entries[sk] = Missing /\ ~IsLive(q.entries, q.versions, at, sk)
    <3>1. ~IsLive(r.entries, r.versions, at, sk)
      <4>1. ASSUME IsLive(r.entries, r.versions, at, sk) PROVE FALSE
        <5>1. q.entries[sk] = r.entries[sk]
          BY <4>1 DEF Shows
        <5>2. IsLive(q.entries, q.versions, at, sk)
          BY <1>1, <4>1, <5>1, LiveSame
        <5> QED
          BY <2>2, <5>2
      <4> QED
        BY <4>1
    <3>2. ~IsLive(s.entries, s.versions, at, sk)
      BY <2>2 DEF IsLive
    <3> QED
      BY <3>1, <3>2
  <2> QED
    BY <2>1, <2>2 DEF Trimmed
<1> QED
  BY <1>1, <1>2, <1>3 DEF Shows

\* It stays trimmed as time goes by, and when both replay the same events and
\* the versions have not gone back by then.
LEMMA TrimmedLater ==
  ASSUME NEW s, NEW q \in Snapshots, NEW at \in Int, Trimmed(s, q, at)
  PROVE  Trimmed(s, q, at + 1)
BY DeadStaysDead DEF Trimmed

LEMMA SameVersions ==
  ASSUME NEW s \in Snapshots, NEW q \in Snapshots, NEW E \in Seq(Events), s.versions = q.versions
  PROVE  ApplyEvents(s, E).versions = ApplyEvents(q, E).versions
<1>1. Len(E) \in Nat
  BY LenProperties
<1> DEFINE N == Len(E)
           x == Replays(s, E)[N]
           y == Replays(q, E)[N]
<1>2. N \in 0 .. Len(E) /\ N \in Nat
  BY <1>1
<1>3. x \in Snapshots /\ y \in Snapshots
  BY <1>2, ReplaysIs
<1> HIDE DEF N
<1>4. ASSUME NEW ns \in Namespaces PROVE x.versions[ns] = y.versions[ns]
  <2>1. s.versions[ns] <= q.versions[ns] /\ q.versions[ns] <= s.versions[ns]
    BY DEF Snapshots, Versions
  <2>2. x.versions[ns] <= y.versions[ns]
    BY <1>2, <2>1, VersionsOver
  <2>3. y.versions[ns] <= x.versions[ns]
    BY <1>2, <2>1, VersionsOver
  <2>4. x.versions[ns] \in Nat /\ y.versions[ns] \in Nat
    BY <1>3 DEF Snapshots, Versions
  <2> HIDE DEF x, y
  <2> QED
    BY <2>2, <2>3, <2>4
<1>5. x.versions = y.versions
  BY <1>3, <1>4 DEF Snapshots, Versions
<1> QED
  BY <1>5 DEF ApplyEvents, N

LEMMA TrimmedReplay ==
  ASSUME NEW s \in Snapshots, NEW q \in Snapshots, NEW E \in Seq(Events), NEW at,
         Trimmed(s, q, at),
         \A ns \in Namespaces : q.versions[ns] <= ApplyEvents(q, E).versions[ns]
  PROVE  /\ ApplyEvents(s, E) \in Snapshots
         /\ Trimmed(ApplyEvents(s, E), ApplyEvents(q, E), at)
<1> DEFINE N == Len(E)
           x == ApplyEvents(s, E)
           y == ApplyEvents(q, E)
<1>1. N \in 0 .. Len(E)
  BY LenProperties
<1>2. x \in Snapshots /\ y \in Snapshots
  BY <1>1, ReplaysIs DEF ApplyEvents
<1>3. x.versions = y.versions
  BY SameVersions DEF Trimmed
<1>4. ASSUME NEW sk \in StorageKeys
      PROVE  \/ x.entries[sk] = y.entries[sk]
             \/ x.entries[sk] = s.entries[sk] /\ y.entries[sk] = q.entries[sk]
  BY <1>1, EntriesOver DEF ApplyEvents
<1> HIDE DEF x, y, N
<1>5. ASSUME NEW sk \in StorageKeys
      PROVE  \/ x.entries[sk] = y.entries[sk]
             \/ x.entries[sk] = Missing /\ ~IsLive(y.entries, y.versions, at, sk)
  <2>1. CASE x.entries[sk] = y.entries[sk]
    BY <2>1
  <2>2. CASE /\ x.entries[sk] = s.entries[sk] /\ y.entries[sk] = q.entries[sk]
             /\ s.entries[sk] = Missing /\ ~IsLive(q.entries, q.versions, at, sk)
    <3>1. q.versions[sk[1]] <= y.versions[sk[1]]
      BY NamespaceOfKey DEF y
    <3>2. /\ q.versions[sk[1]] \in Nat /\ y.versions[sk[1]] \in Nat
          /\ q.entries[sk] # Missing => q.entries[sk].version \in Nat
      BY <1>2, SnapshotParts
    <3>3. ~IsLive(y.entries, y.versions, at, sk)
      BY <2>2, <3>1, <3>2 DEF IsLive, IsStale
    <3> QED
      BY <2>2, <3>3
  <2> QED
    BY <1>4, <2>1, <2>2 DEF Trimmed
<1> QED
  BY <1>2, <1>3, <1>5 DEF Trimmed, x, y

\* What is exported lacks only dead records.
LEMMA ExportTrims ==
  ASSUME NEW s \in Snapshots, NEW at
  PROVE  /\ ExportSnapshot(s.entries, s.versions, at) \in Snapshots
         /\ Trimmed(ExportSnapshot(s.entries, s.versions, at), s, at)
<1>1. s.entries \in Tables /\ s.versions \in Versions
  BY DEF Snapshots
<1>2. ExportSnapshot(s.entries, s.versions, at) \in Snapshots
  BY <1>1, ExportType
<1>3. Trimmed(ExportSnapshot(s.entries, s.versions, at), s, at)
  BY DEF ExportSnapshot, LiveView, Trimmed
<1> QED
  BY <1>2, <1>3

------------------------------------------------------------------------------
(***************************************************************************)
(* What a step of the engine or of the clock leaves true of every snapshot *)
(* and every sequence of events, whichever file or save they belong to.    *)
(***************************************************************************)

Kept ==
    /\ \A s : Agrees(s) => Agrees(s)'
    /\ \A s : NotNewer(s) => NotNewer(s)'
    /\ \A s \in Snapshots, events \in Seq(Events), marker \in Nat :
          Covers(s, marker, events) => Covers(s, marker, events)'

\* The versions of a later engine state are no older.
LEMMA NotNewerKept ==
  ASSUME StoreTypeOK, StoreTypeOK', NEW s, NotNewer(s),
         \A ns \in Namespaces : namespaceVersions[ns] <= namespaceVersions'[ns]
  PROVE  NotNewer(s)'
<1>1. s \in Snapshots
  BY DEF NotNewer
<1>2. ASSUME NEW ns \in Namespaces
      PROVE  /\ namespaceVersions[ns] \in Nat /\ namespaceVersions'[ns] \in Nat
             /\ s.versions[ns] \in Nat
  BY <1>1 DEF StoreTypeOK, Versions, Snapshots
<1>3. ASSUME NEW ns \in Namespaces PROVE s.versions[ns] <= namespaceVersions'[ns]
  <2>1. s.versions[ns] <= namespaceVersions[ns] /\ namespaceVersions[ns] <= namespaceVersions'[ns]
    BY DEF NotNewer
  <2> QED
    BY <1>2, <2>1
<1>4. ASSUME NEW sk \in StorageKeys, s.entries[sk] # Missing
      PROVE  s.entries[sk].version <= namespaceVersions'[sk[1]]
  <2>1. s.entries[sk].version <= namespaceVersions[sk[1]]
    BY <1>4 DEF NotNewer, NotAhead
  <2>2. s.entries[sk].version \in Nat /\ sk[1] \in Namespaces
    BY <1>1, <1>4, SnapshotParts
  <2>3. namespaceVersions[sk[1]] <= namespaceVersions'[sk[1]]
    BY <2>2
  <2> QED
    BY <1>2, <2>1, <2>2, <2>3
<1> QED
  BY <1>1, <1>3, <1>4 DEF NotNewer, NotAhead

\* A step that clients do not see.
LEMMA HiddenStep ==
  ASSUME StoreTypeOK, StoreTypeOK', NotAhead(table, namespaceVersions),
         Shows(Memory', Memory, now), now' = now
  PROVE  Kept /\ NotAhead(table, namespaceVersions)' /\ ClientView' = ClientView
<1>1. /\ Memory \in Snapshots /\ Memory' \in Snapshots
      /\ Memory.entries = table /\ Memory.versions = namespaceVersions
      /\ Memory'.entries = table' /\ Memory'.versions = namespaceVersions'
  BY DEF Memory, Snapshots, StoreTypeOK
<1>2. namespaceVersions' = namespaceVersions /\ NotAhead(table', namespaceVersions')
  BY <1>1 DEF Shows
<1>3. ASSUME NEW s, Agrees(s) PROVE Agrees(s)'
  <2>1. Shows(s, Memory, now)
    BY <1>3 DEF Agrees
  <2>2. Shows(Memory, Memory', now)
    BY <1>1, ShowsBack
  <2>3. Shows(s, Memory', now)
    BY <2>1, <2>2, ShowsThrough
  <2> QED
    BY <2>3 DEF Agrees
<1>4. ASSUME NEW s, NotNewer(s) PROVE NotNewer(s)'
  BY <1>2, <1>4 DEF NotNewer
<1>5. ASSUME NEW s \in Snapshots, NEW events \in Seq(Events), NEW marker \in Nat,
             Covers(s, marker, events)
      PROVE  Covers(s, marker, events)'
  BY <1>5 DEF Covers
<1>6. ClientView' = ClientView
  <2>1. ASSUME NEW sk \in StorageKeys PROVE ClientView'[sk] = ClientView[sk]
    <3>1. IF IsLive(table, namespaceVersions, now, sk)
          THEN table'[sk] = table[sk]
          ELSE ~IsLive(table', namespaceVersions', now', sk)
      BY <1>1 DEF Shows
    <3>2. table'[sk] = table[sk] =>
             (IsLive(table, namespaceVersions, now, sk)
                <=> IsLive(table', namespaceVersions', now', sk))
      BY <1>2 DEF IsLive
    <3>3. CASE Live(sk)
      <4>1. table'[sk] = table[sk] /\ Live(sk)'
        BY <3>1, <3>2, <3>3 DEF Live
      <4> QED
        BY <3>3, <4>1 DEF ClientView
    <3>4. CASE ~Live(sk)
      <4>1. ~Live(sk)'
        BY <3>1, <3>4 DEF Live
      <4> QED
        BY <3>4, <4>1 DEF ClientView
    <3> QED
      BY <3>3, <3>4
  <2> QED
    BY <2>1 DEF ClientView
<1> QED
  BY <1>2, <1>3, <1>4, <1>5, <1>6 DEF Kept

\* The clock.
LEMMA TickStep ==
  ASSUME StoreTypeOK, NotAhead(table, namespaceVersions), table' = table,
         namespaceVersions' = namespaceVersions, now' = now + 1
  PROVE  Kept
<1>1. Memory \in Snapshots /\ Memory' = Memory /\ now \in Int
  BY DEF Memory, Snapshots, StoreTypeOK
<1>2. ASSUME NEW s, Agrees(s) PROVE Agrees(s)'
  <2>1. Shows(s, Memory, now)
    BY <1>2 DEF Agrees
  <2>2. Shows(s, Memory, now + 1)
    BY <1>1, <2>1, ShowsLater
  <2> QED
    BY <1>1, <2>2 DEF Agrees
<1>3. ASSUME NEW s, NotNewer(s) PROVE NotNewer(s)'
  BY <1>3 DEF NotNewer
<1>4. ASSUME NEW s \in Snapshots, NEW events \in Seq(Events), NEW marker \in Nat,
             Covers(s, marker, events)
      PROVE  Covers(s, marker, events)'
  <2>1. PICK n \in 0 .. Len(events) :
           Splits(events, marker, n) /\ Trimmed(s, Replays(s, events)[n], now)
    BY <1>4 DEF Covers
  <2>2. Trimmed(s, Replays(s, events)[n], now')
    BY <1>1, <2>1, ReplaysIs, TrimmedLater
  <2> QED
    BY <2>1, <2>2 DEF Covers
<1> QED
  BY <1>2, <1>3, <1>4 DEF Kept

\* An operation and the event it logs.
LEMMA EventStep ==
  ASSUME StoreTypeOK, StoreTypeOK', NotAhead(table, namespaceVersions),
         NEW e \in Events, Current(e), table' = ApplyEvent(Memory, e).entries,
         namespaceVersions' = ApplyEvent(Memory, e).versions,
         mutationSeq' = mutationSeq + 1, now' = now
  PROVE  /\ NotAhead(table, namespaceVersions)'
         /\ \A s \in Snapshots, events \in Seq(Events) :
               Faithful(s, events) => Faithful(s, Append(events, e))'
         /\ \A s \in Snapshots, events \in Seq(Events), marker \in Nat :
               Covers(s, marker, events) /\ marker <= mutationSeq
                  => Covers(s, marker, Append(events, e))'
         /\ \A events \in Seq(Events) : Numbered(events) => Numbered(Append(events, e))'
<1>1. /\ Memory \in Snapshots
      /\ Memory.entries = table /\ Memory.versions = namespaceVersions
      /\ mutationSeq \in Nat /\ e.seq = mutationSeq + 1
  BY DEF Memory, Snapshots, StoreTypeOK, Current, NextSeq
<1>2. ApplyEvent(Memory, e) \in Snapshots
  BY <1>1, ApplyEventType
<1>3. Memory' = ApplyEvent(Memory, e)
  BY <1>2 DEF Memory, Snapshots
<1>4. ASSUME NEW s, Agrees(s)
      PROVE  Agrees(ApplyEvent(s, e))'
  <2>1. Shows(s, Memory, now)
    BY <1>4 DEF Agrees
  <2>2. Shows(ApplyEvent(s, e), ApplyEvent(Memory, e), now)
    BY <1>1, <2>1, ShowsEvent DEF Current
  <2> QED
    BY <1>3, <2>2 DEF Agrees
<1>5. /\ NotAhead(table', namespaceVersions')
      /\ \A ns \in Namespaces : namespaceVersions[ns] <= namespaceVersions'[ns]
  <2>1. Shows(Memory, Memory, now)
    BY <1>1, ShowsItself
  <2> QED
    BY <1>1, <2>1, ShowsEvent DEF Current
<1>6. ASSUME NEW s \in Snapshots, NEW events \in Seq(Events), Faithful(s, events)
      PROVE  Faithful(s, Append(events, e))'
  <2>1. NotNewer(s)'
    BY <1>5, <1>6, NotNewerKept DEF Faithful
  <2>2. Agrees(ApplyEvent(ApplyEvents(s, events), e))'
    BY <1>4, <1>6 DEF Faithful
  <2>3. ApplyEvents(s, Append(events, e)) = ApplyEvent(ApplyEvents(s, events), e)
    BY ReplayAppended
  <2> QED
    BY <2>1, <2>2, <2>3 DEF Faithful
<1>7. ASSUME NEW s \in Snapshots, NEW events \in Seq(Events), NEW marker \in Nat,
             Covers(s, marker, events), marker <= mutationSeq
      PROVE  Covers(s, marker, Append(events, e))'
  <2> DEFINE more == Append(events, e)
  <2>1. PICK n \in 0 .. Len(events) :
           Splits(events, marker, n) /\ Trimmed(s, Replays(s, events)[n], now)
    BY <1>7 DEF Covers
  <2>2. /\ Len(events) \in Nat /\ Len(more) = Len(events) + 1
        /\ \A i \in 1 .. Len(events) : more[i] = events[i]
        /\ more[Len(events) + 1] = e
    BY LenProperties, AppendProperties
  <2>3. Replays(s, more)[n] = Replays(s, events)[n]
    BY ReplayAppended
  <2>4. e.seq > marker
    BY <1>1, <1>7
  <2> HIDE DEF more
  <2>5. Splits(more, marker, n)
    <3>1. ASSUME NEW i \in 1 .. n PROVE more[i].seq <= marker
      <4>1. i \in 1 .. Len(events)
        BY <2>2
      <4> QED
        BY <2>1, <2>2, <4>1 DEF Splits
    <3>2. ASSUME NEW i \in n + 1 .. Len(more) PROVE more[i].seq > marker
      <4>1. CASE i = Len(events) + 1
        BY <2>2, <2>4, <4>1
      <4>2. CASE i # Len(events) + 1
        <5>1. i \in 1 .. Len(events) /\ i \in n + 1 .. Len(events)
          BY <2>2, <4>2
        <5> QED
          BY <2>1, <2>2, <5>1 DEF Splits
      <4> QED
        BY <4>1, <4>2
    <3> QED
      BY <3>1, <3>2 DEF Splits
  <2>6. n \in 0 .. Len(more)
    BY <2>2
  <2>7. Covers(s, marker, more)'
    BY <2>1, <2>3, <2>5, <2>6 DEF Covers
  <2> QED
    BY <2>7 DEF more
<1>8. ASSUME NEW events \in Seq(Events), Numbered(events)
      PROVE  Numbered(Append(events, e))'
  <2> DEFINE more == Append(events, e)
  <2>1. /\ Len(events) \in Nat /\ DOMAIN events = 1 .. Len(events)
        /\ DOMAIN more = 1 .. Len(events) + 1
        /\ \A i \in 1 .. Len(events) : more[i] = events[i]
        /\ more[Len(events) + 1] = e
    BY LenProperties, AppendProperties
  <2>2. ASSUME NEW i \in 1 .. Len(events)
        PROVE  events[i].seq \in Nat /\ events[i].seq <= mutationSeq
    <3>1. events[i] \in Events
      BY ElementOfSeq
    <3> QED
      BY <1>8, <2>1, <3>1 DEF Numbered, Events
  <2> HIDE DEF more
  <2>3. ASSUME NEW i \in DOMAIN more PROVE more[i].seq <= mutationSeq'
    <3>1. CASE i = Len(events) + 1
      BY <1>1, <2>1, <3>1
    <3>2. CASE i # Len(events) + 1
      <4>1. i \in 1 .. Len(events)
        BY <2>1, <3>2
      <4> QED
        BY <1>1, <2>1, <2>2, <4>1
    <3> QED
      BY <3>1, <3>2
  <2>4. ASSUME NEW i \in DOMAIN more, NEW j \in DOMAIN more, i < j
        PROVE  more[i].seq < more[j].seq
    <3>1. i \in 1 .. Len(events)
      BY <2>1, <2>4
    <3>2. CASE j = Len(events) + 1
      BY <1>1, <2>1, <2>2, <3>1, <3>2
    <3>3. CASE j # Len(events) + 1
      <4>1. j \in 1 .. Len(events)
        BY <2>1, <3>3
      <4> QED
        BY <1>8, <2>1, <2>4, <3>1, <4>1 DEF Numbered, Ascending
    <3> QED
      BY <3>2, <3>3
  <2>5. Numbered(more)'
    BY <2>3, <2>4 DEF Numbered, Ascending
  <2> QED
    BY <2>5 DEF more
<1> QED
  BY <1>5, <1>6, <1>7, <1>8

------------------------------------------------------------------------------
(***************************************************************************)
(* The invariant: what the files hold, and the engine's own steps.         *)
(***************************************************************************)

LEMMA WhatFilesHold ==
  ASSUME Types, SnapshotWhole
  PROVE  /\ file \in Files /\ file["aof"] \in Seq(Chunks)
         /\ Loaded \in Snapshots /\ AofEvents \in Seq(Events)
         /\ ApplyEvents(Loaded, AofEvents) \in Snapshots
<1>1. file \in Files /\ file["aof"] \in Seq(Chunks)
  BY DEF Types, Files, FileNames, Contents
<1>2. Loaded \in Snapshots /\ AofEvents \in Seq(Events)
  BY <1>1, LoadedType, ReadEventsType DEF AofEvents
<1>3. Len(AofEvents) \in 0 .. Len(AofEvents)
  BY <1>2, LenProperties
<1> QED
  BY <1>1, <1>2, <1>3, ReplaysIs DEF ApplyEvents

\* A restart ends up with what clients see.
LEMMA ReplayedAgrees ==
  ASSUME Types, FilesAgree
  PROVE  /\ Base \in Snapshots /\ Trimmed(Base, Loaded, now)
         /\ Agrees(Replayed)
<1>1. Loaded \in Snapshots /\ AofEvents \in Seq(Events)
  BY WhatFilesHold DEF FilesAgree
<1>2. Base \in Snapshots /\ Trimmed(Base, Loaded, now)
  BY <1>1, ExportTrims DEF Base
<1>3. NotNewer(Loaded) /\ Agrees(ApplyEvents(Loaded, AofEvents))
  BY DEF FilesAgree, Faithful
<1>4. \A ns \in Namespaces :
         Loaded.versions[ns] <= ApplyEvents(Loaded, AofEvents).versions[ns]
  BY <1>3 DEF NotNewer, Agrees, Shows, Memory
<1>5. /\ Replayed \in Snapshots
      /\ Trimmed(Replayed, ApplyEvents(Loaded, AofEvents), now)
  BY <1>1, <1>2, <1>4, TrimmedReplay DEF Replayed, AofEvents
<1>6. Agrees(Replayed)
  BY <1>3, <1>5, TrimmedShows DEF Agrees
<1> QED
  BY <1>2, <1>6

\* The files agree with the engine as long as they stay as they are.
LEMMA StillAgree ==
  ASSUME Types, FilesAgree, SavesAgree, Kept, file' = file, temp' = temp,
         mutationSeq' \in Nat, mutationSeq <= mutationSeq'
  PROVE  /\ FilesAgree'
         /\ \A t \in Savers : saver'[t] = saver[t] => SaveAgrees(t)'
<1>1. Loaded \in Snapshots /\ AofEvents \in Seq(Events) /\ mutationSeq \in Nat
  BY WhatFilesHold DEF FilesAgree, Types, StoreTypeOK
<1>2. Loaded' = Loaded /\ AofEvents' = AofEvents /\ SnapshotWhole' /\ TornAtEnd(file["aof"])'
  BY DEF Loaded, AofEvents, FilesAgree, SnapshotWhole
<1>3. ASSUME NEW events \in Seq(Events), Numbered(events) PROVE Numbered(events)'
  <2>1. ASSUME NEW i \in DOMAIN events PROVE events[i].seq <= mutationSeq'
    <3>1. events[i] \in Events
      BY LenProperties, ElementOfSeq
    <3>2. events[i].seq \in Nat
      BY <3>1 DEF Events
    <3>3. events[i].seq <= mutationSeq
      BY <1>3 DEF Numbered
    <3> QED
      BY <1>1, <3>2, <3>3
  <2> QED
    BY <1>3, <2>1 DEF Numbered, Ascending
<1>4. ASSUME NEW s, NEW events, Faithful(s, events) PROVE Faithful(s, events)'
  BY <1>4 DEF Faithful, Kept
<1>5. FilesAgree'
  <2>1. Faithful(Loaded, AofEvents)'
    BY <1>2, <1>4 DEF FilesAgree
  <2>2. Numbered(AofEvents)'
    BY <1>1, <1>2, <1>3 DEF FilesAgree
  <2> QED
    BY <1>2, <2>1, <2>2 DEF FilesAgree
<1>6. ASSUME NEW t \in Savers, saver'[t] = saver[t] PROVE SaveAgrees(t)'
  <2>1. saver[t].marker \in Nat
    BY DEF Types, Save
  <2>2. CASE saver[t] = Idle
    BY <1>6, <2>2 DEF SaveAgrees
  <2>3. CASE SavesSnapshot(t)
    <3>1. saver[t].content \in Snapshots
      BY <2>3 DEF SavesSnapshot, Faithful, NotNewer
    <3>2. Faithful(saver[t].content, AofEvents)'
      BY <1>2, <1>4, <1>6, <2>3 DEF SavesSnapshot
    <3>3. Covers(saver[t].content, saver[t].marker, AofEvents)'
      BY <1>1, <1>2, <1>6, <2>1, <2>3, <3>1 DEF SavesSnapshot, Kept
    <3>4. BytesInPlace(t)'
      BY <1>6, <2>3 DEF SavesSnapshot, BytesInPlace
    <3>5. SavesSnapshot(t)'
      BY <1>1, <1>6, <2>1, <2>3, <3>2, <3>3, <3>4 DEF SavesSnapshot
    <3> QED
      BY <3>5 DEF SaveAgrees
  <2>4. CASE HasSnapshot(t)
    <3>1. Covers(Loaded, saver[t].marker, AofEvents)'
      BY <1>1, <1>2, <1>6, <2>1, <2>4 DEF HasSnapshot, Kept
    <3>2. HasSnapshot(t)'
      BY <1>1, <1>6, <2>1, <2>4, <3>1 DEF HasSnapshot
    <3> QED
      BY <3>2 DEF SaveAgrees
  <2>5. CASE RewritesAof(t)
    <3>1. saver[t].content \in Seq(Chunks)
      BY <2>5 DEF RewritesAof, Types, Saving, Idle, Contents
    <3>2. Numbered(ReadEvents(saver[t].content))'
      BY <1>3, <1>6, <2>5, <3>1, ReadEventsType DEF RewritesAof
    <3>3. Agrees(ApplyEvents(Loaded, ReadEvents(saver[t].content)))'
      BY <1>2, <1>6, <2>5 DEF RewritesAof, Kept
    <3>4. BytesInPlace(t)'
      BY <1>6, <2>5 DEF RewritesAof, BytesInPlace
    <3>5. RewritesAof(t)'
      BY <1>6, <2>5, <3>2, <3>3, <3>4 DEF RewritesAof
    <3> QED
      BY <3>5 DEF SaveAgrees
  <2> QED
    BY <2>2, <2>3, <2>4, <2>5 DEF SavesAgree, SaveAgrees
<1> QED
  BY <1>5, <1>6

\* An operation that logs nothing is not seen.
LEMMA SilentIsHidden ==
  ASSUME StoreTypeOK, NotAhead(table, namespaceVersions), NEW t \in Tables, WithoutDead(t),
         table' = t, namespaceVersions' = namespaceVersions
  PROVE  Shows(Memory', Memory, now)
<1>1. /\ Memory \in Snapshots /\ Memory' \in Snapshots
      /\ Memory.entries = table /\ Memory.versions = namespaceVersions
      /\ Memory'.entries = t /\ Memory'.versions = namespaceVersions
  BY DEF Memory, Snapshots, StoreTypeOK
<1>2. Shows(Memory, Memory, now)
  BY <1>1, ShowsItself
<1>3. Trimmed(Memory', Memory, now)
  BY <1>1 DEF Trimmed, WithoutDead, Live
<1> QED
  BY <1>1, <1>2, <1>3, TrimmedShows

\* An append goes to a file of lines, while no save rewrites it.
LEMMA MayLogMeans ==
  ASSUME IInv, MayLog
  PROVE  Whole(file["aof"]) /\ \A t \in Savers : saver[t].target # "aof"
<1>1. Terminated(file["aof"]) /\ ~Rewriting
  BY DEF MayLog, IInv, Supported
<1>2. file["aof"] \in Seq(Chunks) /\ TornAtEnd(file["aof"])
  BY WhatFilesHold DEF IInv, FilesAgree
<1> QED
  BY <1>1, <1>2, TerminatedIsWhole DEF Rewriting

\* An operation and its append, with or without the newline.
LEMMA LoggedStep ==
  ASSUME IInv, MayLog, StoreTypeOK', NEW e \in Events, Current(e),
         NEW chunk \in {Line(e), Unterminated(e)}, AppendChunks(<<chunk>>), temp' = temp,
         table' = ApplyEvent(Memory, e).entries,
         namespaceVersions' = ApplyEvent(Memory, e).versions,
         mutationSeq' = mutationSeq + 1, now' = now
  PROVE  /\ NotAhead(table, namespaceVersions)'
         /\ FilesAgree'
         /\ \A t \in Savers : saver'[t] = saver[t] => SaveAgrees(t)'
<1> USE DEF IInv
<1>1. /\ Loaded \in Snapshots /\ AofEvents \in Seq(Events) /\ mutationSeq \in Nat
      /\ file \in Files /\ file["aof"] \in Seq(Chunks) /\ file["aof"] # NoFile
      /\ StoreTypeOK
  BY WhatFilesHold DEF FilesAgree, Types, StoreTypeOK
<1>2. /\ NotAhead(table, namespaceVersions)'
      /\ \A s \in Snapshots, events \in Seq(Events) :
            Faithful(s, events) => Faithful(s, Append(events, e))'
      /\ \A s \in Snapshots, events \in Seq(Events), marker \in Nat :
            Covers(s, marker, events) /\ marker <= mutationSeq
               => Covers(s, marker, Append(events, e))'
      /\ \A events \in Seq(Events) : Numbered(events) => Numbered(Append(events, e))'
  <2> HIDE DEF IInv
  <2>1. NotAhead(table, namespaceVersions)
    BY DEF IInv
  <2> QED
    BY <1>1, <2>1, EventStep
<1>3. chunk \in Chunks /\ <<chunk>> \in Seq(Chunks)
  BY DEF Line, Unterminated, Chunks
<1>4. file'["aof"] = file["aof"] \o <<chunk>> /\ file'["snapshot"] = file["snapshot"]
  BY <1>1, <1>3, AppendType
<1>5. TornAtEnd(file["aof"])' /\ AofEvents' = Append(AofEvents, e)
  <2>1. Whole(file["aof"])
    BY MayLogMeans
  <2>2. /\ TornAtEnd(file["aof"] \o <<chunk>>)
        /\ ReadEvents(file["aof"] \o <<chunk>>) = Append(ReadEvents(file["aof"]), e)
    BY <1>1, <2>1, ReadAppended
  <2> QED
    BY <1>4, <2>2 DEF AofEvents
<1>6. Loaded' = Loaded /\ SnapshotWhole'
  BY <1>4 DEF Loaded, FilesAgree, SnapshotWhole
<1>7. FilesAgree'
  <2>1. Faithful(Loaded, AofEvents)'
    BY <1>1, <1>2, <1>5, <1>6 DEF FilesAgree
  <2>2. Numbered(AofEvents)'
    BY <1>1, <1>2, <1>5 DEF FilesAgree
  <2> QED
    BY <1>5, <1>6, <2>1, <2>2 DEF FilesAgree
<1>8. ASSUME NEW t \in Savers, saver'[t] = saver[t] PROVE SaveAgrees(t)'
  <2>1. saver[t].marker \in Nat
    BY DEF Types, Save
  <2>2. CASE saver[t] = Idle
    BY <1>8, <2>2 DEF SaveAgrees
  <2>3. CASE SavesSnapshot(t)
    <3>1. saver[t].content \in Snapshots
      BY <2>3 DEF SavesSnapshot, Faithful, NotNewer
    <3>2. Faithful(saver[t].content, AofEvents)'
      BY <1>1, <1>2, <1>5, <1>8, <2>3, <3>1 DEF SavesSnapshot
    <3>3. Covers(saver[t].content, saver[t].marker, AofEvents)'
      BY <1>1, <1>2, <1>5, <1>8, <2>1, <2>3, <3>1 DEF SavesSnapshot
    <3>4. BytesInPlace(t)'
      BY <1>8, <2>3 DEF SavesSnapshot, BytesInPlace
    <3>5. SavesSnapshot(t)'
      BY <1>1, <1>8, <2>1, <2>3, <3>2, <3>3, <3>4 DEF SavesSnapshot
    <3> QED
      BY <3>5 DEF SaveAgrees
  <2>4. CASE HasSnapshot(t)
    <3>1. Covers(Loaded, saver[t].marker, AofEvents)'
      BY <1>1, <1>2, <1>5, <1>6, <1>8, <2>1, <2>4 DEF HasSnapshot
    <3>2. HasSnapshot(t)'
      BY <1>1, <1>8, <2>1, <2>4, <3>1 DEF HasSnapshot
    <3> QED
      BY <3>2 DEF SaveAgrees
  <2>5. CASE RewritesAof(t)
    BY <2>5, MayLogMeans DEF RewritesAof
  <2> QED
    BY <2>2, <2>3, <2>4, <2>5 DEF SavesAgree, SaveAgrees
<1> QED
  BY <1>2, <1>7, <1>8

LEMMA IdleSavers == NoSaves => (OneSaver /\ SavesAgree)'
BY DEF NoSaves, OneSaver, SavesAgree, SaveAgrees, Savers

LEMMA MutateStep ==
  ASSUME IInv, Types', Mutate
  PROVE  IInv'
<1>1. PICK outcome \in MutationOutcomes :
         Perform(outcome) /\ AppendChunks(Lines(outcome.events))
  BY DEF Mutate
<1>2. /\ StoreTypeOK /\ StoreTypeOK' /\ NotAhead(table, namespaceVersions) /\ Types
      /\ FilesAgree /\ SavesAgree /\ OneSaver /\ Supported
  BY DEF IInv, Types
<1>3. status' = status /\ temp' = temp /\ saver' = saver /\ MayLog
  BY DEF Mutate
<1>4. CASE /\ outcome.events = <<>>
           /\ outcome.table \in Tables /\ WithoutDead(outcome.table)
           /\ outcome.versions = namespaceVersions
  <2>1. /\ table' = outcome.table /\ namespaceVersions' = namespaceVersions
        /\ now' = now /\ mutationSeq' = mutationSeq
    BY <1>1, <1>2, <1>4 DEF Perform, StoreTypeOK
  <2>2. Shows(Memory', Memory, now)
    BY <1>2, <1>4, <2>1, SilentIsHidden
  <2>3. Kept /\ NotAhead(table, namespaceVersions)'
    BY <1>2, <2>1, <2>2, HiddenStep
  <2>4. file' = file
    <3>1. file["aof"] \in Seq(Chunks) /\ file \in [FileNames -> FileContents]
      BY <1>2, WhatFilesHold DEF FilesAgree, Files
    <3>2. Lines(<<>>) = <<>>
      BY DEF Lines
    <3>3. file["aof"] \o <<>> = file["aof"]
      BY <3>1, ConcatEmptySeq
    <3>4. file' = [file EXCEPT !["aof"] = file["aof"]]
      BY <1>1, <1>4, <3>2, <3>3 DEF AppendChunks
    <3> HIDE DEF FileContents
    <3> QED
      BY <3>1, <3>4
  <2>5. mutationSeq' \in Nat /\ mutationSeq <= mutationSeq'
    BY <1>2, <2>1 DEF StoreTypeOK
  <2>6. FilesAgree' /\ \A t \in Savers : SaveAgrees(t)'
    BY <1>2, <1>3, <2>3, <2>4, <2>5, StillAgree
  <2> QED
    BY <1>2, <1>3, <2>3, <2>6 DEF IInv, SavesAgree, OneSaver, Supported
<1>5. CASE \E e \in Events : /\ outcome.events = <<e>> /\ Current(e)
                             /\ outcome.table = ApplyEvent(Memory, e).entries
                             /\ outcome.versions = ApplyEvent(Memory, e).versions
  <2>1. PICK e \in Events : /\ outcome.events = <<e>> /\ Current(e)
                            /\ outcome.table = ApplyEvent(Memory, e).entries
                            /\ outcome.versions = ApplyEvent(Memory, e).versions
    BY <1>5
  <2>2. Lines(<<e>>) = <<Line(e)>>
    BY DEF Lines
  <2>3. Len(<<e>>) = 1
    OBVIOUS
  <2>4. /\ table' = ApplyEvent(Memory, e).entries
        /\ namespaceVersions' = ApplyEvent(Memory, e).versions
        /\ mutationSeq' = mutationSeq + 1 /\ now' = now
    BY <1>1, <2>1, <2>3 DEF Perform
  <2> DEFINE chunk == Line(e)
  <2>5. chunk \in {Line(e), Unterminated(e)} /\ AppendChunks(<<chunk>>)
    BY <1>1, <2>1, <2>2
  <2> HIDE DEF chunk
  <2>6. /\ NotAhead(table, namespaceVersions)'
        /\ FilesAgree' /\ \A t \in Savers : SaveAgrees(t)'
    BY <1>2, <1>3, <2>1, <2>4, <2>5, LoggedStep
  <2> QED
    BY <1>2, <1>3, <2>6 DEF IInv, SavesAgree, OneSaver, Supported
<1> QED
  BY <1>2, <1>4, <1>5, OutcomeIsReplay

LEMMA CrashInAppendStep ==
  ASSUME IInv, Types', CrashInAppend
  PROVE  IInv'
<1>1. PICK outcome \in MutationOutcomes :
         /\ outcome.events # <<>>
         /\ \/ /\ AppendChunks(<<Cut(outcome.events[1])>>)
               /\ UNCHANGED storeVars
            \/ /\ AppendChunks(<<Unterminated(outcome.events[1])>>)
               /\ Perform(outcome)
  BY DEF CrashInAppend
<1>2. /\ StoreTypeOK /\ StoreTypeOK' /\ NotAhead(table, namespaceVersions) /\ Types
      /\ FilesAgree /\ SavesAgree /\ Supported
  BY DEF IInv, Types
<1>3. temp' = temp /\ NoSaves /\ MayLog /\ OneSaver' /\ SavesAgree'
  BY IdleSavers DEF CrashInAppend
<1>4. PICK e \in Events : /\ outcome.events = <<e>> /\ Current(e)
                          /\ outcome.table = ApplyEvent(Memory, e).entries
                          /\ outcome.versions = ApplyEvent(Memory, e).versions
  BY <1>1, <1>2, OutcomeIsReplay
<1>5. outcome.events[1] = e /\ Len(outcome.events) = 1
  BY <1>4
<1>6. CASE AppendChunks(<<Cut(e)>>) /\ UNCHANGED storeVars
  <2>1. file["aof"] \in Seq(Chunks) /\ file \in Files /\ file["aof"] # NoFile
    BY <1>2, WhatFilesHold DEF FilesAgree, Types
  <2>2. <<Cut(e)>> \in Seq(Chunks)
    BY DEF Cut, Chunks
  <2>3. file'["aof"] = file["aof"] \o <<Cut(e)>> /\ file'["snapshot"] = file["snapshot"]
    BY <1>6, <2>1, <2>2, AppendType
  <2>4. TornAtEnd(file["aof"])' /\ AofEvents' = AofEvents
    BY <1>3, <2>1, <2>3, MayLogMeans, ReadCut DEF AofEvents
  <2>5. Loaded' = Loaded /\ SnapshotWhole'
    BY <1>2, <2>3 DEF Loaded, FilesAgree, SnapshotWhole
  <2>6. Numbered(AofEvents)' /\ Faithful(Loaded, AofEvents)'
    BY <1>2, <1>6, <2>4, <2>5
       DEF FilesAgree, storeVars, Numbered, Faithful, NotNewer, Agrees, Memory
  <2>7. FilesAgree' /\ NotAhead(table, namespaceVersions)'
    BY <1>2, <1>6, <2>4, <2>5, <2>6 DEF FilesAgree, storeVars
  <2> QED
    BY <1>2, <1>3, <2>7 DEF IInv, Supported
<1>7. CASE AppendChunks(<<Unterminated(e)>>) /\ Perform(outcome)
  <2>1. /\ table' = ApplyEvent(Memory, e).entries
        /\ namespaceVersions' = ApplyEvent(Memory, e).versions
        /\ mutationSeq' = mutationSeq + 1 /\ now' = now
    BY <1>4, <1>5, <1>7 DEF Perform
  <2> DEFINE chunk == Unterminated(e)
  <2>2. chunk \in {Line(e), Unterminated(e)} /\ AppendChunks(<<chunk>>)
    BY <1>7
  <2> HIDE DEF chunk
  <2>3. NotAhead(table, namespaceVersions)' /\ FilesAgree'
    BY <1>2, <1>3, <1>4, <2>1, <2>2, LoggedStep
  <2> QED
    BY <1>2, <1>3, <2>3 DEF IInv, Supported
<1> QED
  BY <1>1, <1>5, <1>6, <1>7

------------------------------------------------------------------------------
(***************************************************************************)
(* The invariant: saves.                                                   *)
(***************************************************************************)

\* The exported snapshot shows what the engine does, and the events of the AOF,
\* all of which are in it, do not change that.
LEMMA ExportAgrees ==
  ASSUME Types, NotAhead(table, namespaceVersions), FilesAgree
  PROVE  /\ Faithful(ExportSnapshot(table, namespaceVersions, now), AofEvents)
         /\ Covers(ExportSnapshot(table, namespaceVersions, now), mutationSeq, AofEvents)
<1> DEFINE N == Len(AofEvents)
           x == ExportSnapshot(table, namespaceVersions, now)
           y == Replays(x, AofEvents)[N]
           z == Replays(Loaded, AofEvents)[N]
<1>1. /\ Loaded \in Snapshots /\ AofEvents \in Seq(Events) /\ StoreTypeOK
      /\ NotNewer(Loaded) /\ Agrees(ApplyEvents(Loaded, AofEvents))
  BY WhatFilesHold DEF FilesAgree, Types, Faithful
<1>2. N \in 0 .. Len(AofEvents) /\ N \in Nat /\ DOMAIN AofEvents = 1 .. N
  BY <1>1, LenProperties
<1>3. /\ Memory \in Snapshots /\ Memory.entries = table /\ Memory.versions = namespaceVersions
  BY <1>1 DEF Memory, Snapshots, StoreTypeOK
<1>4. x \in Snapshots /\ Trimmed(x, Memory, now) /\ x.versions = namespaceVersions
  BY <1>3, ExportTrims DEF Trimmed
<1>5. Shows(x, Memory, now)
  BY <1>3, <1>4, ShowsItself, TrimmedShows
<1>6. Shows(z, Memory, now)
  BY <1>1 DEF Agrees, ApplyEvents
<1> HIDE DEF N, x
<1>7. y \in Snapshots /\ z \in Snapshots
  BY <1>1, <1>2, <1>4, ReplaysIs DEF N
<1>8. ASSUME NEW ns \in Namespaces PROVE y.versions[ns] = namespaceVersions[ns]
  <2>1. Loaded.versions[ns] <= x.versions[ns]
    BY <1>1, <1>4 DEF NotNewer
  <2>2. \/ y.versions[ns] = z.versions[ns]
        \/ y.versions[ns] = x.versions[ns]
    BY <1>1, <1>2, <1>4, <2>1, VersionsOver
  <2>3. z.versions[ns] = namespaceVersions[ns]
    BY <1>3, <1>6 DEF Shows
  <2> QED
    BY <1>4, <2>2, <2>3
<1>9. ASSUME NEW sk \in StorageKeys
      PROVE  \/ y.entries[sk] = z.entries[sk]
             \/ y.entries[sk] = x.entries[sk]
  BY <1>1, <1>2, <1>4, EntriesOver
<1> HIDE DEF y, z
<1>10. y.versions = namespaceVersions
  BY <1>1, <1>7, <1>8 DEF Snapshots, Versions, StoreTypeOK
<1>11. NotAhead(y.entries, y.versions)
  BY <1>3, <1>4, <1>5, <1>6, <1>9, <1>10 DEF NotAhead, Shows
<1>12. ASSUME NEW sk \in StorageKeys
       PROVE  /\ IF Live(sk) THEN y.entries[sk] = table[sk]
                 ELSE ~IsLive(y.entries, y.versions, now, sk)
              /\ \/ x.entries[sk] = y.entries[sk]
                 \/ x.entries[sk] = Missing /\ ~IsLive(y.entries, y.versions, now, sk)
  <2>1. x.entries[sk] = IF Live(sk) THEN table[sk] ELSE Missing
    BY DEF x, ExportSnapshot, LiveView, Live
  <2>2. CASE Live(sk)
    <3>1. z.entries[sk] = table[sk]
      BY <1>3, <1>6, <2>2 DEF Shows, Live
    <3> QED
      BY <1>9, <2>1, <2>2, <3>1
  <2>3. CASE ~Live(sk)
    <3>1. ~IsLive(z.entries, z.versions, now, sk) /\ z.versions = namespaceVersions
      BY <1>3, <1>6, <2>3 DEF Shows, Live
    <3>2. ~IsLive(y.entries, y.versions, now, sk)
      BY <1>9, <1>10, <2>1, <2>3, <3>1, LiveSame DEF IsLive
    <3> QED
      BY <2>1, <2>3, <3>2
  <2> QED
    BY <2>2, <2>3
<1>13. Shows(y, Memory, now)
  BY <1>3, <1>7, <1>10, <1>11, <1>12 DEF Shows, Live
<1>14. Trimmed(x, y, now)
  BY <1>4, <1>10, <1>12 DEF Trimmed
<1>15. NotNewer(x)
  BY <1>1, <1>3, <1>4, <1>5 DEF NotNewer, Shows, StoreTypeOK, Versions
<1>16. Faithful(x, AofEvents)
  BY <1>13, <1>15 DEF Faithful, Agrees, ApplyEvents, y, N
<1>17. Splits(AofEvents, mutationSeq, N)
  <2>1. \A i \in 1 .. N : AofEvents[i].seq <= mutationSeq
    BY <1>2 DEF FilesAgree, Numbered
  <2>2. \A i \in N + 1 .. Len(AofEvents) : FALSE
    BY <1>2 DEF N
  <2> QED
    BY <2>1, <2>2 DEF Splits
<1>18. Covers(x, mutationSeq, AofEvents)
  BY <1>2, <1>14, <1>17 DEF Covers, y
<1> QED
  BY <1>16, <1>18 DEF x

\* What a rewrite keeps of the AOF is what its snapshot lacks.
LEMMA RetainedAgree ==
  ASSUME Types, FilesAgree, NEW marker \in Nat, Covers(Loaded, marker, AofEvents)
  PROVE  /\ EventsAfter(AofEvents, marker) \in Seq(Events)
         /\ Numbered(EventsAfter(AofEvents, marker))
         /\ Agrees(ApplyEvents(Loaded, EventsAfter(AofEvents, marker)))
<1> DEFINE K == EventsAfter(AofEvents, marker)
           N == Len(AofEvents)
           m == Len(K)
<1>1. /\ Loaded \in Snapshots /\ AofEvents \in Seq(Events)
      /\ NotNewer(Loaded) /\ Agrees(ApplyEvents(Loaded, AofEvents))
  BY WhatFilesHold DEF FilesAgree, Faithful
<1>2. PICK n \in 0 .. Len(AofEvents) :
         /\ Splits(AofEvents, marker, n)
         /\ Trimmed(Loaded, Replays(Loaded, AofEvents)[n], now)
  BY DEF Covers
<1>3. N \in Nat /\ DOMAIN AofEvents = 1 .. N
  BY <1>1, LenProperties
<1>4. K \in Seq(Events)
  BY <1>1, EventsAfterType
<1>5. m = N - n
  BY <1>1, <1>2, EventsAfterSplit
<1>6. \A i \in 1 .. N - n : K[i] = AofEvents[n + i]
  BY <1>1, <1>2, EventsAfterSplit
<1>7. m \in 0 .. Len(K) /\ DOMAIN K = 1 .. m /\ m \in Nat /\ n + m = N
  BY <1>3, <1>4, <1>5, LenProperties
<1>8. \A i \in 1 .. m : K[i] = AofEvents[n + i] /\ n + i \in 1 .. N
  BY <1>3, <1>5, <1>6, <1>7
<1>9. Numbered(K)
  <2> HIDE DEF K, N, m
  <2>1. ASSUME NEW i \in DOMAIN K PROVE K[i].seq <= mutationSeq
    <3>1. K[i] = AofEvents[n + i] /\ n + i \in DOMAIN AofEvents
      BY <1>3, <1>7, <1>8
    <3> QED
      BY <3>1 DEF FilesAgree, Numbered
  <2>2. ASSUME NEW i \in DOMAIN K, NEW j \in DOMAIN K, i < j
        PROVE  K[i].seq < K[j].seq
    <3>1. /\ K[i] = AofEvents[n + i] /\ n + i \in DOMAIN AofEvents
          /\ K[j] = AofEvents[n + j] /\ n + j \in DOMAIN AofEvents
          /\ n + i < n + j
      BY <1>3, <1>7, <1>8, <2>2
    <3> QED
      BY <3>1 DEF FilesAgree, Numbered, Ascending
  <2> QED
    BY <2>1, <2>2 DEF Numbered, Ascending
<1> DEFINE s == Replays(Loaded, AofEvents)[n]
<1>10. s \in Snapshots
  BY <1>1, ReplaysIs
<1> HIDE DEF K
<1>11. ApplyEvents(s, K) = ApplyEvents(Loaded, AofEvents)
  <2>1. m <= Len(AofEvents) - n /\ \A i \in 1 .. m : K[i] = AofEvents[n + i]
    BY <1>5, <1>7, <1>8
  <2> HIDE DEF m
  <2>2. Replays(Replays(Loaded, AofEvents)[n], K)[m] = Replays(Loaded, AofEvents)[n + m]
    BY <1>1, <1>4, <1>7, <2>1, ReplayParts
  <2> QED
    BY <1>7, <2>2 DEF ApplyEvents, m
<1> HIDE DEF s
<1>12. Trimmed(Loaded, s, now)
  BY <1>2 DEF s
<1>13. \A ns \in Namespaces : s.versions[ns] <= ApplyEvents(s, K).versions[ns]
  BY <1>1, <1>11, <1>12 DEF Trimmed, NotNewer, Agrees, Shows, Memory
<1>14. /\ ApplyEvents(Loaded, K) \in Snapshots
       /\ Trimmed(ApplyEvents(Loaded, K), ApplyEvents(s, K), now)
  BY <1>1, <1>4, <1>10, <1>12, <1>13, TrimmedReplay
<1>15. Agrees(ApplyEvents(Loaded, K))
  BY <1>1, <1>11, <1>14, TrimmedShows DEF Agrees
<1> QED
  BY <1>4, <1>9, <1>15 DEF K

\* While a thread saves, every other one is idle.
LEMMA OthersIdle ==
  ASSUME IInv, NEW t \in Savers, saver[t] # Idle, NEW u \in Savers, u # t
  PROVE  saver[u] = Idle
<1>1. CASE status = "up"
  <2>1. saver[Lifespan] = Idle /\ t \in Requests
    BY <1>1 DEF IInv, OneSaver, Savers
  <2> QED
    BY <2>1 DEF IInv, Supported, Savers
<1>2. CASE status = "stopping"
  BY <1>2 DEF IInv, OneSaver, Savers
<1>3. CASE status = "down"
  BY <1>3 DEF IInv, OneSaver
<1> QED
  BY <1>1, <1>2, <1>3 DEF IInv, Types

\* What is left to show of a step of the one thread that saves.
LEMMA SaveStepFrame ==
  ASSUME IInv, Types', NEW t \in Savers, saver[t] # Idle, UNCHANGED <<storeVars, status>>,
         \A u \in Savers : u # t /\ saver[u] = Idle => saver'[u] = Idle,
         FilesAgree', SaveAgrees(t)'
  PROVE  IInv'
<1>1. ASSUME NEW u \in Savers, u # t PROVE saver[u] = Idle /\ saver'[u] = Idle
  BY <1>1, OthersIdle
<1>2. SavesAgree'
  BY <1>1 DEF SavesAgree, SaveAgrees
<1>3. OneSaver'
  <2>1. status = "up" => t # Lifespan
    BY DEF IInv, OneSaver
  <2>2. status = "stopping" => t \notin Requests
    BY DEF IInv, OneSaver
  <2>3. status # "down"
    BY DEF IInv, OneSaver
  <2> QED
    BY <1>1, <2>1, <2>2, <2>3 DEF OneSaver, Savers
<1> QED
  BY <1>2, <1>3 DEF IInv, Supported, storeVars

\* A step that leaves engine and clock alone keeps all that is known of them.
LEMMA SameStore ==
  ASSUME UNCHANGED storeVars
  PROVE  /\ \A s : NotNewer(s)' <=> NotNewer(s)
         /\ \A s : Agrees(s)' <=> Agrees(s)
         /\ \A s, events : Faithful(s, events)' <=> Faithful(s, events)
         /\ \A s, marker, events : Covers(s, marker, events)' <=> Covers(s, marker, events)
         /\ \A events : Numbered(events)' <=> Numbered(events)
<1>1. \A s : NotNewer(s)' <=> NotNewer(s)
  BY DEF NotNewer, storeVars
<1>2. \A s : Agrees(s)' <=> Agrees(s)
  BY DEF Agrees, Memory, storeVars
<1>3. \A s, events : Faithful(s, events)' <=> Faithful(s, events)
  BY <1>1, <1>2 DEF Faithful
<1>4. \A s, marker, events : Covers(s, marker, events)' <=> Covers(s, marker, events)
  BY DEF Covers, storeVars
<1>5. \A events : Numbered(events)' <=> Numbered(events)
  BY DEF Numbered, storeVars
<1> QED
  BY <1>1, <1>2, <1>3, <1>4, <1>5

\* A thread that begins to save while all are idle.
LEMMA BeginSaveStep ==
  ASSUME IInv, Types', NEW t \in Savers, BeginSave(t), UNCHANGED <<storeVars, file, temp>>,
         \A u \in Savers : saver[u] = Idle
  PROVE  /\ NotAhead(table, namespaceVersions)' /\ FilesAgree' /\ SavesAgree'
         /\ \A u \in Savers : u # t => saver'[u] = Idle
<1> DEFINE x == ExportSnapshot(table, namespaceVersions, now)
           s == [pc      |-> "open",
                 target  |-> "snapshot",
                 content |-> x,
                 marker  |-> mutationSeq,
                 handle  |-> "none"]
<1>1. /\ Faithful(x, AofEvents) /\ Covers(x, mutationSeq, AofEvents)
      /\ mutationSeq \in Nat /\ saver \in [Savers -> Save]
  BY ExportAgrees DEF IInv, Types, StoreTypeOK
<1>2. saver'[t] = s /\ \A u \in Savers : u # t => saver'[u] = Idle
  BY <1>1 DEF BeginSave
<1>3. /\ s.pc = "open" /\ s.target = "snapshot" /\ s.content = x /\ s.marker = mutationSeq
      /\ s.handle = "none"
  OBVIOUS
<1> HIDE DEF x, s
<1>4. AofEvents' = AofEvents /\ Loaded' = Loaded
  BY DEF AofEvents, Loaded
<1>5. Faithful(x, AofEvents)' /\ Covers(x, mutationSeq, AofEvents)'
  <2>1. x' = x /\ mutationSeq' = mutationSeq
    BY DEF x, storeVars
  <2> QED
    BY <1>1, <1>4, <2>1, SameStore
<1>6. SavesSnapshot(t)'
  <2>1. BytesInPlace(t)'
    BY <1>2, <1>3 DEF BytesInPlace
  <2>2. x' = x /\ mutationSeq' = mutationSeq
    BY DEF x, storeVars
  <2> QED
    BY <1>1, <1>2, <1>3, <1>5, <2>1, <2>2 DEF SavesSnapshot
<1>7. SavesAgree'
  BY <1>2, <1>6 DEF SavesAgree, SaveAgrees
<1>8. FilesAgree'
  BY <1>4, SameStore DEF IInv, FilesAgree, SnapshotWhole
<1> QED
  BY <1>2, <1>7, <1>8 DEF IInv, storeVars

LEMMA OpenTempStep ==
  ASSUME IInv, Types', NEW t \in Savers, OpenTemp(t)
  PROVE  IInv'
<1> DEFINE target == saver[t].target
           c == IF target = "aof" THEN <<>> ELSE Emptied
<1>1. /\ UNCHANGED <<storeVars, status, file>>
      /\ temp' = [temp EXCEPT ![target] = c]
      /\ saver[t].pc = "open" /\ saver[t] # Idle
      /\ saver[t] \in Save /\ saver \in [Savers -> Save] /\ temp \in Files
  BY DEF OpenTemp, Idle, IInv, Types
<1>2. saver' = [saver EXCEPT ![t] = [saver[t] EXCEPT !.pc = "write", !.handle = "temp"]]
  <2>1. saver' = [saver EXCEPT ![t].pc = "write", ![t].handle = "temp"]
    BY DEF OpenTemp
  <2> QED
    BY <1>1, <2>1
<1>3. /\ saver'[t].pc = "write" /\ saver'[t].handle = "temp" /\ saver'[t].target = target
      /\ saver'[t].content = saver[t].content /\ saver'[t].marker = saver[t].marker
      /\ \A u \in Savers : u # t => saver'[u] = saver[u]
  BY <1>1, <1>2 DEF Save
<1>4. temp'[target] = c /\ target \in FileNames
  BY <1>1 DEF Save, Files
<1>5. BytesInPlace(t)'
  BY <1>3, <1>4 DEF BytesInPlace
<1>6. AofEvents' = AofEvents /\ Loaded' = Loaded /\ mutationSeq' = mutationSeq
  BY <1>1 DEF AofEvents, Loaded, storeVars
<1>7. FilesAgree'
  BY <1>1, <1>6, SameStore DEF IInv, FilesAgree, SnapshotWhole
<1>8. CASE SavesSnapshot(t)
  <2>1. SavesSnapshot(t)'
    BY <1>1, <1>3, <1>5, <1>6, <1>8, SameStore DEF SavesSnapshot
  <2> QED
    BY <1>1, <1>3, <1>7, <2>1, SaveStepFrame DEF SaveAgrees
<1>9. CASE RewritesAof(t)
  <2>1. RewritesAof(t)'
    BY <1>1, <1>3, <1>5, <1>6, <1>9, SameStore DEF RewritesAof
  <2> QED
    BY <1>1, <1>3, <1>7, <2>1, SaveStepFrame DEF SaveAgrees
<1> QED
  BY <1>1, <1>8, <1>9 DEF IInv, SavesAgree, SaveAgrees, HasSnapshot

LEMMA WriteTempStep ==
  ASSUME IInv, Types', NEW t \in Savers, WriteTemp(t)
  PROVE  IInv'
<1> DEFINE target == saver[t].target
           content == saver[t].content
<1>1. /\ UNCHANGED <<storeVars, status>>
      /\ saver[t].pc = "write" /\ saver[t] # Idle
      /\ saver[t] \in Save /\ saver \in [Savers -> Save] /\ temp \in Files
  BY DEF WriteTemp, Idle, IInv, Types
<1>2. BytesInPlace(t) /\ (SavesSnapshot(t) \/ RewritesAof(t))
  BY <1>1 DEF IInv, SavesAgree, SaveAgrees, HasSnapshot, SavesSnapshot, RewritesAof
<1>3. /\ saver[t].handle = "temp"
      /\ temp[target] = IF target = "aof" THEN <<>> ELSE Emptied
      /\ target \in {"snapshot", "aof"}
  BY <1>1, <1>2 DEF BytesInPlace, Save, FileNames
<1>4. Overwritten(target, temp[target], content) = {content}
  BY <1>3 DEF Overwritten
<1>5. temp' = [temp EXCEPT ![target] = content] /\ file' = file
  <2>1. temp' \in Written(temp, t) /\ file' \in {file}
    BY <1>3 DEF WriteTemp
  <2>2. PICK x \in Overwritten(target, temp[target], content) : temp' = [temp EXCEPT ![target] = x]
    BY <2>1 DEF Written
  <2> HIDE DEF target, content
  <2> QED
    BY <1>4, <2>1, <2>2
<1>6. saver' = [saver EXCEPT ![t] = [saver[t] EXCEPT !.pc = "replace", !.handle = "none"]]
  <2>1. saver' = [saver EXCEPT ![t].pc = "replace", ![t].handle = "none"]
    BY DEF WriteTemp
  <2> QED
    BY <1>1, <2>1
<1>7. /\ saver'[t].pc = "replace" /\ saver'[t].target = target
      /\ saver'[t].content = content /\ saver'[t].marker = saver[t].marker
      /\ \A u \in Savers : u # t => saver'[u] = saver[u]
  BY <1>1, <1>6 DEF Save
<1>8. BytesInPlace(t)'
  <2>1. temp'[target] = content
    BY <1>1, <1>3, <1>5 DEF Files, FileNames
  <2> QED
    BY <1>7, <2>1 DEF BytesInPlace
<1>9. AofEvents' = AofEvents /\ Loaded' = Loaded /\ mutationSeq' = mutationSeq
  BY <1>1, <1>5 DEF AofEvents, Loaded, storeVars
<1>10. FilesAgree'
  BY <1>1, <1>5, <1>9, SameStore DEF IInv, FilesAgree, SnapshotWhole
<1>11. CASE SavesSnapshot(t)
  <2>1. SavesSnapshot(t)'
    BY <1>1, <1>7, <1>8, <1>9, <1>11, SameStore DEF SavesSnapshot
  <2> QED
    BY <1>1, <1>7, <1>10, <2>1, SaveStepFrame DEF SaveAgrees
<1>12. CASE RewritesAof(t)
  <2>1. RewritesAof(t)'
    BY <1>1, <1>7, <1>8, <1>9, <1>12, SameStore DEF RewritesAof
  <2> QED
    BY <1>1, <1>7, <1>10, <2>1, SaveStepFrame DEF SaveAgrees
<1> QED
  BY <1>2, <1>11, <1>12

LEMMA ReplaceStep ==
  ASSUME IInv, Types', NEW t \in Savers, Replace(t)
  PROVE  IInv'
<1> DEFINE target == saver[t].target
           content == saver[t].content
           s == IF target = "snapshot" THEN [saver[t] EXCEPT !.pc = "read"] ELSE Idle
<1>1. /\ UNCHANGED <<storeVars, status>>
      /\ saver[t].pc = "replace" /\ saver[t] # Idle
      /\ saver[t] \in Save /\ saver \in [Savers -> Save] /\ file \in Files
      /\ Saving(saver[t], file, temp) /\ target \in {"snapshot", "aof"}
  BY DEF Replace, Idle, IInv, Types, Save, FileNames
<1>2. BytesInPlace(t) /\ (SavesSnapshot(t) \/ RewritesAof(t))
  BY <1>1 DEF IInv, SavesAgree, SaveAgrees, HasSnapshot, SavesSnapshot, RewritesAof
<1>3. temp[target] = content /\ content \in Contents(target)
  BY <1>1, <1>2 DEF BytesInPlace, Saving
<1>4. content # NoFile
  <2> HIDE DEF content, target
  <2> QED
    BY <1>3, ContentsThere
<1>5. /\ file' = [file EXCEPT ![target] = content]
      /\ saver' = [[u \in Savers |-> IF saver[u].target = target
                                     THEN [saver[u] EXCEPT !.handle = Renamed(@)]
                                     ELSE saver[u]] EXCEPT ![t] = s]
  BY <1>3, <1>4 DEF Replace
<1>6. /\ file'[target] = content
      /\ \A name \in FileNames : name # target => file'[name] = file[name]
  BY <1>1, <1>5 DEF Files, FileNames
<1> HIDE DEF s
<1>7. saver'[t] = s
  BY <1>5
<1>8. ASSUME NEW u \in Savers, u # t, saver[u] = Idle PROVE saver'[u] = Idle
  <2>1. saver'[u] = saver[u] \/ saver'[u] = [saver[u] EXCEPT !.handle = Renamed(@)]
    BY <1>5, <1>8
  <2>2. [saver[u] EXCEPT !.handle = Renamed(@)] = saver[u]
    <3>1. saver[u] \in Save /\ saver[u].handle = "none"
      BY <1>1, <1>8 DEF Idle
    <3> QED
      BY <3>1, RenamedType
  <2> QED
    BY <1>8, <2>1, <2>2
<1>9. mutationSeq' = mutationSeq
  BY <1>1 DEF storeVars
<1>10. CASE SavesSnapshot(t)
  <2>1. target = "snapshot" /\ file'["snapshot"] = content /\ file'["aof"] = file["aof"]
    BY <1>6, <1>10 DEF SavesSnapshot, FileNames
  <2>2. content \in Snapshots
    BY <1>10 DEF SavesSnapshot, Faithful, NotNewer
  <2>3. Loaded' = content /\ AofEvents' = AofEvents /\ SnapshotWhole'
    BY <1>4, <2>1, <2>2, ContentsAssumption DEF Loaded, AofEvents, SnapshotWhole
  <2>4. FilesAgree'
    <3>1. Faithful(Loaded, AofEvents)'
      BY <1>1, <1>10, <2>3, SameStore DEF SavesSnapshot
    <3>2. Numbered(AofEvents)' /\ TornAtEnd(file["aof"])'
      BY <1>1, <2>1, <2>3, SameStore DEF IInv, FilesAgree
    <3> QED
      BY <2>3, <3>1, <3>2 DEF FilesAgree
  <2>5. s = [saver[t] EXCEPT !.pc = "read"]
    BY <2>1 DEF s
  <2>6. /\ saver'[t].pc = "read" /\ saver'[t].target = "snapshot"
        /\ saver'[t].marker = saver[t].marker
    BY <1>1, <1>7, <2>1, <2>5 DEF Save
  <2>7. HasSnapshot(t)'
    BY <1>1, <1>9, <1>10, <2>3, <2>6, SameStore DEF SavesSnapshot, HasSnapshot
  <2> QED
    BY <1>1, <1>8, <2>4, <2>7, SaveStepFrame DEF SaveAgrees
<1>11. CASE RewritesAof(t)
  <2>1. target = "aof" /\ file'["aof"] = content /\ file'["snapshot"] = file["snapshot"]
    BY <1>6, <1>11 DEF RewritesAof, FileNames
  <2>2. content \in Seq(Chunks)
    BY <1>3, <2>1 DEF Contents
  <2>3. Loaded' = Loaded /\ AofEvents' = ReadEvents(content) /\ SnapshotWhole'
    BY <2>1 DEF Loaded, AofEvents, SnapshotWhole, IInv, FilesAgree
  <2>4. FilesAgree'
    <3>1. NotNewer(Loaded) /\ Agrees(ApplyEvents(Loaded, ReadEvents(content)))
      BY <1>11 DEF IInv, FilesAgree, Faithful, RewritesAof
    <3>2. Faithful(Loaded, AofEvents)'
      BY <1>1, <2>3, <3>1, SameStore DEF Faithful
    <3>3. Numbered(AofEvents)'
      BY <1>1, <1>11, <2>3, SameStore DEF RewritesAof
    <3>4. TornAtEnd(file["aof"])'
      BY <1>11, <2>1, <2>2, ReadWhole DEF RewritesAof
    <3> QED
      BY <2>3, <3>2, <3>3, <3>4 DEF FilesAgree
  <2>5. saver'[t] = Idle
    BY <1>7, <2>1 DEF s
  <2> QED
    BY <1>1, <1>8, <2>4, <2>5, SaveStepFrame DEF SaveAgrees
<1> QED
  BY <1>2, <1>10, <1>11

LEMMA ReadAofStep ==
  ASSUME IInv, Types', NEW t \in Savers, ReadAof(t)
  PROVE  IInv'
<1> DEFINE K == EventsAfter(AofEvents, saver[t].marker)
<1>1. /\ UNCHANGED <<storeVars, status, file, temp>>
      /\ saver[t].pc = "read" /\ saver[t] # Idle
      /\ saver[t] \in Save /\ saver \in [Savers -> Save] /\ saver[t].marker \in Nat
  BY DEF ReadAof, Idle, IInv, Types, Save
<1>2. Covers(Loaded, saver[t].marker, AofEvents)
  BY <1>1 DEF IInv, SavesAgree, SaveAgrees, HasSnapshot, SavesSnapshot, RewritesAof
<1>3. K \in Seq(Events) /\ Numbered(K) /\ Agrees(ApplyEvents(Loaded, K))
  BY <1>1, <1>2, RetainedAgree DEF IInv
<1>4. Readable(file["aof"], RecoveryMode)
  BY WhatFilesHold, ReadTornAtEnd DEF IInv, Supported, FilesAgree
<1>5. saver' = [saver EXCEPT ![t] =
                  [saver[t] EXCEPT !.pc = "open", !.target = "aof", !.content = Lines(K)]]
  BY <1>1, <1>4 DEF ReadAof, AofEvents
<1> HIDE DEF K
<1>6. /\ saver'[t].pc = "open" /\ saver'[t].target = "aof" /\ saver'[t].content = Lines(K)
      /\ \A u \in Savers : u # t => saver'[u] = saver[u]
  BY <1>1, <1>5 DEF Save
<1>7. Whole(Lines(K)) /\ ReadEvents(Lines(K)) = K
  BY <1>3, ReadLines
<1>8. AofEvents' = AofEvents /\ Loaded' = Loaded
  BY <1>1 DEF AofEvents, Loaded
<1>9. RewritesAof(t)'
  <2>1. BytesInPlace(t)'
    BY <1>6 DEF BytesInPlace
  <2> QED
    BY <1>1, <1>3, <1>6, <1>7, <1>8, <2>1, SameStore DEF RewritesAof
<1>10. FilesAgree'
  BY <1>1, <1>8, SameStore DEF IInv, FilesAgree, SnapshotWhole
<1> QED
  BY <1>1, <1>6, <1>9, <1>10, SaveStepFrame DEF SaveAgrees

\* The restarted engine shows what the one before it did.
LEMMA RestartShows ==
  ASSUME IInv, Types', Restart
  PROVE  Shows(Memory', Memory, now)
<1>1. /\ Base \in Snapshots /\ Trimmed(Base, Loaded, now) /\ Shows(Replayed, Memory, now)
      /\ Loaded \in Snapshots /\ NotNewer(Loaded) /\ StoreTypeOK'
  BY ReplayedAgrees, WhatFilesHold DEF IInv, Agrees, FilesAgree, Faithful, Types
<1>2. /\ table' \in Imported /\ namespaceVersions' = Replayed.versions
      /\ Replayed.versions = namespaceVersions
  BY <1>1 DEF Restart, Shows, Memory
<1>3. /\ Memory' \in Snapshots
      /\ Memory'.entries = table' /\ Memory'.versions = Replayed.versions
  BY <1>1, <1>2 DEF Memory, Snapshots, StoreTypeOK
<1>4. CASE table' = Replayed.entries
  <2>1. Memory' = Replayed
    BY <1>1, <1>3, <1>4 DEF Memory, Shows, Snapshots
  <2> QED
    BY <1>1, <2>1
<1>5. CASE Replayed = Base /\ table' = Loaded.entries
  <2>1. Loaded.versions = namespaceVersions
    BY <1>1, <1>2, <1>5 DEF Trimmed
  <2>2. Memory' = Loaded
    BY <1>1, <1>2, <1>3, <1>5, <2>1 DEF Memory, Snapshots
  <2>3. NotAhead(Loaded.entries, Loaded.versions)
    BY <1>1, <2>1 DEF NotNewer
  <2>4. Shows(Loaded, Loaded, now)
    BY <1>1, <2>3, ShowsItself
  <2>5. Shows(Base, Loaded, now)
    BY <1>1, <2>4, TrimmedShows
  <2>6. Shows(Loaded, Base, now)
    BY <1>1, <2>3, <2>5, ShowsBack
  <2> QED
    BY <1>1, <1>5, <2>2, <2>6, ShowsThrough
<1> QED
  BY <1>2, <1>4, <1>5 DEF Imported

LEMMA RestartStep ==
  ASSUME IInv, Types', Restart
  PROVE  IInv'
<1>1. Kept /\ NotAhead(table, namespaceVersions)'
  BY RestartShows, HiddenStep DEF IInv, Types, Restart
<1>2. /\ Loaded' = Loaded /\ AofEvents' = AofEvents /\ SnapshotWhole' /\ TornAtEnd(file["aof"])'
      /\ AofEvents \in Seq(Events)
  BY WhatFilesHold DEF Restart, Loaded, AofEvents, SnapshotWhole, IInv, FilesAgree
<1>3. Numbered(AofEvents)'
  <2>1. MaxSeqOf(AofEvents) \in Nat /\ \A i \in 1 .. Len(AofEvents) : AofEvents[i].seq <= MaxSeqOf(AofEvents)
    BY <1>2, MaxSeqIs
  <2>2. mutationSeq' = MaxSeqOf(AofEvents)
    BY <2>1 DEF Restart, RestoredSeq, AofEvents, Larger
  <2>3. DOMAIN AofEvents = 1 .. Len(AofEvents)
    BY <1>2, LenProperties
  <2> QED
    BY <1>2, <2>1, <2>2, <2>3 DEF IInv, FilesAgree, Numbered
<1>4. Faithful(Loaded, AofEvents)'
  BY <1>1, <1>2 DEF IInv, FilesAgree, Faithful, Kept
<1>5. FilesAgree'
  BY <1>2, <1>3, <1>4 DEF FilesAgree
<1>6. (OneSaver /\ SavesAgree)'
  <2>1. \A t \in Savers : saver'[t] = Idle
    BY DEF IInv, OneSaver, Restart
  <2> QED
    BY <2>1 DEF OneSaver, SavesAgree, SaveAgrees, Savers
<1> QED
  BY <1>1, <1>5, <1>6 DEF IInv, Supported

------------------------------------------------------------------------------
(***************************************************************************)
(* The invariant holds.                                                    *)
(***************************************************************************)

\* At first there are no files, and nothing to see.
LEMMA InitInvariant == Init /\ Supported => IInv
<1> SUFFICES ASSUME Init, Supported
             PROVE  IInv
  OBVIOUS
<1>1. /\ Types /\ StoreTypeOK
      /\ table = EmptyTable /\ namespaceVersions = NoVersions
      /\ file["snapshot"] = NoFile /\ file["aof"] = <<>>
      /\ status = "up" /\ \A t \in Savers : saver[t] = Idle
  BY TypesInit DEF Init, StoreInit, Types
<1>2. NotAhead(table, namespaceVersions)
  BY <1>1 DEF NotAhead, EmptyTable
<1>3. SnapshotWhole /\ Loaded = Memory
  BY <1>1, ContentsAssumption DEF SnapshotWhole, Loaded, EmptySnapshot, Memory
<1>4. Memory \in Snapshots /\ Memory.entries = table /\ Memory.versions = namespaceVersions
  BY <1>1 DEF Memory, Snapshots, StoreTypeOK
<1>5. <<>> \in Seq(Chunks) /\ Len(<<>>) = 0
  OBVIOUS
<1> DEFINE f == <<>>
<1>6. f \in Seq(Chunks) /\ Whole(f) /\ Len(f) = 0
  BY <1>5 DEF Whole
<1> HIDE DEF f
<1>7. TornAtEnd(f) /\ ReadEvents(f) \in Seq(Events) /\ Len(ReadEvents(f)) = 0
  BY <1>6, ReadWhole
<1>8. TornAtEnd(file["aof"]) /\ AofEvents \in Seq(Events) /\ Len(AofEvents) = 0
  BY <1>1, <1>7 DEF AofEvents, f
<1>9. Numbered(AofEvents)
  <2>1. DOMAIN AofEvents = {}
    BY <1>8, LenProperties
  <2> QED
    BY <2>1 DEF Numbered, Ascending
<1>10. ApplyEvents(Loaded, AofEvents) = Memory
  BY <1>3, <1>4, <1>8, ReplaysIs DEF ApplyEvents
<1>11. Agrees(Memory)
  BY <1>2, <1>4, ShowsItself DEF Agrees
<1>12. NotNewer(Loaded)
  BY <1>1, <1>2, <1>3, <1>4 DEF NotNewer, StoreTypeOK, Versions
<1>13. FilesAgree
  BY <1>3, <1>8, <1>9, <1>10, <1>11, <1>12 DEF FilesAgree, Faithful
<1>14. OneSaver /\ SavesAgree
  BY <1>1 DEF OneSaver, SavesAgree, SaveAgrees, Savers
<1> QED
  BY <1>1, <1>2, <1>13, <1>14 DEF IInv

LEMMA NextInvariant == IInv /\ [Next]_vars => IInv'
<1> SUFFICES ASSUME IInv, [Next]_vars
             PROVE  IInv'
  OBVIOUS
<1>1. Types'
  BY TypesKept DEF IInv
<1>2. /\ StoreTypeOK /\ StoreTypeOK' /\ Types /\ NotAhead(table, namespaceVersions)
      /\ FilesAgree /\ SavesAgree /\ OneSaver /\ Supported
  BY <1>1 DEF IInv, Types
<1>3. ASSUME NEW sk \in StorageKeys, Read(sk) PROVE IInv'
  <2>1. /\ table' = ReadTable(sk) /\ namespaceVersions' = namespaceVersions /\ now' = now
        /\ mutationSeq' = mutationSeq /\ UNCHANGED processVars
    BY <1>2, <1>3 DEF Read, GetOutcome, Silent, Perform, StoreTypeOK
  <2>2. Kept /\ NotAhead(table, namespaceVersions)'
    <3>1. Shows(Memory', Memory, now)
      BY <1>2, <2>1, ReadTableShape, SilentIsHidden
    <3> QED
      BY <1>2, <2>1, <3>1, HiddenStep
  <2>3. /\ file' = file /\ temp' = temp /\ saver' = saver /\ status' = status
        /\ mutationSeq' \in Nat /\ mutationSeq <= mutationSeq'
    BY <1>2, <2>1 DEF processVars, StoreTypeOK
  <2>4. FilesAgree' /\ \A t \in Savers : SaveAgrees(t)'
    BY <1>2, <2>2, <2>3, StillAgree
  <2> QED
    BY <1>1, <1>2, <2>2, <2>3, <2>4 DEF IInv, SavesAgree, OneSaver, Supported
<1>4. CASE Mutate
  BY <1>1, <1>4, MutateStep
<1>5. ASSUME NEW t \in Requests, RequestSave(t) PROVE IInv'
  <2>1. /\ t \in Savers /\ BeginSave(t) /\ UNCHANGED <<storeVars, file, temp>>
        /\ status = "up" /\ status' = "up"
    BY <1>5 DEF Savers, RequestSave
  <2>2. \A u \in Savers : saver[u] = Idle
    BY <1>2, <1>5, <2>1 DEF OneSaver, Supported, Savers, RequestSave
  <2>3. /\ NotAhead(table, namespaceVersions)' /\ FilesAgree' /\ SavesAgree'
        /\ \A u \in Savers : u # t => saver'[u] = Idle
    BY <1>1, <2>1, <2>2, BeginSaveStep
  <2>4. OneSaver'
    BY <1>5, <2>1, <2>3, SettingsAssumption DEF OneSaver, Savers
  <2> QED
    BY <1>1, <1>2, <2>3, <2>4 DEF IInv, Supported
<1>6. ASSUME NEW t \in Savers, SaveStep(t) PROVE IInv'
  BY <1>1, <1>6, OpenTempStep, WriteTempStep, ReplaceStep, ReadAofStep DEF SaveStep
<1>7. CASE Shutdown
  <2>1. /\ Lifespan \in Savers /\ BeginSave(Lifespan) /\ UNCHANGED <<storeVars, file, temp>>
        /\ status' = "stopping" /\ \A u \in Savers : saver[u] = Idle
    BY <1>7 DEF Savers, Shutdown
  <2>2. /\ NotAhead(table, namespaceVersions)' /\ FilesAgree' /\ SavesAgree'
        /\ \A u \in Savers : u # Lifespan => saver'[u] = Idle
    BY <1>1, <2>1, BeginSaveStep
  <2>3. OneSaver'
    BY <2>1, <2>2, SettingsAssumption DEF OneSaver, Savers
  <2> QED
    BY <1>1, <1>2, <2>2, <2>3 DEF IInv, Supported
<1>8. ASSUME UNCHANGED <<storeVars, file, temp>>
      PROVE  /\ NotAhead(table, namespaceVersions)' /\ FilesAgree'
             /\ \A t \in Savers : saver'[t] = saver[t] => SaveAgrees(t)'
  <2>1. Kept /\ mutationSeq' \in Nat /\ mutationSeq <= mutationSeq'
    BY <1>2, <1>8, SameStore DEF Kept, storeVars, StoreTypeOK
  <2>2. file' = file /\ temp' = temp
    BY <1>8
  <2>3. FilesAgree' /\ \A t \in Savers : saver'[t] = saver[t] => SaveAgrees(t)'
    BY <1>2, <2>1, <2>2, StillAgree
  <2> QED
    BY <1>2, <1>8, <2>3 DEF storeVars
<1>9. CASE Exit
  <2>1. /\ UNCHANGED <<storeVars, file, temp>> /\ saver' = saver
        /\ \A t \in Savers : saver[t] = Idle
    BY <1>2, <1>9 DEF Exit, OneSaver, Savers
  <2> QED
    BY <1>1, <1>2, <1>8, <2>1 DEF IInv, Supported, OneSaver, SavesAgree, Savers
<1>10. CASE Crash
  <2>1. UNCHANGED <<storeVars, file, temp>> /\ NoSaves
    BY <1>10 DEF Crash
  <2> QED
    BY <1>1, <1>2, <1>8, <2>1, IdleSavers DEF IInv, Supported
<1>11. CASE CrashInAppend
  BY <1>1, <1>11, CrashInAppendStep
<1>12. CASE Restart
  BY <1>1, <1>12, RestartStep
<1>13. CASE Tick
  <2>1. /\ table' = table /\ namespaceVersions' = namespaceVersions /\ now' = now + 1
        /\ mutationSeq' = mutationSeq /\ UNCHANGED processVars
    BY <1>13 DEF Tick
  <2>2. Kept
    BY <1>2, <2>1, TickStep
  <2>3. /\ file' = file /\ temp' = temp /\ saver' = saver /\ status' = status
        /\ mutationSeq' \in Nat /\ mutationSeq <= mutationSeq'
    BY <1>2, <2>1 DEF processVars, StoreTypeOK
  <2>4. FilesAgree' /\ \A t \in Savers : SaveAgrees(t)'
    BY <1>2, <2>2, <2>3, StillAgree
  <2> QED
    BY <1>1, <1>2, <2>1, <2>3, <2>4 DEF IInv, SavesAgree, OneSaver, Supported
<1>14. CASE UNCHANGED vars
  <2>1. UNCHANGED <<storeVars, file, temp>> /\ saver' = saver /\ status' = status
    BY <1>14 DEF vars, processVars
  <2> QED
    BY <1>1, <1>2, <1>8, <2>1 DEF IInv, Supported, OneSaver, SavesAgree
<1> QED
  BY <1>3, <1>4, <1>5, <1>6, <1>7, <1>9, <1>10, <1>11, <1>12, <1>13, <1>14 DEF Next

\* The inductive invariant: what engine, files and the save under way keep of
\* each other (service.py:34-49, aof.py:84-105, repository.py:25-33).
THEOREM Invariant == Spec /\ Supported => []IInv
BY InitInvariant, NextInvariant, PTL DEF Spec

------------------------------------------------------------------------------
(***************************************************************************)
(* What follows from it.                                                   *)
(***************************************************************************)

\* At every step of a save, and after a crash at any step or in the middle of
\* an append, the files start a process that shows what clients saw last.
THEOREM FilesRecover == Spec /\ Supported => []Recoverable
<1>1. ASSUME IInv PROVE Recoverable
  <2>1. Types /\ FilesAgree /\ RecoveryMode = "truncate"
    BY <1>1 DEF IInv, Supported
  <2>2. CanStart
    <3>1. file["aof"] \in Seq(Chunks) /\ TornAtEnd(file["aof"])
      BY <2>1, WhatFilesHold DEF FilesAgree
    <3>2. Readable(file["aof"], "truncate")
      BY <3>1, ReadTornAtEnd
    <3> QED
      BY <2>1, <3>2 DEF CanStart, FilesAgree, SnapshotWhole
  <2>3. Shows(Replayed, Memory, now)
    BY <2>1, ReplayedAgrees DEF Agrees
  <2>4. Replayed.versions = namespaceVersions
    BY <2>3 DEF Shows, Memory
  <2>5. ASSUME NEW sk \in StorageKeys
        PROVE  LiveView(Replayed.entries, Replayed.versions, now)[sk]
                  = LiveView(table, namespaceVersions, now)[sk]
    <3>1. IF IsLive(table, namespaceVersions, now, sk)
          THEN Replayed.entries[sk] = table[sk]
          ELSE ~IsLive(Replayed.entries, Replayed.versions, now, sk)
      BY <2>3 DEF Shows, Memory
    <3>2. Replayed.entries[sk] = table[sk] =>
             (IsLive(Replayed.entries, Replayed.versions, now, sk)
                <=> IsLive(table, namespaceVersions, now, sk))
      BY <2>4 DEF IsLive
    <3> QED
      BY <3>1, <3>2 DEF LiveView
  <2> QED
    BY <2>2, <2>4, <2>5 DEF Recoverable, LiveView
<1> QED
  BY <1>1, Invariant, PTL

\* The events of the AOF stay in the order of their numbers, through rewrites
\* and restarts, which is all a rewrite goes by (aof.py:84-96).
THEOREM EventsStayNumbered == Spec /\ Supported => []NumberedInOrder
<1>1. IInv => NumberedInOrder
  BY DEF IInv, FilesAgree, Numbered, Ascending, AofEvents, NumberedInOrder
<1> QED
  BY <1>1, Invariant, PTL

\* Persistence implements DurableStore: crashes, shutdowns, saves and restarts
\* change nothing a client can see, and every other step is one operation of
\* the promised map or the clock.
THEOREM ProcessKeepsPromise == Spec /\ Supported => KeepsPromise
<1>1. Init => Promise!Init
  <2> SUFFICES ASSUME Init PROVE Promise!Init
    OBVIOUS
  <2>1. \A sk \in StorageKeys : ClientView[sk] = Missing
    BY DEF Init, StoreInit, EmptyTable, ClientView, Live, IsLive
  <2>2. ClientView = [sk \in StorageKeys |-> Missing]
    BY <2>1 DEF ClientView
  <2> QED
    BY <2>2 DEF Promise!Init, Promise!StorageKeys, StorageKeys, Init, StoreInit
<1>2. IInv /\ [Next]_vars => [Promise!Next]_Promise!vars
  <2> SUFFICES ASSUME IInv, [Next]_vars
               PROVE  Promise!Next \/ UNCHANGED Promise!vars
    OBVIOUS
  <2>1. StoreTypeOK /\ TableNotAhead /\ Types'
    BY TypesKept DEF IInv, Types, NotAhead, TableNotAhead
  <2>2. ASSUME UNCHANGED storeVars PROVE UNCHANGED Promise!vars
    BY <2>2 DEF storeVars, Promise!vars, ClientView, Live, IsLive
  <2>3. ASSUME NEW sk \in StorageKeys, Read(sk) PROVE UNCHANGED Promise!vars
    BY <2>1, <2>3, ReadTableShape, SilentStepInvisible DEF Read, GetOutcome
  <2>4. CASE Mutate
    BY <2>1, <2>4, OutcomeSeen DEF Mutate
  <2>5. ASSUME NEW t \in Savers, SaveStep(t) PROVE UNCHANGED storeVars
    BY <2>5 DEF SaveStep, OpenTemp, WriteTemp, Replace, ReadAof
  <2>6. CASE \/ \E t \in Requests : RequestSave(t)
             \/ \E t \in Savers : SaveStep(t)
             \/ Shutdown \/ Exit \/ Crash \/ UNCHANGED vars
    <3>1. UNCHANGED storeVars
      BY <2>5, <2>6 DEF RequestSave, Shutdown, Exit, Crash, vars
    <3> QED
      BY <2>2, <3>1
  <2>7. CASE CrashInAppend
    <3>1. UNCHANGED storeVars \/ \E outcome \in MutationOutcomes : Perform(outcome)
      BY <2>7 DEF CrashInAppend
    <3> QED
      BY <2>1, <2>2, <3>1, OutcomeSeen
  <2>8. CASE Restart
    <3>1. ClientView' = ClientView /\ now' = now
      BY <2>1, <2>8, RestartShows, HiddenStep DEF IInv, Types, Restart
    <3> QED
      BY <3>1 DEF Promise!vars
  <2>9. CASE Tick
    <3>1. Promise!Pass
      BY <2>1, <2>9, TickSeen DEF Tick
    <3> QED
      BY <3>1 DEF Promise!Next
  <2> QED
    BY <2>3, <2>4, <2>6, <2>7, <2>8, <2>9 DEF Next
<1> QED
  BY <1>1, <1>2, Invariant, PTL DEF Spec, Promise!Spec, KeepsPromise
==============================================================================
