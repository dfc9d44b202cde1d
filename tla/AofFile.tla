------------------------------- MODULE AofFile -------------------------------
(***************************************************************************)
(* The append-only file as bytes that matter: app/persistence/aof.py.      *)
(*                                                                         *)
(* A file is a sequence of chunks, one per write(2) that reached it.  An   *)
(* append opens the file, writes one JSON object and a newline, and closes *)
(* it, so its chunk is normally a "line"; a process that dies in the       *)
(* middle leaves a "cut" chunk (part of the object) or an "unterminated"   *)
(* one (the object without the newline).  "garbage" is the rest of a       *)
(* longer file that was overwritten from the start; it ends in a newline   *)
(* and does not parse.                                                     *)
(*                                                                         *)
(* readline() does not see chunks: a chunk without a newline and the chunk *)
(* after it are one line, and two objects, or a part and an object, on one *)
(* line are not JSON.                                                      *)
(***************************************************************************)
EXTENDS Records, SequencesExt

Chunks == [event : Events, form : {"line", "cut", "unterminated"}] \cup [form : {"garbage"}]

Line(event)         == [event |-> event, form |-> "line"]
Cut(event)          == [event |-> event, form |-> "cut"]
Unterminated(event) == [event |-> event, form |-> "unterminated"]
Garbage             == [form |-> "garbage"]

\* Mutant: events reach the file as they are.
Unserialized(events) == events

Lines(events) == [i \in DOMAIN events |-> Line(events[i])]

HasNewline(chunk) == chunk.form \in {"line", "garbage"}

\* The file ends in a complete line, or is empty.
Terminated(file) == file # <<>> => HasNewline(Last(file))

------------------------------------------------------------------------------
(***************************************************************************)
(* iter_events.                                                            *)
(***************************************************************************)

StartsLine(file, i) == i = 1 \/ HasNewline(file[i - 1])

\* The line that starts at chunk i is the last record of the file.
IsLastRecord(file, i) == \A j \in i .. Len(file) - 1 : ~HasNewline(file[j])

\* json.loads succeeds on the line that starts at chunk i.
Parses(file, i) ==
    \/ file[i].form = "line"
    \/ file[i].form = "unterminated" /\ i = Len(file)

LineStarts(file) == {i \in DOMAIN file : StartsLine(file, i)}

BrokenLines(file) == {i \in LineStarts(file) : ~Parses(file, i)}

\* iter_events reaches the end without AofCorruptionError.
Readable(file, recoveryMode) ==
    \A i \in BrokenLines(file) : recoveryMode = "truncate" /\ IsLastRecord(file, i)

\* Picks(seq, positions)[n]: what a loop over the first n elements of seq keeps
\* of them, when it keeps those at some positions.
Picks(seq, positions) ==
    LET upTo[n \in 0 .. Len(seq)] ==
            IF n = 0 THEN <<>>
            ELSE IF n \in positions THEN Append(upTo[n - 1], seq[n]) ELSE upTo[n - 1]
    IN  upTo

Picked(seq, positions) == Picks(seq, positions)[Len(seq)]

\* The events iter_events yields from a readable file.
ReadEvents(file) ==
    LET lines == Picked(file, LineStarts(file) \ BrokenLines(file))
    IN  [n \in DOMAIN lines |-> lines[n].event]

------------------------------------------------------------------------------
(***************************************************************************)
(* AofService.                                                             *)
(***************************************************************************)

\* The loop of _apply_events: Replays(snapshot, events)[n] is what the first n
\* events make of snapshot.
Replays(snapshot, events) ==
    LET after[n \in 0 .. Len(events)] ==
            IF n = 0 THEN snapshot ELSE ApplyEvent(after[n - 1], events[n])
    IN  after

ApplyEvents(snapshot, events) == Replays(snapshot, events)[Len(events)]

\* The events rewrite_after keeps.
EventsAfter(events, marker) == Picked(events, {i \in DOMAIN events : events[i].seq > marker})

\* max(..., default=0)
MaxSeqOf(events) == Max({0} \cup {events[i].seq : i \in DOMAIN events})
==============================================================================
