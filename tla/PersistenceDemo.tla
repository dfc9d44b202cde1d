--------------------------- MODULE PersistenceDemo ---------------------------
(***************************************************************************)
(* The persistence demo: a page writes a record, has the API process       *)
(* killed, and finds out whether the record is still there when somebody   *)
(* has started the process again (frontend/app.js, app/api/admin.py).      *)
(*                                                                         *)
(* Requests are served and answered in any order; those a dying process    *)
(* has not answered fail.  The store keeps its record across restarts,     *)
(* which is what Persistence.tla is about.  The texts the demo writes are  *)
(* numbers here, each new; 0 is no record, and null in the page.           *)
(*                                                                         *)
(* Two assumptions about people and timers are guards, marked below: when  *)
(* people click (PatientCrasher, PatientWriter), and the order of the two  *)
(* timers (Look).  The phases and the error messages are those that decide *)
(* something or report a verdict; what is only rendered is left out.       *)
(***************************************************************************)
EXTENDS Integers, Sequences, FiniteSets

CONSTANTS
    MaxWrites,      \* bound on the values written
    MaxCrashes,     \* bound on the crashes asked for
    MaxReloads,     \* bound on the reloads of the page
    MaxFetches      \* bound on the requests under way

ASSUME DemoBounds == /\ MaxWrites \in Nat /\ MaxCrashes \in Nat
                     /\ MaxReloads \in Nat /\ MaxFetches \in Nat \ {0}

VARIABLES
    up,             \* the API process runs
    doomed,         \* a crash timer of this process is running
    crashEnabled,   \* settings.enable_demo_crash of this process
    record,         \* the demo's record in the store
    deaths,         \* how often the process has died
    fetches,        \* the requests under way
    demo,           \* state.persistenceDemo of the page
    looks,          \* the page's timers after a crash: which process it was
    page,           \* how often the page was reloaded
    crashes,        \* history: crashes asked for
    born,           \* history: during which process each value was written
    overwritten     \* history: values that a request has replaced or deleted

serverVars  == <<up, doomed, crashEnabled, record, deaths>>
pageVars    == <<demo, looks, page, crashes>>
historyVars == <<born, overwritten>>
vars == <<serverVars, fetches, pageVars, historyVars>>

NextValue == Len(born) + 1

Phases == {"idle", "written", "crashing", "down", "recovered"}
Demo == [phase : Phases, awaiting : BOOLEAN, crashEnabled : BOOLEAN,
         lastWritten : 0 .. MaxWrites, error : {"none", "lost", "changed", "other"},
         polling : BOOLEAN]

Slots == 1 .. MaxFetches
Free == [kind |-> "none", stage |-> "free", page |-> 0,
         value |-> 0, enabled |-> FALSE, process |-> 0]
Fetches == [kind    : {"none", "status", "write", "crash", "state"},
            stage   : {"free", "sent", "set", "answered", "failed"},
            page    : 0 .. MaxReloads,
            value   : 0 .. MaxWrites,
            enabled : BOOLEAN,
            process : 0 .. MaxCrashes]

\* A page that was just loaded knows what it last wrote and nothing else.
FreshDemo(lastWritten) ==
    [phase |-> "idle", awaiting |-> FALSE, crashEnabled |-> FALSE,
     lastWritten |-> lastWritten, error |-> "none", polling |-> FALSE]

Request(kind, p) == [kind |-> kind, stage |-> "sent", page |-> p,
                     value |-> 0, enabled |-> FALSE, process |-> 0]

\* The slots from which a request can be sent: the first free one.
FreeSlots == {s \in Slots : fetches[s] = Free /\ \A t \in Slots : t < s => fetches[t] # Free}

Init ==
    /\ up = TRUE
    /\ doomed = FALSE
    /\ crashEnabled \in BOOLEAN
    /\ record = 0
    /\ deaths = 0
    /\ fetches = [s \in Slots |-> IF s = 1 THEN Request("status", 0) ELSE Free]
    /\ demo = FreshDemo(0)
    /\ looks = <<>>
    /\ page = 0
    /\ crashes = 0
    /\ born = <<>>
    /\ overwritten = {}

------------------------------------------------------------------------------
(***************************************************************************)
(* The API process.                                                        *)
(***************************************************************************)

Answer(s, value) ==
    fetches' = [fetches EXCEPT ![s] =
                  [kind |-> @.kind, stage |-> "answered", page |-> @.page,
                   value |-> value, enabled |-> crashEnabled, process |-> deaths]]

Refuse(s) == fetches' = [fetches EXCEPT ![s].stage = "failed"]

\* The values that have been written or will be.
Claimed == Len(born) + Cardinality({s \in Slots : fetches[s].kind = "write" /\ fetches[s].stage = "sent"})

Arrived(s, kind) == up /\ fetches[s].kind = kind /\ fetches[s].stage = "sent"

\* A request changes the record: to a new value, or to none.
Store(value) ==
    /\ record' = value
    /\ overwritten' = overwritten \cup ({record} \ {0})
    /\ born' = IF value = 0 THEN born ELSE Append(born, deaths)

ServeStatus(s) ==
    /\ Arrived(s, "status")
    /\ Answer(s, record)
    /\ UNCHANGED <<serverVars, pageVars, historyVars>>

\* GET /store/state: what it answers is only rendered.  It fails when it cannot
\* read the AOF, the snapshot or the catalog.
ServeState(s) ==
    /\ Arrived(s, "state")
    /\ Answer(s, 0) \/ Refuse(s)
    /\ UNCHANGED <<serverVars, pageVars, historyVars>>

\* write_persistence_demo_record: the set, and then the get it answers with.
ServeWrite(s) ==
    /\ Arrived(s, "write")
    /\ Store(NextValue)
    /\ fetches' = [fetches EXCEPT ![s].stage = "set"]
    /\ UNCHANGED <<up, doomed, crashEnabled, deaths, pageVars>>

ServeWritten(s) ==
    /\ up
    /\ fetches[s].stage = "set"
    /\ Answer(s, record)
    /\ UNCHANGED <<serverVars, pageVars, historyVars>>

ServeCrash(s) ==
    /\ Arrived(s, "crash")
    /\ crashEnabled
    /\ doomed' = TRUE
    /\ Answer(s, 0)
    /\ UNCHANGED <<up, crashEnabled, record, deaths, pageVars, historyVars>>

\* 403 when the crash endpoint is disabled.
RefuseCrash(s) ==
    /\ Arrived(s, "crash")
    /\ ~crashEnabled
    /\ Refuse(s)
    /\ UNCHANGED <<serverVars, pageVars, historyVars>>

\* Nobody listens.
Unreachable(s) ==
    /\ ~up
    /\ fetches[s].stage = "sent"
    /\ Refuse(s)
    /\ UNCHANGED <<serverVars, pageVars, historyVars>>

\* Another tab or client of the API writes the demo's record or deletes it.
OtherClient ==
    /\ up
    /\ \/ Claimed < MaxWrites /\ Store(NextValue)
       \/ record # 0 /\ Store(0)
    /\ UNCHANGED <<up, doomed, crashEnabled, deaths, fetches, pageVars>>

\* Mutant: the crash timer outlives its process.
HardExitAgain ==
    /\ doomed
    /\ up' = FALSE
    /\ deaths' = deaths + 1
    /\ fetches' = [s \in Slots |->
                     IF fetches[s].stage \in {"sent", "set"}
                     THEN [fetches[s] EXCEPT !.stage = "failed"] ELSE fetches[s]]
    /\ UNCHANGED <<doomed, crashEnabled, record, pageVars, historyVars>>

\* _hard_exit: every request without an answer fails, answers may get lost.
HardExit ==
    /\ doomed
    /\ up' = FALSE
    /\ doomed' = FALSE
    /\ deaths' = deaths + 1
    /\ \E lost \in SUBSET {s \in Slots : fetches[s].stage = "answered"} :
          fetches' = [s \in Slots |->
                        IF fetches[s].stage \in {"sent", "set"} \/ s \in lost
                        THEN [fetches[s] EXCEPT !.stage = "failed"] ELSE fetches[s]]
    /\ UNCHANGED <<crashEnabled, record, pageVars, historyVars>>

\* Somebody runs `docker compose up -d api`, perhaps with other settings.
Restart ==
    /\ ~up
    /\ up' = TRUE
    /\ crashEnabled' \in BOOLEAN
    /\ UNCHANGED <<doomed, record, deaths, fetches, pageVars, historyVars>>

------------------------------------------------------------------------------
(***************************************************************************)
(* The page.                                                               *)
(***************************************************************************)

Send(kind) == \E s \in FreeSlots : fetches' = [fetches EXCEPT ![s] = Request(kind, page)]

Outstanding == {s \in Slots : fetches[s] # Free /\ fetches[s].page = page}

\* Assumption: nobody asks for a crash while an answer is outstanding, or while
\* the look after an earlier crash is still to come, nor for a new value between
\* a click on crash and its answer.
PatientCrasher == Outstanding = {} /\ \A i \in DOMAIN looks : looks[i] = deaths
PatientWriter == \A s \in Outstanding : fetches[s].kind # "crash"

ClickWrite ==
    /\ PatientWriter
    /\ Claimed < MaxWrites
    /\ Send("write")
    /\ UNCHANGED <<serverVars, pageVars, historyVars>>

ClickCrash ==
    /\ PatientCrasher
    /\ crashes < MaxCrashes
    /\ IF demo.crashEnabled /\ demo.lastWritten # 0
       THEN /\ Send("crash")
            /\ crashes' = crashes + 1
            /\ UNCHANGED demo
       ELSE /\ demo' = [demo EXCEPT !.error = "other"]
            /\ UNCHANGED <<fetches, crashes>>
    /\ UNCHANGED <<serverVars, looks, page, historyVars>>

\* The interval of startPersistenceDemoPolling.
Poll ==
    /\ demo.polling
    /\ Send("status")
    /\ UNCHANGED <<serverVars, pageVars, historyVars>>

\* The look 450 ms after the process should have died.  Assumption: its timer
\* has killed it by then.
Look ==
    /\ looks # <<>>
    /\ Head(looks) < deaths
    /\ looks' = Tail(looks)
    /\ Send("status")
    /\ UNCHANGED <<serverVars, demo, page, crashes, historyVars>>

\* What the old page has asked for may still be served; nobody hears of it.
\* localStorage keeps the last value; the new page looks once.
Reload ==
    /\ page < MaxReloads
    /\ page' = page + 1
    /\ demo' = FreshDemo(demo.lastWritten)
    /\ looks' = <<>>
    /\ \E s \in FreeSlots : fetches' = [fetches EXCEPT ![s] = Request("status", page')]
    /\ UNCHANGED <<serverVars, crashes, historyVars>>

\* Mutant: a matching value is a recovery, whether one is awaited or not.
AnyMatchRecovers(d, value) ==
    CASE value = 0 /\ d.phase # "recovered" ->
            [d EXCEPT !.phase = "idle", !.awaiting = FALSE,
                      !.error = IF d.awaiting THEN "lost" ELSE @]
      [] value # 0 /\ value = d.lastWritten ->
            [d EXCEPT !.phase = "recovered", !.awaiting = FALSE]
      [] OTHER -> d

\* What the answer to fetchPersistenceDemoStatus says about the record.
Judged(d, value) ==
    CASE value = 0 /\ d.phase # "recovered" ->
            [d EXCEPT !.phase = "idle", !.awaiting = FALSE,
                      !.error = IF d.awaiting THEN "lost" ELSE @]
      [] value # 0 /\ value = d.lastWritten /\ d.awaiting ->
            [d EXCEPT !.phase = "recovered", !.awaiting = FALSE]
      [] value # 0 /\ ~(value = d.lastWritten /\ d.awaiting) /\ d.phase # "recovered" ->
            IF d.awaiting /\ d.lastWritten # 0
            THEN [d EXCEPT !.phase = "written", !.awaiting = FALSE, !.error = "changed"]
            ELSE [d EXCEPT !.phase = "written"]
      [] OTHER -> d

\* applyPersistenceDemoPayload
Applied(answer) == [demo EXCEPT !.crashEnabled = answer.enabled, !.error = "none"]

\* Mutant: the page does not look again after a failed look.
StatusFailedForGood(d) ==
    IF d.awaiting \/ d.phase = "crashing" THEN [d EXCEPT !.phase = "down"] ELSE d

\* The catch branch of fetchPersistenceDemoStatus.
StatusFailed(d) ==
    IF d.awaiting \/ d.phase = "crashing"
    THEN [d EXCEPT !.phase = "down", !.polling = TRUE]
    ELSE d

\* An answer, or its failure, reaches the page that asked, which may go on with
\* another request.
ReceiveAndSend(s, kind, stage, request) ==
    /\ fetches[s].page = page
    /\ fetches[s].kind = kind
    /\ fetches[s].stage = stage
    /\ fetches' = [fetches EXCEPT ![s] = request]
    /\ UNCHANGED <<serverVars, page, crashes, historyVars>>

Receive(s, kind, stage) == ReceiveAndSend(s, kind, stage, Free)

ReceiveStatus(s) ==
    /\ Receive(s, "status", "answered")
    /\ demo' = [Judged(Applied(fetches[s]), fetches[s].value) EXCEPT !.polling = FALSE]
    /\ UNCHANGED looks

ReceiveNoStatus(s) ==
    /\ Receive(s, "status", "failed")
    /\ demo' = StatusFailed(demo)
    /\ UNCHANGED looks

\* Mutant: a write does not end the wait for a recovery, so that an answer from
\* before it is judged by the new value.
ReceiveWrittenWaiting(s) ==
    /\ ReceiveAndSend(s, "write", "answered", Request("state", page))
    /\ demo' = [Applied(fetches[s]) EXCEPT !.phase = "written",
                                          !.lastWritten = fetches[s].value, !.polling = FALSE]
    /\ UNCHANGED looks

\* The handler of a write ends with refreshState.
ReceiveWritten(s) ==
    /\ ReceiveAndSend(s, "write", "answered", Request("state", page))
    /\ demo' = [Applied(fetches[s]) EXCEPT !.phase = "written", !.awaiting = FALSE,
                                          !.lastWritten = fetches[s].value, !.polling = FALSE]
    /\ UNCHANGED looks

ReceiveCrashing(s) ==
    /\ Receive(s, "crash", "answered")
    /\ demo' = [demo EXCEPT !.phase = "crashing", !.awaiting = TRUE, !.error = "none"]
    /\ looks' = Append(looks, fetches[s].process)

ReceiveState(s) ==
    /\ Receive(s, "state", "answered")
    /\ UNCHANGED <<demo, looks>>

\* wrapAction shows the error.
ReceiveError(s) ==
    /\ \E kind \in {"write", "crash", "state"} : Receive(s, kind, "failed")
    /\ demo' = [demo EXCEPT !.error = "other"]
    /\ UNCHANGED looks

\* The page that asked is gone.
Discard(s) ==
    /\ fetches[s].page # page
    /\ fetches[s].stage \in {"answered", "failed"}
    /\ fetches' = [fetches EXCEPT ![s] = Free]
    /\ UNCHANGED <<serverVars, pageVars, historyVars>>

------------------------------------------------------------------------------
Serve(s) == ServeStatus(s) \/ ServeState(s) \/ ServeWrite(s) \/ ServeWritten(s) \/ ServeCrash(s)
            \/ RefuseCrash(s) \/ Unreachable(s)

Deliver(s) == ReceiveStatus(s) \/ ReceiveNoStatus(s) \/ ReceiveWritten(s) \/ ReceiveCrashing(s)
              \/ ReceiveState(s) \/ ReceiveError(s) \/ Discard(s)

Next ==
    \/ \E s \in Slots : Serve(s) \/ Deliver(s)
    \/ OtherClient
    \/ HardExit
    \/ Restart
    \/ ClickWrite \/ ClickCrash \/ Poll \/ Look \/ Reload

\* Requests are served and answered, and timers fire.  Nobody has to click, and
\* nobody has to start the process again.
Fairness ==
    /\ \A s \in Slots : WF_vars(Serve(s)) /\ WF_vars(Deliver(s))
    /\ WF_vars(HardExit)
    /\ WF_vars(Poll)
    /\ WF_vars(Look)

Spec == Init /\ [][Next]_vars /\ Fairness

------------------------------------------------------------------------------
(***************************************************************************)
(* Properties.                                                             *)
(***************************************************************************)

\* Type correctness of process, requests and page.
TypeOK ==
    /\ up \in BOOLEAN /\ doomed \in BOOLEAN /\ crashEnabled \in BOOLEAN
    /\ record \in 0 .. Len(born)
    /\ deaths \in 0 .. MaxCrashes
    /\ fetches \in [Slots -> Fetches]
    /\ demo \in Demo
    /\ \A i \in DOMAIN looks : looks[i] \in 0 .. MaxCrashes
    /\ page \in 0 .. MaxReloads
    /\ crashes \in 0 .. MaxCrashes
    /\ \A v \in DOMAIN born : born[v] \in 0 .. MaxCrashes
    /\ overwritten \subseteq DOMAIN born

\* The page says that the last value survived a restart (app.js:335-337) only
\* when the process that stored it has died since: no answer from before the
\* crash, and none to a look of another page or for another crash, makes it say
\* so of a value whose process still runs.
RecoveredMeansSurvived ==
    demo.phase = "recovered" => demo.lastWritten # 0 /\ born[demo.lastWritten] < deaths

\* The page reports a value that was lost or changed by a restart
\* (app.js:403, 421) only when some request, its own or another's, has replaced
\* or deleted the value; a restart alone never makes it say so, in whatever
\* order the answers come.
NoFalseAlarm ==
    demo.error \in {"lost", "changed"} => demo.lastWritten \in overwritten

\* A page that waits for a recovery learns how it went, once the process stays
\* up: the look, or the polling it starts, gets an answer, however many looks
\* fail before and whatever else is clicked.
AwaitingResolved == <>[]up => (demo.awaiting ~> ~demo.awaiting)
==============================================================================
