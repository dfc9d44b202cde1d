------------------------ MODULE PersistenceDemoProofs ------------------------
(***************************************************************************)
(* Proofs about PersistenceDemo, for any number of writes, crashes,        *)
(* reloads and requests under way: what the page says of a recovery is     *)
(* true.  The argument follows the page from the click on crash on.  From  *)
(* then until it has its verdict it is committed: its last value does not  *)
(* change, and every look it may judge is sent after the process that      *)
(* stored that value has died.  The types, last, take counting: a process  *)
(* dies no more often than somebody has asked for a crash.                 *)
(***************************************************************************)
EXTENDS PersistenceDemo, FiniteSetTheorems, TLAPS

\* The present page waits for the answer to a request of this kind.
Pending(s, kind) == fetches[s].page = page /\ fetches[s].kind = kind

\* The page has asked for a crash and does not know yet how it went.
Committed == demo.awaiting \/ \E s \in Slots : Pending(s, "crash")

\* A process has died since the last value was stored.
Survived == demo.lastWritten # 0 /\ born[demo.lastWritten] < deaths

------------------------------------------------------------------------------
(***************************************************************************)
(* The inductive invariant, in parts.                                      *)
(***************************************************************************)

SomeFetch == [kind    : {"none", "status", "write", "crash", "state"},
              stage   : {"free", "sent", "set", "answered", "failed"},
              page    : Nat, value : Nat, enabled : BOOLEAN, process : Nat]

SomeDemo == [phase : Phases, awaiting : BOOLEAN, crashEnabled : BOOLEAN, lastWritten : Nat,
             error : {"none", "lost", "changed", "other"}, polling : BOOLEAN]

\* Types, without the bounds.
Types ==
    /\ crashEnabled \in BOOLEAN
    /\ deaths \in Nat /\ page \in Nat
    /\ fetches \in [Slots -> SomeFetch]
    /\ demo \in SomeDemo
    /\ looks \in Seq(Nat)
    /\ born \in Seq(Nat)
    /\ record \in 0 .. Len(born)

\* Every value is stored by a process that has not died more often since, it
\* is in the record or was replaced, and nobody knows one that does not exist.
Values ==
    /\ \A v \in 1 .. Len(born) : born[v] <= deaths /\ (v = record \/ v \in overwritten)
    /\ demo.lastWritten <= Len(born)
    /\ \A s \in Slots : fetches[s].value <= Len(born)

\* No request is from a page to come; none writes while another crashes.
Requests ==
    /\ \A s \in Slots : fetches[s].page <= page
    /\ \A s, t \in Slots : ~(Pending(s, "write") /\ Pending(t, "crash"))

\* The looks of a committed page come after the death of a process that knew
\* the last value.
LooksLate ==
    Committed =>
        /\ demo.lastWritten # 0
        /\ \A i \in 1 .. Len(looks) : born[demo.lastWritten] <= looks[i]
        /\ \A s \in Slots : Pending(s, "crash") /\ fetches[s].stage = "answered" =>
               born[demo.lastWritten] <= fetches[s].process

\* What a committed page can hear is from after that death.
AnswersLate ==
    Committed =>
        \A s \in Slots : Pending(s, "status") =>
            /\ Survived
            /\ fetches[s].stage = "answered" /\ fetches[s].value # demo.lastWritten =>
                  demo.lastWritten \in overwritten

\* What the page shows and does.
Shown ==
    /\ demo.phase = "crashing" => demo.awaiting
    /\ demo.polling => Survived
    /\ demo.phase = "recovered" => Survived
    /\ demo.error \in {"lost", "changed"} => demo.lastWritten \in overwritten

IInv == Types /\ Values /\ Requests /\ LooksLate /\ AnswersLate /\ Shown

LEMMA RequestType ==
  ASSUME NEW kind \in {"status", "write", "crash", "state"}, NEW p \in Nat
  PROVE  Request(kind, p) \in SomeFetch /\ Free \in SomeFetch
  BY DEF Request, Free, SomeFetch

LEMMA InitInv == Init => IInv
<1> SUFFICES ASSUME Init PROVE IInv
  OBVIOUS
<1>1. /\ Request("status", 0) \in SomeFetch /\ Free \in SomeFetch
      /\ Request("status", 0).page = 0 /\ Request("status", 0).kind = "status"
      /\ Request("status", 0).value = 0
      /\ Free.page = 0 /\ Free.kind = "none" /\ Free.value = 0
  BY RequestType DEF Free, Request
<1>2. \A s \in Slots : /\ fetches[s] = Request("status", 0) \/ fetches[s] = Free
                       /\ fetches[s].page = 0 /\ fetches[s].value = 0
                       /\ fetches[s].kind \in {"status", "none"}
  BY <1>1 DEF Init
<1>3. Types
  BY <1>1 DEF Init, FreshDemo, Types, SomeDemo, Phases
<1>4. Values /\ Requests
  BY <1>2 DEF Init, FreshDemo, Values, Requests, Pending
<1>5. ~Committed
  BY <1>2 DEF Init, FreshDemo, Committed, Pending
<1>6. Shown
  BY DEF Init, FreshDemo, Shown
<1> QED
  BY <1>3, <1>4, <1>5, <1>6 DEF IInv, LooksLate, AnswersLate

------------------------------------------------------------------------------
(***************************************************************************)
(* Steps that leave the page alone.                                        *)
(***************************************************************************)

\* What such a step may do to a request: answer it with what the store has,
\* fail it or forget it.
Progress(s) ==
    \/ fetches'[s] = Free
    \/ /\ fetches'[s].kind = fetches[s].kind
       /\ fetches'[s].page = fetches[s].page
       /\ fetches'[s].value <= Len(born')
       /\ fetches'[s].stage = "answered" =>
             \/ /\ fetches[s].stage = "answered"
                /\ fetches'[s].value = fetches[s].value
                /\ fetches'[s].process = fetches[s].process
             \/ /\ fetches[s].kind = "status" => fetches'[s].value = record'
                /\ fetches'[s].process = deaths

\* Time passes for the page: processes die, values are stored and replaced.
Later ==
    /\ deaths <= deaths'
    /\ Len(born) <= Len(born')
    /\ \A v \in 1 .. Len(born) : born'[v] = born[v]
    /\ overwritten \subseteq overwritten'
    /\ \A v \in 1 .. Len(born') : born'[v] <= deaths' /\ (v = record' \/ v \in overwritten')

LEMMA ServerInv ==
  ASSUME IInv, Types', Later, UNCHANGED <<demo, looks, page>>, \A s \in Slots : Progress(s)
  PROVE  IInv'
<1>1. Free.kind = "none" /\ Free.page = 0 /\ Free.value = 0
  BY DEF Free
<1>2. \A s \in Slots : \A kind \in {"status", "write", "crash"} :
         Pending(s, kind)' => /\ Pending(s, kind)
                              /\ fetches'[s] # Free
  BY <1>1 DEF Pending, Progress
<1>3. Committed' => Committed
  BY <1>2 DEF Committed
<1>4. demo.lastWritten \in 0 .. Len(born) /\ demo' = demo
  <2>1. Len(born) \in Nat /\ demo.lastWritten \in Nat
    BY DEF IInv, Types, SomeDemo
  <2>2. demo.lastWritten <= Len(born)
    BY DEF IInv, Values
  <2> QED
    BY <2>1, <2>2
<1>5. Survived => Survived'
  <2>1. SUFFICES ASSUME Survived PROVE Survived'
    OBVIOUS
  <2>2. demo.lastWritten \in 1 .. Len(born)
    BY <1>4, <2>1 DEF Survived
  <2>3. born'[demo.lastWritten] = born[demo.lastWritten] /\ deaths <= deaths'
    BY <2>2 DEF Later
  <2>4. born[demo.lastWritten] \in Nat /\ deaths \in Nat /\ deaths' \in Nat
    BY <2>2 DEF IInv, Types
  <2> QED
    BY <1>4, <2>1, <2>3, <2>4 DEF Survived
<1>6. Values'
  BY <1>1, <1>4 DEF IInv, Types, Later, Values, Progress
<1>7. Requests'
  <2>1. \A s, t \in Slots : ~(Pending(s, "write")' /\ Pending(t, "crash")')
    BY <1>2 DEF IInv, Requests
  <2>2. \A s \in Slots : fetches'[s].page <= page'
    <3>1. ASSUME NEW s \in Slots
          PROVE  fetches'[s].page \in {0, fetches[s].page}
      BY <1>1 DEF Progress
    <3>2. page \in Nat /\ \A s \in Slots : fetches[s].page <= page
      BY DEF IInv, Types, Requests
    <3> QED
      BY <3>1, <3>2
  <2> QED
    BY <2>1, <2>2 DEF Requests, Pending
<1>8. LooksLate'
  <2>1. SUFFICES ASSUME Committed'
                 PROVE  /\ demo.lastWritten # 0
                        /\ \A i \in 1 .. Len(looks) : born'[demo.lastWritten] <= looks[i]
                        /\ \A s \in Slots : Pending(s, "crash")' /\ fetches'[s].stage = "answered" =>
                              born'[demo.lastWritten] <= fetches'[s].process
    BY <1>4 DEF LooksLate
  <2>2. Committed
    BY <1>3, <2>1
  <2>3. demo.lastWritten \in 1 .. Len(born)
    BY <1>4, <2>2 DEF IInv, LooksLate, Types
  <2>4. born'[demo.lastWritten] = born[demo.lastWritten] /\ born[demo.lastWritten] <= deaths
    BY <2>3 DEF Later, IInv, Values
  <2>5. ASSUME NEW s \in Slots, Pending(s, "crash")', fetches'[s].stage = "answered"
        PROVE  born[demo.lastWritten] <= fetches'[s].process
    BY <1>2, <2>2, <2>4, <2>5 DEF IInv, LooksLate, Progress
  <2> QED
    BY <2>2, <2>3, <2>4, <2>5 DEF IInv, LooksLate
<1>9. AnswersLate'
  <2>1. SUFFICES ASSUME Committed', NEW s \in Slots, Pending(s, "status")'
                 PROVE  /\ Survived'
                        /\ fetches'[s].stage = "answered" /\ fetches'[s].value # demo.lastWritten =>
                              demo.lastWritten \in overwritten'
    BY <1>4 DEF AnswersLate
  <2>2. Committed /\ Pending(s, "status") /\ Survived /\ fetches'[s] # Free
    BY <1>2, <1>3, <2>1 DEF IInv, AnswersLate
  <2>3. demo.lastWritten \in 1 .. Len(born')
    <3>1. Len(born) \in Nat /\ Len(born') \in Nat /\ Len(born) <= Len(born')
      BY DEF Later, IInv, Types
    <3>2. demo.lastWritten # 0
      BY <2>2 DEF Survived
    <3> QED
      BY <1>4, <3>1, <3>2
  <2>4. fetches[s].kind = "status"
    BY <2>2 DEF Pending
  <2>5. ASSUME fetches'[s].stage = "answered", fetches'[s].value # demo.lastWritten
        PROVE  demo.lastWritten \in overwritten'
    <3>1. CASE /\ fetches[s].stage = "answered"
               /\ fetches'[s].value = fetches[s].value
      BY <2>2, <2>5, <3>1 DEF IInv, AnswersLate, Later
    <3>2. CASE fetches'[s].value = record'
      BY <2>3, <2>5, <3>2 DEF Later
    <3> QED
      BY <2>2, <2>4, <2>5, <3>1, <3>2 DEF Progress
  <2> QED
    BY <1>5, <2>2, <2>5
<1>10. Shown'
  BY <1>4, <1>5 DEF IInv, Shown, Later
<1> QED
  BY <1>6, <1>7, <1>8, <1>9, <1>10 DEF IInv

\* What an answer and a refusal do to their request.
LEMMA AnswerShape ==
  ASSUME Types, NEW s \in Slots, NEW value \in Nat, Answer(s, value)
  PROVE  /\ fetches' \in [Slots -> SomeFetch]
         /\ fetches'[s].kind = fetches[s].kind /\ fetches'[s].page = fetches[s].page
         /\ fetches'[s].value = value /\ fetches'[s].process = deaths
         /\ \A t \in Slots \ {s} : fetches'[t] = fetches[t]
<1> DEFINE r == fetches[s]
           answered == [kind |-> r.kind, stage |-> "answered", page |-> r.page,
                        value |-> value, enabled |-> crashEnabled, process |-> deaths]
<1>1. r \in SomeFetch /\ fetches \in [Slots -> SomeFetch]
  BY DEF Types
<1>2. answered \in SomeFetch
  BY <1>1 DEF SomeFetch, Types
<1>3. fetches' = [fetches EXCEPT ![s] = answered]
  BY DEF Answer
<1> QED
  BY <1>1, <1>2, <1>3

LEMMA RefuseShape ==
  ASSUME Types, NEW s \in Slots, NEW stage \in {"set", "failed"},
         fetches' = [fetches EXCEPT ![s].stage = stage]
  PROVE  /\ fetches' \in [Slots -> SomeFetch]
         /\ fetches'[s].kind = fetches[s].kind /\ fetches'[s].page = fetches[s].page
         /\ fetches'[s].value = fetches[s].value /\ fetches'[s].stage = stage
         /\ \A t \in Slots \ {s} : fetches'[t] = fetches[t]
<1> DEFINE r == fetches[s]
           refused == [r EXCEPT !.stage = stage]
<1>1. r \in SomeFetch /\ fetches \in [Slots -> SomeFetch]
  BY DEF Types
<1>2. /\ refused \in SomeFetch /\ refused.kind = r.kind /\ refused.page = r.page
      /\ refused.value = r.value /\ refused.stage = stage
  BY <1>1 DEF SomeFetch
<1>3. fetches' = [fetches EXCEPT ![s] = refused]
  BY Zenon
<1> QED
  BY <1>1, <1>2, <1>3

\* A request that nothing happens to makes its progress.
LEMMA NoProgress ==
  ASSUME IInv, NEW s \in Slots, fetches'[s] = fetches[s], Len(born) <= Len(born'), born' \in Seq(Nat)
  PROVE  Progress(s)
<1>1. fetches[s].value \in Nat /\ fetches[s].value <= Len(born)
  BY DEF IInv, Types, Values, SomeFetch
<1>2. Len(born) \in Nat /\ Len(born') \in Nat
  BY DEF IInv, Types
<1> QED
  BY <1>1, <1>2 DEF Progress

\* Nothing happens to the store.
LEMMA StoreUnchanged ==
  ASSUME IInv, deaths' \in Nat, deaths <= deaths', UNCHANGED <<record, born, overwritten>>
  PROVE  Later
  BY DEF IInv, Types, Values, Later

\* A value is stored, or the record deleted.
LEMMA StoreLater ==
  ASSUME IInv, NEW value \in {0, NextValue}, Store(value), UNCHANGED deaths
  PROVE  Later /\ record' \in 0 .. Len(born') /\ born' \in Seq(Nat)
<1>1. born \in Seq(Nat) /\ deaths \in Nat /\ Len(born) \in Nat /\ record \in 0 .. Len(born)
  BY DEF IInv, Types
<1>2. /\ record' = value
      /\ overwritten \subseteq overwritten'
      /\ record # 0 => record \in overwritten'
  BY DEF Store
<1>3. \A v \in 1 .. Len(born) : born[v] <= deaths /\ (v = record \/ v \in overwritten)
  BY DEF IInv, Values
<1>4. CASE value = 0
  BY <1>1, <1>2, <1>3, <1>4 DEF Store, Later
<1>5. CASE value = NextValue
  <2>1. value = Len(born) + 1 /\ value # 0
    BY <1>1, <1>5 DEF NextValue
  <2>2. born' = Append(born, deaths)
    BY <2>1 DEF Store
  <2>3. /\ born' \in Seq(Nat) /\ Len(born') = Len(born) + 1
        /\ \A v \in 1 .. Len(born) : born'[v] = born[v]
        /\ born'[Len(born) + 1] = deaths
    BY <1>1, <2>2
  <2>4. ASSUME NEW v \in 1 .. Len(born)
        PROVE  born'[v] <= deaths /\ v \in overwritten'
    <3>1. v \in Nat /\ v # 0 /\ born[v] <= deaths /\ (v = record \/ v \in overwritten)
      BY <1>1, <1>3, <2>4
    <3>2. born'[v] = born[v]
      BY <2>3, <2>4
    <3> QED
      BY <1>2, <3>1, <3>2
  <2>5. ASSUME NEW v \in 1 .. Len(born'), v \notin 1 .. Len(born)
        PROVE  born'[v] <= deaths /\ v = record'
    <3>1. v = Len(born) + 1
      BY <1>1, <2>3, <2>5
    <3> QED
      BY <1>1, <1>2, <2>1, <2>3, <3>1
  <2>6. Later
    BY <1>1, <1>2, <2>3, <2>4, <2>5 DEF Later
  <2> QED
    BY <1>1, <1>2, <2>1, <2>3, <2>6
<1> QED
  BY <1>4, <1>5

LEMMA ServeInv ==
  ASSUME IInv, NEW s \in Slots, Serve(s)
  PROVE  IInv'
<1> USE DEF Arrived
<1>1. IInv /\ Types /\ record \in Nat /\ Len(born) \in Nat /\ record <= Len(born)
  BY DEF IInv, Types
<1>2. CASE ServeStatus(s)
  <2>1. Answer(s, record)
    BY <1>2 DEF ServeStatus
  <2>2. UNCHANGED <<crashEnabled, record, deaths, demo, looks, page, born, overwritten>>
    BY <1>2 DEF ServeStatus, serverVars, pageVars, historyVars
  <2>3. Types'
    BY <1>1, <2>1, <2>2, AnswerShape DEF Types
  <2>4. Later
    BY <1>1, <2>2, StoreUnchanged DEF Types
  <2>5. Progress(s)
    BY <1>1, <2>1, <2>2, AnswerShape DEF Progress
  <2>6. \A t \in Slots \ {s} : Progress(t)
    BY <1>1, <2>1, <2>2, AnswerShape, NoProgress DEF Types
  <2> QED
    BY <2>2, <2>3, <2>4, <2>5, <2>6, ServerInv
<1>3. CASE ServeWritten(s)
  <2>1. Answer(s, record)
    BY <1>3 DEF ServeWritten
  <2>2. UNCHANGED <<crashEnabled, record, deaths, demo, looks, page, born, overwritten>>
    BY <1>3 DEF ServeWritten, serverVars, pageVars, historyVars
  <2>3. Types'
    BY <1>1, <2>1, <2>2, AnswerShape DEF Types
  <2>4. Later
    BY <1>1, <2>2, StoreUnchanged DEF Types
  <2>5. Progress(s)
    BY <1>1, <2>1, <2>2, AnswerShape DEF Progress
  <2>6. \A t \in Slots \ {s} : Progress(t)
    BY <1>1, <2>1, <2>2, AnswerShape, NoProgress DEF Types
  <2> QED
    BY <2>2, <2>3, <2>4, <2>5, <2>6, ServerInv
<1>4. CASE ServeCrash(s) \/ (ServeState(s) /\ Answer(s, 0))
  <2>1. Answer(s, 0) /\ fetches[s].kind # "status"
    BY <1>4 DEF ServeCrash, ServeState
  <2>2. UNCHANGED <<crashEnabled, record, deaths, demo, looks, page, born, overwritten>>
    BY <1>4 DEF ServeCrash, ServeState, serverVars, pageVars, historyVars
  <2>3. Types'
    BY <1>1, <2>1, <2>2, AnswerShape DEF Types
  <2>4. Later
    BY <1>1, <2>2, StoreUnchanged DEF Types
  <2>5. Progress(s)
    BY <1>1, <2>1, <2>2, AnswerShape DEF Progress
  <2>6. \A t \in Slots \ {s} : Progress(t)
    BY <1>1, <2>1, <2>2, AnswerShape, NoProgress DEF Types
  <2> QED
    BY <2>2, <2>3, <2>4, <2>5, <2>6, ServerInv
<1>5. CASE RefuseCrash(s) \/ Unreachable(s) \/ (ServeState(s) /\ Refuse(s))
  <2>1. fetches' = [fetches EXCEPT ![s].stage = "failed"]
    BY <1>5 DEF RefuseCrash, Unreachable, Refuse
  <2>2. UNCHANGED <<crashEnabled, record, deaths, demo, looks, page, born, overwritten>>
    BY <1>5 DEF RefuseCrash, Unreachable, ServeState, serverVars, pageVars, historyVars
  <2>3. Types'
    BY <1>1, <2>1, <2>2, RefuseShape DEF Types
  <2>4. Later
    BY <1>1, <2>2, StoreUnchanged DEF Types
  <2>5. Progress(s)
    BY <1>1, <2>1, <2>2, RefuseShape DEF Progress, IInv, Values
  <2>6. \A t \in Slots \ {s} : Progress(t)
    BY <1>1, <2>1, <2>2, RefuseShape, NoProgress DEF Types
  <2> QED
    BY <2>2, <2>3, <2>4, <2>5, <2>6, ServerInv
<1>6. CASE ServeWrite(s)
  <2>1. Store(NextValue) /\ fetches' = [fetches EXCEPT ![s].stage = "set"]
    BY <1>6 DEF ServeWrite
  <2>2. UNCHANGED <<crashEnabled, deaths, demo, looks, page>>
    BY <1>6 DEF ServeWrite, pageVars
  <2>3. Later /\ record' \in 0 .. Len(born') /\ born' \in Seq(Nat)
    BY <2>1, <2>2, StoreLater
  <2>4. Types'
    BY <1>1, <2>1, <2>2, <2>3, RefuseShape DEF Types
  <2>5. Len(born) <= Len(born')
    BY <2>3 DEF Later
  <2>6. Progress(s)
    <3>1. /\ fetches'[s].kind = fetches[s].kind /\ fetches'[s].page = fetches[s].page
          /\ fetches'[s].value = fetches[s].value /\ fetches'[s].stage = "set"
      BY <1>1, <2>1, RefuseShape
    <3>2. fetches[s].value \in Nat /\ fetches[s].value <= Len(born) /\ Len(born') \in Nat
      BY <1>1, <2>3 DEF IInv, Types, Values, SomeFetch
    <3> QED
      BY <1>1, <2>5, <3>1, <3>2 DEF Progress
  <2>7. \A t \in Slots \ {s} : Progress(t)
    BY <1>1, <2>1, <2>3, <2>5, RefuseShape, NoProgress
  <2> QED
    BY <2>2, <2>3, <2>4, <2>6, <2>7, ServerInv
<1> QED
  BY <1>2, <1>3, <1>4, <1>5, <1>6 DEF Serve, ServeState
LEMMA OtherClientInv == IInv /\ OtherClient => IInv'
<1> SUFFICES ASSUME IInv, OtherClient PROVE IInv'
  OBVIOUS
<1>1. PICK value \in {0, NextValue} : Store(value)
  BY DEF OtherClient
<1>2. UNCHANGED <<crashEnabled, deaths, fetches, demo, looks, page>>
  BY DEF OtherClient, pageVars
<1>3. Later /\ record' \in 0 .. Len(born') /\ born' \in Seq(Nat)
  BY <1>1, <1>2, StoreLater
<1>4. Types'
  BY <1>2, <1>3 DEF IInv, Types
<1>5. \A t \in Slots : Progress(t)
  BY <1>2, <1>3, NoProgress DEF Later
<1> QED
  BY <1>2, <1>3, <1>4, <1>5, ServerInv

LEMMA HardExitInv == IInv /\ HardExit => IInv'
<1> SUFFICES ASSUME IInv, HardExit PROVE IInv'
  OBVIOUS
<1>1. UNCHANGED <<crashEnabled, record, demo, looks, page, born, overwritten>> /\ deaths' = deaths + 1
  BY DEF HardExit, pageVars, historyVars
<1>2. Types /\ deaths \in Nat /\ deaths' \in Nat /\ deaths <= deaths' /\ born \in Seq(Nat)
  BY <1>1 DEF IInv, Types
<1>3. Later
  BY <1>1, <1>2, StoreUnchanged
<1>4. PICK lost \in SUBSET Slots :
         fetches' = [s \in Slots |->
                       IF fetches[s].stage \in {"sent", "set"} \/ s \in lost
                       THEN [fetches[s] EXCEPT !.stage = "failed"] ELSE fetches[s]]
  BY DEF HardExit
<1>5. ASSUME NEW t \in Slots
      PROVE  fetches'[t] \in SomeFetch /\ Progress(t)
  <2>1. fetches[t] \in SomeFetch /\ fetches[t].value <= Len(born')
    BY <1>1, <1>2 DEF IInv, Types, Values
  <2>2. CASE fetches'[t] = fetches[t]
    BY <1>1, <1>2, <2>1, <2>2, NoProgress
  <2>3. CASE fetches'[t] = [fetches[t] EXCEPT !.stage = "failed"]
    BY <2>1, <2>3 DEF SomeFetch, Progress
  <2> QED
    BY <1>4, <2>2, <2>3
<1>6. fetches' \in [Slots -> SomeFetch]
  BY <1>4, <1>5
<1>7. Types'
  BY <1>1, <1>2, <1>6 DEF Types
<1> QED
  BY <1>1, <1>3, <1>5, <1>7, ServerInv

LEMMA RestartInv == IInv /\ Restart => IInv'
<1> SUFFICES ASSUME IInv, Restart PROVE IInv'
  OBVIOUS
<1>1. /\ UNCHANGED <<record, deaths, fetches, demo, looks, page, born, overwritten>>
      /\ crashEnabled' \in BOOLEAN
  BY DEF Restart, pageVars, historyVars
<1>2. Types' /\ deaths' \in Nat /\ deaths <= deaths' /\ born' \in Seq(Nat) /\ Len(born) <= Len(born')
  BY <1>1 DEF IInv, Types
<1>3. Later
  BY <1>1, <1>2, StoreUnchanged
<1>4. \A t \in Slots : Progress(t)
  BY <1>1, <1>2, NoProgress
<1> QED
  BY <1>1, <1>2, <1>3, <1>4, ServerInv

------------------------------------------------------------------------------
(***************************************************************************)
(* Steps of the page.                                                      *)
(***************************************************************************)

\* The process and what it stores.
Stored == UNCHANGED <<crashEnabled, record, deaths, born, overwritten>>

\* A page step sends a request, forgets one, or does one after the other.
LEMMA SlotStep ==
  ASSUME IInv, NEW s \in Slots, NEW r \in SomeFetch, fetches' = [fetches EXCEPT ![s] = r],
         r.value = 0, r.page <= page', Stored, page <= page', page' \in Nat,
         demo' \in SomeDemo, demo'.lastWritten <= Len(born), looks' \in Seq(Nat)
  PROVE  /\ Types' /\ Values'
         /\ fetches'[s] = r
         /\ \A t \in Slots \ {s} : fetches'[t] = fetches[t]
         /\ \A t \in Slots : fetches'[t].page <= page'
<1>1. /\ fetches \in [Slots -> SomeFetch] /\ born \in Seq(Nat) /\ Len(born) \in Nat
      /\ page \in Nat
  BY DEF IInv, Types
<1>2. /\ fetches' \in [Slots -> SomeFetch]
      /\ fetches'[s] = r
      /\ \A t \in Slots \ {s} : fetches'[t] = fetches[t]
  BY <1>1
<1>3. Types'
  BY <1>2 DEF IInv, Types, Stored
<1>4. Values'
  BY <1>1, <1>2 DEF IInv, Values, Stored
<1>5. ASSUME NEW t \in Slots
      PROVE  fetches'[t].page <= page'
  <2>1. CASE t = s
    BY <1>2, <2>1
  <2>2. CASE t # s
    <3>1. fetches[t].page \in Nat /\ fetches[t].page <= page
      BY <1>1 DEF IInv, Requests, SomeFetch
    <3> QED
      BY <1>1, <1>2, <2>2, <3>1
  <2> QED
    BY <2>1, <2>2
<1> QED
  BY <1>2, <1>3, <1>4, <1>5

\* The requests the page waits for: those of before, but for the one that the
\* step has replaced.
LEMMA PendingStep ==
  ASSUME IInv, NEW s \in Slots, NEW r \in SomeFetch, fetches' = [fetches EXCEPT ![s] = r],
         UNCHANGED page, NEW t \in Slots, NEW kind, Pending(t, kind)'
  PROVE  \/ t # s /\ Pending(t, kind) /\ fetches'[t] = fetches[t]
         \/ t = s /\ r.kind = kind /\ fetches'[t] = r
<1>1. /\ fetches'[s] = r
      /\ \A u \in Slots \ {s} : fetches'[u] = fetches[u]
  BY DEF IInv, Types
<1> QED
  BY <1>1 DEF Pending

\* The page asks for something other than a crash, or hears of nothing that
\* matters: its wait goes on as before.
LEMMA QuietStep ==
  ASSUME IInv, NEW s \in Slots, NEW r \in SomeFetch, fetches' = [fetches EXCEPT ![s] = r],
         r.value = 0, r.page <= page, Stored, UNCHANGED page, r.kind # "crash",
         r.kind = "status" => r.stage = "sent" /\ (Committed => Survived),
         r.kind = "write" => \A t \in Slots : ~Pending(t, "crash"),
         demo' \in SomeDemo, demo'.lastWritten = demo.lastWritten,
         demo'.awaiting => demo.awaiting,
         looks' \in Seq(Nat),
         \A i \in 1 .. Len(looks') : \E j \in 1 .. Len(looks) : looks'[i] = looks[j]
  PROVE  /\ Types' /\ Values' /\ Requests' /\ LooksLate' /\ AnswersLate'
         /\ Survived => Survived'
<1>1. page' \in Nat /\ page <= page' /\ r.page <= page' /\ demo'.lastWritten <= Len(born)
  BY DEF IInv, Types, Values
<1>2. /\ Types' /\ Values'
      /\ \A t \in Slots : fetches'[t].page <= page'
  BY <1>1, SlotStep
<1>3. \A t \in Slots, kind \in {"crash", "write", "status"} : Pending(t, kind)' =>
         \/ t # s /\ Pending(t, kind) /\ fetches'[t] = fetches[t]
         \/ t = s /\ r.kind = kind /\ fetches'[t] = r
  <2> TAKE t \in Slots, kind \in {"crash", "write", "status"}
  <2>1. HAVE Pending(t, kind)'
  <2> QED
    BY <2>1, PendingStep
<1>4. Requests'
  BY <1>2, <1>3 DEF IInv, Requests, Pending
<1>5. Committed' => Committed
  BY <1>3 DEF Committed
<1>6. Survived <=> Survived'
  BY DEF Stored, Survived
<1>7. LooksLate'
  <2>1. SUFFICES ASSUME Committed'
                 PROVE  /\ demo'.lastWritten # 0
                        /\ \A i \in 1 .. Len(looks') : born'[demo'.lastWritten] <= looks'[i]
                        /\ \A t \in Slots : Pending(t, "crash")' /\ fetches'[t].stage = "answered" =>
                              born'[demo'.lastWritten] <= fetches'[t].process
    BY DEF LooksLate
  <2>2. /\ demo.lastWritten # 0
        /\ \A i \in 1 .. Len(looks) : born[demo.lastWritten] <= looks[i]
        /\ \A t \in Slots : Pending(t, "crash") /\ fetches[t].stage = "answered" =>
              born[demo.lastWritten] <= fetches[t].process
    BY <1>5, <2>1 DEF IInv, LooksLate
  <2> QED
    BY <1>3, <2>2 DEF Stored
<1>8. AnswersLate'
  <2>1. SUFFICES ASSUME Committed', NEW t \in Slots, Pending(t, "status")'
                 PROVE  /\ Survived'
                        /\ fetches'[t].stage = "answered" /\ fetches'[t].value # demo'.lastWritten =>
                              demo'.lastWritten \in overwritten'
    BY DEF AnswersLate
  <2>2. CASE t # s /\ Pending(t, "status") /\ fetches'[t] = fetches[t]
    BY <1>5, <1>6, <2>1, <2>2 DEF IInv, AnswersLate, Stored
  <2>3. CASE t = s /\ r.kind = "status" /\ fetches'[t] = r
    BY <1>5, <1>6, <2>1, <2>3
  <2> QED
    BY <1>3, <2>1, <2>2, <2>3
<1> QED
  BY <1>2, <1>4, <1>6, <1>7, <1>8

LEMMA ClickWriteInv == IInv /\ ClickWrite => IInv'
<1> SUFFICES ASSUME IInv, ClickWrite PROVE IInv'
  OBVIOUS
<1> DEFINE r == Request("write", page)
<1>1. Types /\ page \in Nat /\ page <= page /\ demo \in SomeDemo /\ looks \in Seq(Nat)
  BY DEF IInv, Types
<1>2. /\ r \in SomeFetch /\ r.value = 0 /\ r.page = page /\ r.kind = "write"
  BY <1>1, RequestType DEF Request
<1>3. PICK s \in Slots : fetches' = [fetches EXCEPT ![s] = r]
  BY DEF ClickWrite, Send, FreeSlots
<1>4. Stored /\ UNCHANGED <<demo, looks, page>>
  BY DEF ClickWrite, Stored, serverVars, pageVars, historyVars
<1>5. \A t \in Slots : ~Pending(t, "crash")
  BY DEF ClickWrite, PatientWriter, Outstanding, Pending, Free
<1> HIDE DEF r
<1>6. /\ Types' /\ Values' /\ Requests' /\ LooksLate' /\ AnswersLate'
      /\ Survived => Survived'
  BY <1>1, <1>2, <1>3, <1>4, <1>5, QuietStep
<1>7. Shown'
  BY <1>4, <1>6 DEF IInv, Shown, Stored
<1> QED
  BY <1>6, <1>7 DEF IInv

LEMMA PollInv == IInv /\ Poll => IInv'
<1> SUFFICES ASSUME IInv, Poll PROVE IInv'
  OBVIOUS
<1> DEFINE r == Request("status", page)
<1>1. Types /\ page \in Nat /\ page <= page /\ demo \in SomeDemo /\ looks \in Seq(Nat)
  BY DEF IInv, Types
<1>2. /\ r \in SomeFetch /\ r.value = 0 /\ r.page = page /\ r.kind = "status" /\ r.stage = "sent"
  BY <1>1, RequestType DEF Request
<1>3. PICK s \in Slots : fetches' = [fetches EXCEPT ![s] = r]
  BY DEF Poll, Send, FreeSlots
<1>4. Stored /\ UNCHANGED <<demo, looks, page>>
  BY DEF Poll, Stored, serverVars, pageVars, historyVars
<1>5. Survived
  BY DEF Poll, IInv, Shown
<1> HIDE DEF r
<1>6. /\ Types' /\ Values' /\ Requests' /\ LooksLate' /\ AnswersLate'
      /\ Survived => Survived'
  BY <1>1, <1>2, <1>3, <1>4, <1>5, QuietStep
<1>7. Shown'
  BY <1>4, <1>6 DEF IInv, Shown, Stored
<1> QED
  BY <1>6, <1>7 DEF IInv

LEMMA LookInv == IInv /\ Look => IInv'
<1> SUFFICES ASSUME IInv, Look PROVE IInv'
  OBVIOUS
<1> DEFINE r == Request("status", page)
<1>1. Types /\ page \in Nat /\ page <= page /\ demo \in SomeDemo /\ looks \in Seq(Nat)
  BY DEF IInv, Types
<1>2. /\ r \in SomeFetch /\ r.value = 0 /\ r.page = page /\ r.kind = "status" /\ r.stage = "sent"
  BY <1>1, RequestType DEF Request
<1>3. PICK s \in Slots : fetches' = [fetches EXCEPT ![s] = r]
  BY DEF Look, Send, FreeSlots
<1>4. /\ Stored /\ UNCHANGED <<demo, page>>
      /\ looks # <<>> /\ looks' = Tail(looks) /\ Head(looks) < deaths
  BY DEF Look, Stored, serverVars, historyVars
<1>5. Len(looks) \in Nat /\ 1 \in 1 .. Len(looks) /\ Head(looks) = looks[1] /\ looks[1] \in Nat
  BY <1>1, <1>4
<1>6. /\ looks' \in Seq(Nat)
      /\ \A i \in 1 .. Len(looks') : i + 1 \in 1 .. Len(looks) /\ looks'[i] = looks[i + 1]
  BY <1>1, <1>4, <1>5
<1>7. \A i \in 1 .. Len(looks') : \E j \in 1 .. Len(looks) : looks'[i] = looks[j]
  BY <1>6
<1>8. ASSUME Committed
      PROVE  Survived
  <2>1. demo.lastWritten # 0 /\ born[demo.lastWritten] <= looks[1]
    BY <1>5, <1>8 DEF IInv, LooksLate
  <2>2. demo.lastWritten \in 1 .. Len(born) /\ born \in Seq(Nat) /\ deaths \in Nat
    BY <2>1 DEF IInv, Types, Values, SomeDemo
  <2>3. born[demo.lastWritten] \in Nat
    BY <2>2
  <2> QED
    BY <1>4, <1>5, <2>1, <2>2, <2>3 DEF Survived
<1> HIDE DEF r
<1>9. /\ Types' /\ Values' /\ Requests' /\ LooksLate' /\ AnswersLate'
      /\ Survived => Survived'
  BY <1>1, <1>2, <1>3, <1>4, <1>6, <1>7, <1>8, QuietStep
<1>10. Shown'
  BY <1>4, <1>9 DEF IInv, Shown, Stored
<1> QED
  BY <1>9, <1>10 DEF IInv

\* A crash is asked for when nothing is outstanding: no answer from before it
\* can be taken for one from after it.
LEMMA ClickCrashInv == IInv /\ ClickCrash => IInv'
<1> SUFFICES ASSUME IInv, ClickCrash PROVE IInv'
  OBVIOUS
<1> DEFINE r == Request("crash", page)
<1>1. /\ Types /\ page \in Nat /\ page <= page /\ demo \in SomeDemo /\ looks \in Seq(Nat)
      /\ demo.lastWritten \in Nat /\ demo.lastWritten <= Len(born) /\ Len(born) \in Nat
  BY DEF IInv, Types, Values, SomeDemo
<1>2. Stored /\ UNCHANGED <<looks, page>>
  BY DEF ClickCrash, Stored, serverVars, historyVars
<1>3. \A t \in Slots, kind \in {"crash", "write", "status"} : ~Pending(t, kind)
  BY DEF ClickCrash, PatientCrasher, Outstanding, Pending, Free
<1>4. CASE demo.crashEnabled /\ demo.lastWritten # 0
  <2>1. PICK s \in Slots : fetches' = [fetches EXCEPT ![s] = r]
    BY <1>4 DEF ClickCrash, Send, FreeSlots
  <2>2. UNCHANGED demo
    BY <1>4 DEF ClickCrash
  <2>3. r \in SomeFetch /\ r.value = 0 /\ r.page = page /\ r.kind = "crash" /\ r.stage = "sent"
    BY <1>1, RequestType DEF Request
  <2> HIDE DEF r
  <2>4. /\ Types' /\ Values' /\ fetches'[s] = r
        /\ \A t \in Slots : fetches'[t].page <= page'
    BY <1>1, <1>2, <2>1, <2>2, <2>3, SlotStep
  <2>5. \A t \in Slots, kind \in {"crash", "write", "status"} :
            Pending(t, kind)' => t = s /\ kind = "crash"
    <3>1. SUFFICES ASSUME NEW t \in Slots, NEW kind \in {"crash", "write", "status"}, Pending(t, kind)'
                   PROVE  t = s /\ kind = "crash"
      OBVIOUS
    <3>2. \/ t # s /\ Pending(t, kind) /\ fetches'[t] = fetches[t]
          \/ t = s /\ r.kind = kind /\ fetches'[t] = r
      BY <1>2, <2>1, <2>3, <3>1, PendingStep
    <3> QED
      BY <1>3, <2>3, <3>2
  <2>6. Requests'
    BY <2>4, <2>5 DEF Requests, Pending
  <2>7. demo.lastWritten \in 1 .. Len(born)
    BY <1>1, <1>4
  <2>8. \A i \in 1 .. Len(looks) : born[demo.lastWritten] <= looks[i]
    <3>1. \A i \in 1 .. Len(looks) : looks[i] = deaths
      BY <1>1 DEF ClickCrash, PatientCrasher
    <3> QED
      BY <2>7, <3>1 DEF IInv, Values
  <2>9. LooksLate'
    BY <1>2, <1>4, <2>2, <2>3, <2>4, <2>5, <2>8 DEF LooksLate, Stored
  <2>10. AnswersLate'
    BY <2>5 DEF AnswersLate
  <2>11. Shown'
    BY <1>2, <2>2 DEF IInv, Shown, Survived, Stored
  <2> QED
    BY <2>4, <2>6, <2>9, <2>10, <2>11 DEF IInv
<1>5. CASE ~(demo.crashEnabled /\ demo.lastWritten # 0)
  <2>1. demo' = [demo EXCEPT !.error = "other"] /\ fetches' = fetches
    BY <1>5 DEF ClickCrash
  <2>2. /\ demo' \in SomeDemo /\ demo'.error = "other"
        /\ demo'.lastWritten = demo.lastWritten /\ demo'.awaiting = demo.awaiting
        /\ demo'.phase = demo.phase /\ demo'.polling = demo.polling
    BY <1>1, <2>1 DEF SomeDemo
  <2>3. Types'
    BY <1>2, <2>1, <2>2 DEF IInv, Types, Stored
  <2>4. Values' /\ Requests'
    BY <1>2, <2>1, <2>2 DEF IInv, Values, Requests, Pending, Stored
  <2>5. LooksLate' /\ AnswersLate'
    BY <1>2, <2>1, <2>2 DEF IInv, LooksLate, AnswersLate, Committed, Survived, Pending, Stored
  <2>6. Shown'
    BY <1>2, <2>2 DEF IInv, Shown, Survived, Stored
  <2> QED
    BY <2>3, <2>4, <2>5, <2>6 DEF IInv
<1> QED
  BY <1>4, <1>5

\* A new page waits for no answer but that of its first look.
LEMMA ReloadInv == IInv /\ Reload => IInv'
<1> SUFFICES ASSUME IInv, Reload PROVE IInv'
  OBVIOUS
<1> DEFINE r == Request("status", page')
<1>1. /\ page \in Nat /\ page' = page + 1 /\ demo' = FreshDemo(demo.lastWritten) /\ looks' = <<>>
      /\ demo.lastWritten \in Nat /\ demo.lastWritten <= Len(born)
  BY DEF Reload, IInv, Types, Values, SomeDemo
<1>2. PICK s \in Slots : fetches' = [fetches EXCEPT ![s] = r]
  BY DEF Reload, FreeSlots
<1>3. Stored
  BY DEF Reload, Stored, serverVars, historyVars
<1>4. page' \in Nat /\ page <= page' /\ page' <= page' /\ looks' \in Seq(Nat)
  BY <1>1
<1>5. /\ r \in SomeFetch /\ r.value = 0 /\ r.page = page' /\ r.kind = "status"
  BY <1>4, RequestType DEF Request
<1>6. /\ demo' \in SomeDemo /\ demo'.lastWritten = demo.lastWritten /\ demo'.awaiting = FALSE
      /\ demo'.polling = FALSE /\ demo'.phase = "idle" /\ demo'.error = "none"
  BY <1>1 DEF FreshDemo, SomeDemo, Phases
<1> HIDE DEF r
<1>7. /\ Types' /\ Values' /\ fetches'[s] = r
      /\ \A t \in Slots \ {s} : fetches'[t] = fetches[t]
      /\ \A t \in Slots : fetches'[t].page <= page'
  BY <1>1, <1>2, <1>3, <1>4, <1>5, <1>6, SlotStep
<1>8. ASSUME NEW t \in Slots, NEW kind \in {"crash", "write"}
      PROVE  ~Pending(t, kind)'
  <2>1. CASE t = s
    BY <1>5, <1>7, <2>1 DEF Pending
  <2>2. CASE t # s
    <3>1. fetches[t].page \in Nat /\ fetches[t].page <= page /\ fetches'[t] = fetches[t]
      BY <1>7, <2>2 DEF IInv, Types, Requests, SomeFetch
    <3> QED
      BY <1>1, <3>1 DEF Pending
  <2> QED
    BY <2>1, <2>2
<1>9. Requests' /\ ~Committed'
  BY <1>6, <1>7, <1>8 DEF Requests, Committed, Pending
<1>10. Shown'
  BY <1>6 DEF Shown
<1> QED
  BY <1>7, <1>9, <1>10 DEF IInv, LooksLate, AnswersLate

LEMMA ReceiveStatusInv ==
  ASSUME IInv, NEW s \in Slots, ReceiveStatus(s)
  PROVE  IInv'
<1> DEFINE d == Applied(fetches[s])
           value == fetches[s].value
           j == Judged(d, value)
<1>1. /\ Types /\ page \in Nat /\ page <= page /\ demo \in SomeDemo /\ looks \in Seq(Nat)
      /\ fetches[s] \in SomeFetch
  BY DEF IInv, Types
<1>2. /\ fetches' = [fetches EXCEPT ![s] = Free] /\ Stored /\ UNCHANGED <<page, looks>>
      /\ Pending(s, "status") /\ fetches[s].stage = "answered"
      /\ demo' = [j EXCEPT !.polling = FALSE]
  BY DEF ReceiveStatus, Receive, ReceiveAndSend, Pending, Stored, serverVars, historyVars
<1>3. /\ Free \in SomeFetch /\ Free.value = 0 /\ Free.page <= page /\ Free.kind = "none"
  BY <1>1, RequestType DEF Free
<1>4. /\ d \in SomeDemo /\ d.lastWritten = demo.lastWritten /\ d.awaiting = demo.awaiting
      /\ d.phase = demo.phase /\ d.error = "none"
  BY <1>1 DEF Applied, SomeDemo, SomeFetch
<1>5. /\ j \in SomeDemo /\ j.lastWritten = d.lastWritten
      /\ j.awaiting => d.awaiting
      /\ j.phase # "crashing"
      /\ j.phase = "recovered" => d.phase = "recovered" \/ d.awaiting
      /\ j.error \in {"lost", "changed"} =>
            d.awaiting /\ (value = 0 \/ value # d.lastWritten)
  <2> HIDE DEF d, value
  <2>1. CASE value = 0 /\ d.phase # "recovered"
    <3>1. j = [d EXCEPT !.phase = "idle", !.awaiting = FALSE,
                        !.error = IF d.awaiting THEN "lost" ELSE @]
      BY <2>1 DEF Judged
    <3> HIDE DEF j
    <3>2. j \in SomeDemo
      BY <1>4, <3>1 DEF SomeDemo, Phases
    <3>3. /\ j.lastWritten = d.lastWritten /\ j.phase = "idle" /\ j.awaiting = FALSE
          /\ j.error = IF d.awaiting THEN "lost" ELSE d.error
      BY <1>4, <3>1 DEF SomeDemo
    <3> QED
      BY <1>4, <2>1, <3>2, <3>3
  <2>2. CASE value # 0 /\ value = d.lastWritten /\ d.awaiting
    <3>1. j = [d EXCEPT !.phase = "recovered", !.awaiting = FALSE]
      BY <2>2 DEF Judged
    <3> HIDE DEF j
    <3>2. j \in SomeDemo
      BY <1>4, <3>1 DEF SomeDemo, Phases
    <3>3. /\ j.lastWritten = d.lastWritten /\ j.phase = "recovered" /\ j.awaiting = FALSE
          /\ j.error = d.error
      BY <1>4, <3>1 DEF SomeDemo
    <3> QED
      BY <1>4, <2>2, <3>2, <3>3
  <2>3. CASE value # 0 /\ ~(value = d.lastWritten /\ d.awaiting) /\ d.phase # "recovered"
    <3>1. CASE d.awaiting /\ d.lastWritten # 0
      <4>1. j = [d EXCEPT !.phase = "written", !.awaiting = FALSE, !.error = "changed"]
        BY <2>3, <3>1 DEF Judged
      <4> HIDE DEF j
      <4>2. j \in SomeDemo
        BY <1>4, <4>1 DEF SomeDemo, Phases
      <4>3. /\ j.lastWritten = d.lastWritten /\ j.phase = "written" /\ j.awaiting = FALSE
        BY <1>4, <4>1 DEF SomeDemo
      <4> QED
        BY <2>3, <3>1, <4>2, <4>3
    <3>2. CASE ~(d.awaiting /\ d.lastWritten # 0)
      <4>1. j = [d EXCEPT !.phase = "written"]
        BY <2>3, <3>2 DEF Judged
      <4> HIDE DEF j
      <4>2. j \in SomeDemo
        BY <1>4, <4>1 DEF SomeDemo, Phases
      <4>3. /\ j.lastWritten = d.lastWritten /\ j.phase = "written" /\ j.awaiting = d.awaiting
            /\ j.error = d.error
        BY <1>4, <4>1 DEF SomeDemo
      <4> QED
        BY <1>4, <4>2, <4>3
    <3> QED
      BY <3>1, <3>2
  <2>4. CASE d.phase = "recovered" /\ ~(value # 0 /\ value = d.lastWritten /\ d.awaiting)
    <3>1. j = d
      BY <2>4 DEF Judged
    <3> QED
      BY <1>4, <2>4, <3>1
  <2> QED
    BY <2>1, <2>2, <2>3, <2>4
<1> HIDE DEF d, value, j
<1>6. /\ demo' \in SomeDemo /\ demo'.lastWritten = demo.lastWritten
      /\ demo'.awaiting = j.awaiting /\ demo'.phase = j.phase /\ demo'.error = j.error
      /\ demo'.polling = FALSE
  BY <1>2, <1>4, <1>5 DEF SomeDemo
<1>7. /\ Types' /\ Values' /\ Requests' /\ LooksLate' /\ AnswersLate'
      /\ Survived => Survived'
  BY <1>1, <1>2, <1>3, <1>4, <1>5, <1>6, QuietStep
<1>8. demo.awaiting => /\ demo.lastWritten # 0
                       /\ Survived
                       /\ value # demo.lastWritten => demo.lastWritten \in overwritten
  BY <1>2 DEF IInv, Committed, LooksLate, AnswersLate, value
<1>9. Shown'
  BY <1>2, <1>4, <1>5, <1>6, <1>7, <1>8 DEF IInv, Shown, Stored
<1> QED
  BY <1>7, <1>9 DEF IInv

LEMMA ReceiveNoStatusInv ==
  ASSUME IInv, NEW s \in Slots, ReceiveNoStatus(s)
  PROVE  IInv'
<1>1. /\ Types /\ page \in Nat /\ page <= page /\ demo \in SomeDemo /\ looks \in Seq(Nat)
  BY DEF IInv, Types
<1>2. /\ fetches' = [fetches EXCEPT ![s] = Free] /\ Stored /\ UNCHANGED <<page, looks>>
      /\ Pending(s, "status") /\ demo' = StatusFailed(demo)
  BY DEF ReceiveNoStatus, Receive, ReceiveAndSend, Pending, Stored, serverVars, historyVars
<1>3. /\ Free \in SomeFetch /\ Free.value = 0 /\ Free.page <= page /\ Free.kind = "none"
  BY <1>1, RequestType DEF Free
<1>4. \/ demo' = demo
      \/ /\ demo.awaiting \/ demo.phase = "crashing"
         /\ demo' = [demo EXCEPT !.phase = "down", !.polling = TRUE]
  BY <1>2 DEF StatusFailed
<1>5. /\ demo' \in SomeDemo /\ demo'.lastWritten = demo.lastWritten
      /\ demo'.awaiting = demo.awaiting /\ demo'.error = demo.error
      /\ \/ demo'.phase = demo.phase /\ demo'.polling = demo.polling
         \/ /\ demo.awaiting \/ demo.phase = "crashing"
            /\ demo'.phase = "down"
  BY <1>1, <1>4 DEF SomeDemo, Phases
<1>6. /\ Types' /\ Values' /\ Requests' /\ LooksLate' /\ AnswersLate'
      /\ Survived => Survived'
  BY <1>1, <1>2, <1>3, <1>5, QuietStep
<1>7. demo.awaiting \/ demo.phase = "crashing" => Survived
  BY <1>2 DEF IInv, Shown, Committed, AnswersLate
<1>8. Shown'
  BY <1>2, <1>5, <1>6, <1>7 DEF IInv, Shown, Stored
<1> QED
  BY <1>6, <1>8 DEF IInv

\* The page's own write replaces its last value: no crash is under way then.
LEMMA ReceiveWrittenInv ==
  ASSUME IInv, NEW s \in Slots, ReceiveWritten(s)
  PROVE  IInv'
<1> DEFINE r == Request("state", page)
           d == Applied(fetches[s])
<1>1. /\ Types /\ page \in Nat /\ page <= page /\ demo \in SomeDemo /\ looks \in Seq(Nat)
      /\ fetches[s] \in SomeFetch /\ fetches[s].value <= Len(born)
  BY DEF IInv, Types, Values
<1>2. /\ fetches' = [fetches EXCEPT ![s] = r] /\ Stored /\ UNCHANGED <<page, looks>>
      /\ Pending(s, "write")
      /\ demo' = [d EXCEPT !.phase = "written", !.awaiting = FALSE,
                           !.lastWritten = fetches[s].value, !.polling = FALSE]
  BY DEF ReceiveWritten, ReceiveAndSend, Pending, Stored, serverVars, historyVars
<1>3. r \in SomeFetch /\ r.value = 0 /\ r.page = page /\ r.kind = "state"
  BY <1>1, RequestType DEF Request
<1>4. d \in SomeDemo /\ d.error = "none"
  BY <1>1 DEF Applied, SomeDemo, SomeFetch
<1> HIDE DEF r, d
<1>5. /\ demo' \in SomeDemo /\ demo'.lastWritten = fetches[s].value
      /\ demo'.awaiting = FALSE /\ demo'.phase = "written" /\ demo'.error = "none"
      /\ demo'.polling = FALSE
  BY <1>1, <1>2, <1>4 DEF SomeDemo, SomeFetch, Phases
<1>6. /\ Types' /\ Values'
      /\ \A t \in Slots : fetches'[t].page <= page'
  BY <1>1, <1>2, <1>3, <1>5, SlotStep
<1>7. \A t \in Slots : ~Pending(t, "crash")'
  <2>1. \A t \in Slots : Pending(t, "crash")' =>
           \/ t # s /\ Pending(t, "crash") /\ fetches'[t] = fetches[t]
           \/ t = s /\ r.kind = "crash" /\ fetches'[t] = r
    BY <1>2, <1>3, PendingStep
  <2> QED
    BY <1>2, <1>3, <2>1 DEF IInv, Requests
<1>8. Requests' /\ ~Committed'
  BY <1>5, <1>6, <1>7 DEF Requests, Committed, Pending
<1>9. Shown'
  BY <1>5 DEF Shown
<1> QED
  BY <1>6, <1>8, <1>9 DEF IInv, LooksLate, AnswersLate

\* The process that answered knew the last value; the look is for its death.
LEMMA ReceiveCrashingInv ==
  ASSUME IInv, NEW s \in Slots, ReceiveCrashing(s)
  PROVE  IInv'
<1> DEFINE process == fetches[s].process
<1>1. /\ Types /\ page \in Nat /\ page <= page /\ demo \in SomeDemo /\ looks \in Seq(Nat)
      /\ process \in Nat /\ demo.lastWritten <= Len(born)
  BY DEF IInv, Types, Values, SomeFetch
<1>2. /\ fetches' = [fetches EXCEPT ![s] = Free] /\ Stored /\ UNCHANGED page
      /\ Pending(s, "crash") /\ fetches[s].stage = "answered"
      /\ demo' = [demo EXCEPT !.phase = "crashing", !.awaiting = TRUE, !.error = "none"]
      /\ looks' = Append(looks, process)
  BY DEF ReceiveCrashing, Receive, ReceiveAndSend, Pending, Stored, serverVars, historyVars
<1>3. /\ Free \in SomeFetch /\ Free.value = 0 /\ Free.page <= page /\ Free.kind = "none"
  BY <1>1, RequestType DEF Free
<1>4. /\ demo' \in SomeDemo /\ demo'.lastWritten = demo.lastWritten
      /\ demo'.awaiting = TRUE /\ demo'.phase = "crashing" /\ demo'.error = "none"
      /\ demo'.polling = demo.polling
  BY <1>1, <1>2 DEF SomeDemo, Phases
<1>5. /\ demo.lastWritten # 0
      /\ \A i \in 1 .. Len(looks) : born[demo.lastWritten] <= looks[i]
      /\ \A t \in Slots : Pending(t, "crash") /\ fetches[t].stage = "answered" =>
             born[demo.lastWritten] <= fetches[t].process
      /\ \A t \in Slots : Pending(t, "status") =>
             /\ Survived
             /\ fetches[t].stage = "answered" /\ fetches[t].value # demo.lastWritten =>
                   demo.lastWritten \in overwritten
  BY <1>2 DEF IInv, Committed, LooksLate, AnswersLate
<1>6. born[demo.lastWritten] <= process
  BY <1>2, <1>5
<1> HIDE DEF process
<1>7. /\ looks' \in Seq(Nat)
      /\ \A i \in 1 .. Len(looks') :
             looks'[i] = process \/ \E k \in 1 .. Len(looks) : looks'[i] = looks[k]
  BY <1>1, <1>2
<1>8. /\ Types' /\ Values'
      /\ \A t \in Slots : fetches'[t].page <= page'
  BY <1>1, <1>2, <1>3, <1>4, <1>7, SlotStep
<1>9. \A t \in Slots, kind \in {"crash", "write", "status"} :
          Pending(t, kind)' => Pending(t, kind) /\ fetches'[t] = fetches[t]
  <2>1. SUFFICES ASSUME NEW t \in Slots, NEW kind \in {"crash", "write", "status"}, Pending(t, kind)'
                 PROVE  Pending(t, kind) /\ fetches'[t] = fetches[t]
    OBVIOUS
  <2>2. \/ t # s /\ Pending(t, kind) /\ fetches'[t] = fetches[t]
        \/ t = s /\ Free.kind = kind /\ fetches'[t] = Free
    BY <1>2, <1>3, <2>1, PendingStep
  <2> QED
    BY <1>3, <2>2
<1>10. Requests'
  BY <1>8, <1>9 DEF IInv, Requests, Pending
<1>11. LooksLate'
  BY <1>2, <1>4, <1>5, <1>6, <1>7, <1>9 DEF LooksLate, Stored
<1>12. AnswersLate'
  BY <1>2, <1>4, <1>5, <1>9 DEF AnswersLate, Survived, Stored
<1>13. Shown'
  BY <1>2, <1>4 DEF IInv, Shown, Survived, Stored
<1> QED
  BY <1>8, <1>10, <1>11, <1>12, <1>13 DEF IInv

\* Answers that say nothing of the record, and requests of a page that is gone.
LEMMA ForgetInv ==
  ASSUME IInv, NEW s \in Slots, ReceiveState(s) \/ ReceiveError(s) \/ Discard(s)
  PROVE  IInv'
<1>1. /\ Types /\ page \in Nat /\ page <= page /\ demo \in SomeDemo /\ looks \in Seq(Nat)
  BY DEF IInv, Types
<1>2. /\ fetches' = [fetches EXCEPT ![s] = Free] /\ Stored /\ UNCHANGED <<page, looks>>
      /\ demo' \in {demo, [demo EXCEPT !.error = "other"]}
  BY DEF ReceiveState, ReceiveError, Discard, Receive, ReceiveAndSend, Stored,
         serverVars, pageVars, historyVars
<1>3. /\ Free \in SomeFetch /\ Free.value = 0 /\ Free.page <= page /\ Free.kind = "none"
  BY <1>1, RequestType DEF Free
<1>4. /\ demo' \in SomeDemo /\ demo'.lastWritten = demo.lastWritten
      /\ demo'.awaiting = demo.awaiting /\ demo'.phase = demo.phase
      /\ demo'.polling = demo.polling /\ demo'.error \in {demo.error, "other"}
  BY <1>1, <1>2 DEF SomeDemo
<1>5. /\ Types' /\ Values' /\ Requests' /\ LooksLate' /\ AnswersLate'
      /\ Survived => Survived'
  BY <1>1, <1>2, <1>3, <1>4, QuietStep
<1>6. Shown'
  BY <1>2, <1>4, <1>5 DEF IInv, Shown, Stored
<1> QED
  BY <1>5, <1>6 DEF IInv

------------------------------------------------------------------------------
LEMMA NextInv == IInv /\ [Next]_vars => IInv'
<1> SUFFICES ASSUME IInv, [Next]_vars PROVE IInv'
  OBVIOUS
<1>1. ASSUME NEW s \in Slots, Serve(s) \/ Deliver(s)
      PROVE  IInv'
  BY <1>1, ServeInv, ReceiveStatusInv, ReceiveNoStatusInv, ReceiveWrittenInv,
     ReceiveCrashingInv, ForgetInv DEF Deliver
<1>2. CASE UNCHANGED vars
  BY <1>2 DEF IInv, Types, Values, Requests, LooksLate, AnswersLate, Shown, Committed,
              Survived, Pending, vars, serverVars, pageVars, historyVars
<1> QED
  BY <1>1, <1>2, OtherClientInv, HardExitInv, RestartInv, ClickWriteInv, ClickCrashInv,
     PollInv, LookInv, ReloadInv DEF Next

\* The invariant holds in every state the demo reaches.
THEOREM Invariant == Spec => []IInv
<1> QED
  BY InitInv, NextInv, PTL DEF Spec

\* A page that shows a recovery shows a value that has outlived the process
\* that stored it (app.js:395-414), whatever the number of writes, crashes,
\* reloads and requests under way.
THEOREM RecoveriesAreReal == Spec => []RecoveredMeansSurvived
<1>1. IInv => RecoveredMeansSurvived
  BY DEF IInv, Shown, Survived, RecoveredMeansSurvived
<1> QED
  BY <1>1, Invariant, PTL

\* A page never blames a restart for a value that nobody has replaced or
\* deleted (app.js:395-425).
THEOREM AlarmsAreReal == Spec => []NoFalseAlarm
<1>1. IInv => NoFalseAlarm
  BY DEF IInv, Shown, NoFalseAlarm
<1> QED
  BY <1>1, Invariant, PTL
------------------------------------------------------------------------------
(***************************************************************************)
(* Type correctness.  That nothing passes its bound takes counting: the    *)
(* writes still under way will add to the values, and every request for a  *)
(* crash, and the timer it leaves behind, may still kill a process.        *)
(***************************************************************************)

\* The requests of this kind that nobody has served.
Sent(kind) == {s \in Slots : fetches[s].kind = kind /\ fetches[s].stage = "sent"}
Count(kind) == Cardinality(Sent(kind))

\* The processes that have died or will.
Mortal == deaths + (IF doomed THEN 1 ELSE 0) + Count("crash")

Limits ==
    /\ up \in BOOLEAN /\ doomed \in BOOLEAN
    /\ crashes \in 0 .. MaxCrashes
    /\ page <= MaxReloads
    /\ Len(born) + Count("write") <= MaxWrites
    /\ Mortal <= crashes
    /\ overwritten \subseteq 1 .. Len(born)
    /\ \A s \in Slots : fetches[s].process <= deaths
    /\ \A i \in 1 .. Len(looks) : looks[i] <= deaths

\* Nobody counts infinitely many requests.
LEMMA CountType ==
  ASSUME NEW S \in SUBSET Slots
  PROVE  IsFiniteSet(S) /\ Cardinality(S) \in Nat
<1>1. IsFiniteSet(Slots)
  BY DemoBounds, FS_Interval DEF Slots
<1> QED
  BY <1>1, FS_Subset, FS_CardinalityType

\* A request takes the place of another, or of none.
LEMMA CountStep ==
  ASSUME Types, NEW s \in Slots, NEW r \in SomeFetch, fetches' = [fetches EXCEPT ![s] = r],
         NEW kind
  PROVE  /\ Count(kind) \in Nat /\ Count(kind)' \in Nat
         /\ Count(kind)' <= Count(kind) + 1
         /\ ~(r.kind = kind /\ r.stage = "sent") => Count(kind)' <= Count(kind)
         /\ ~(r.kind = kind /\ r.stage = "sent") /\ fetches[s].kind = kind /\ fetches[s].stage = "sent" =>
               Count(kind)' + 1 <= Count(kind)
<1> DEFINE S == Sent(kind)
           T == Sent(kind)'
<1>1. S \in SUBSET Slots /\ T \in SUBSET Slots
  BY DEF Sent
<1>2. fetches'[s] = r /\ \A t \in Slots \ {s} : fetches'[t] = fetches[t]
  BY DEF Types
<1>3. T \subseteq S \cup {s}
  BY <1>2 DEF Sent
<1>4. ~(r.kind = kind /\ r.stage = "sent") => T \subseteq S \ {s}
  BY <1>2 DEF Sent
<1>5. fetches[s].kind = kind /\ fetches[s].stage = "sent" => s \in S
  BY DEF Sent
<1>6. Count(kind) = Cardinality(S) /\ Count(kind)' = Cardinality(T)
  BY DEF Count
<1> HIDE DEF S, T
<1>7. IsFiniteSet(S) /\ Cardinality(S) \in Nat /\ Cardinality(T) \in Nat
  BY <1>1, CountType
<1>8. /\ IsFiniteSet(S \cup {s}) /\ IsFiniteSet(S \ {s})
      /\ Cardinality(S \cup {s}) \in {Cardinality(S), Cardinality(S) + 1}
      /\ Cardinality(S \ {s}) = IF s \in S THEN Cardinality(S) - 1 ELSE Cardinality(S)
  BY <1>7, FS_AddElement, FS_RemoveElement
<1>9. Cardinality(T) <= Cardinality(S \cup {s})
  BY <1>3, <1>8, FS_Subset
<1>10. ~(r.kind = kind /\ r.stage = "sent") => Cardinality(T) <= Cardinality(S \ {s})
  BY <1>4, <1>8, FS_Subset
<1> QED
  BY <1>5, <1>6, <1>7, <1>8, <1>9, <1>10

\* The limits are those of the types.
LEMMA LimitsAreTypes == IInv /\ Limits => TypeOK
<1> SUFFICES ASSUME IInv, Limits PROVE TypeOK
  OBVIOUS
<1>1. Types /\ Values
  BY DEF IInv
<1>2. Count("write") \in Nat /\ Count("crash") \in Nat
  BY CountType DEF Count, Sent
<1>3. Len(born) \in 0 .. MaxWrites /\ deaths \in 0 .. MaxCrashes /\ page \in 0 .. MaxReloads
  BY <1>1, <1>2, DemoBounds DEF Limits, Mortal, Types
<1>4. ASSUME NEW s \in Slots
      PROVE  fetches[s] \in Fetches
  <2>1. fetches[s] \in SomeFetch
    BY <1>1 DEF Types
  <2>2. /\ fetches[s].page \in 0 .. MaxReloads
        /\ fetches[s].value \in 0 .. MaxWrites
        /\ fetches[s].process \in 0 .. MaxCrashes
    BY <1>1, <1>3, <2>1, DemoBounds DEF IInv, Requests, Values, Limits, SomeFetch
  <2> QED
    BY <2>1, <2>2 DEF SomeFetch, Fetches
<1>5. fetches \in [Slots -> Fetches]
  BY <1>1, <1>4 DEF Types
<1>6. demo \in Demo
  <2>1. demo \in SomeDemo /\ demo.lastWritten \in 0 .. MaxWrites
    BY <1>1, <1>3, DemoBounds DEF Types, Values, SomeDemo
  <2> QED
    BY <2>1 DEF SomeDemo, Demo
<1>7. looks \in Seq(Nat) /\ born \in Seq(Nat)
  BY <1>1 DEF Types
<1>8. DOMAIN looks = 1 .. Len(looks) /\ DOMAIN born = 1 .. Len(born)
  BY <1>7
<1>9. ASSUME NEW i \in 1 .. Len(looks)
      PROVE  looks[i] \in 0 .. MaxCrashes
  <2>1. looks[i] \in Nat /\ looks[i] <= deaths
    BY <1>7 DEF Limits
  <2> QED
    BY <1>3, <2>1, DemoBounds
<1>10. ASSUME NEW v \in 1 .. Len(born)
       PROVE  born[v] \in 0 .. MaxCrashes
  <2>1. born[v] \in Nat /\ born[v] <= deaths
    BY <1>1, <1>7 DEF Values
  <2> QED
    BY <1>3, <2>1, DemoBounds
<1> QED
  BY <1>1, <1>3, <1>5, <1>6, <1>8, <1>9, <1>10 DEF TypeOK, Types, Limits

LEMMA InitLimits == Init => Limits
<1> SUFFICES ASSUME Init PROVE Limits
  OBVIOUS
<1>1. \A s \in Slots : fetches[s].kind \in {"none", "status"} /\ fetches[s].process = 0
  BY DEF Init, Free, Request
<1>2. Sent("write") = {} /\ Sent("crash") = {}
  BY <1>1 DEF Sent
<1>3. Count("write") = 0 /\ Count("crash") = 0
  BY <1>2, FS_EmptySet DEF Count
<1>4. Len(born) = 0 /\ Len(looks) = 0 /\ deaths = 0 /\ crashes = 0 /\ page = 0
  BY DEF Init
<1>5. Len(born) + Count("write") <= MaxWrites
  BY <1>3, <1>4, DemoBounds
<1>6. Mortal = 0
  BY <1>3, <1>4 DEF Init, Mortal
<1>7. crashes \in 0 .. MaxCrashes /\ page <= MaxReloads /\ Mortal <= crashes
  BY <1>4, <1>6, DemoBounds
<1>8. \A s \in Slots : fetches[s].process <= deaths
  BY <1>1, <1>4
<1>9. \A i \in 1 .. Len(looks) : looks[i] <= deaths
  BY <1>4
<1> QED
  BY <1>5, <1>7, <1>8, <1>9 DEF Init, Limits

\* A step that replaces one request by another keeps the limits when nobody
\* asks for more, and when what is served is counted elsewhere.
LEMMA SlotLimits ==
  ASSUME IInv, Limits, NEW s \in Slots, NEW r \in SomeFetch,
         fetches' = [fetches EXCEPT ![s] = r],
         r.process <= deaths, UNCHANGED <<deaths, up>>,
         doomed' \in BOOLEAN, born' \in Seq(Nat),
         \A i \in 1 .. Len(looks') : looks'[i] <= deaths, page' <= MaxReloads,
         overwritten' \subseteq 1 .. Len(born'),
         \/ Len(born') + Count("write")' <= MaxWrites
         \/ /\ ~(r.kind = "write" /\ r.stage = "sent")
            /\ UNCHANGED born,
         crashes' \in 0 .. MaxCrashes,
         \/ Mortal' <= crashes'
         \/ /\ ~(r.kind = "crash" /\ r.stage = "sent")
            /\ UNCHANGED <<doomed, crashes>>
  PROVE  Limits'
<1>1. \A t \in Slots : fetches'[t].process <= deaths'
  <2>1. fetches'[s] = r /\ \A t \in Slots \ {s} : fetches'[t] = fetches[t]
    BY DEF IInv, Types
  <2>2. \A t \in Slots : fetches[t].process <= deaths /\ deaths' = deaths
    BY DEF Limits
  <2> QED
    BY <2>1, <2>2
<1>2. \A kind \in {"write", "crash"} :
         /\ Count(kind) \in Nat /\ Count(kind)' \in Nat
         /\ ~(r.kind = kind /\ r.stage = "sent") => Count(kind)' <= Count(kind)
  BY CountStep DEF IInv
<1>3. Len(born') + Count("write")' <= MaxWrites
  BY <1>2, DemoBounds DEF IInv, Types, Limits
<1>4. Mortal' <= crashes'
  <2>1. CASE ~(r.kind = "crash" /\ r.stage = "sent") /\ UNCHANGED <<doomed, crashes>>
    <3>1. /\ deaths \in Nat /\ crashes \in Nat /\ UNCHANGED <<deaths, doomed, crashes>>
          /\ Mortal <= crashes
      BY <2>1 DEF IInv, Types, Limits
    <3> QED
      BY <1>2, <2>1, <3>1 DEF Mortal
  <2> QED
    BY <2>1
<1> QED
  BY <1>1, <1>3, <1>4 DEF Limits
LEMMA ServeLimits ==
  ASSUME IInv, IInv', Limits, NEW s \in Slots, Serve(s)
  PROVE  Limits'
<1>1. /\ Types /\ Types' /\ fetches \in [Slots -> SomeFetch]
      /\ deaths \in Nat /\ born \in Seq(Nat) /\ Len(born) \in Nat
  BY DEF IInv, Types
<1>2. /\ up \in BOOLEAN /\ doomed \in BOOLEAN /\ page <= MaxReloads
      /\ crashes \in 0 .. MaxCrashes
      /\ overwritten \subseteq 1 .. Len(born)
      /\ \A i \in 1 .. Len(looks) : looks[i] <= deaths
      /\ fetches[s].process <= deaths
  BY DEF Limits
<1>3. UNCHANGED <<up, deaths, looks, page, crashes>>
  BY DEF Serve, ServeStatus, ServeState, ServeWrite, ServeWritten, ServeCrash, RefuseCrash,
         Unreachable, serverVars, pageVars, historyVars
<1>4. PICK r \in SomeFetch : /\ fetches' = [fetches EXCEPT ![s] = r]
                             /\ r.process <= deaths /\ r.stage # "sent"
  <2>1. fetches'[s] \in SomeFetch
    BY <1>1 DEF Types
  <2>2. CASE \E value \in {0, record} : Answer(s, value)
    <3>1. PICK value \in {0, record} : Answer(s, value)
      BY <2>2
    <3> DEFINE answered == [kind |-> fetches[s].kind, stage |-> "answered", page |-> fetches[s].page,
                            value |-> value, enabled |-> crashEnabled, process |-> deaths]
    <3>2. fetches' = [fetches EXCEPT ![s] = answered]
      BY <3>1 DEF Answer
    <3>3. fetches'[s] = answered
      BY <1>1, <3>2
    <3>4. answered.process = deaths /\ answered.stage = "answered"
      OBVIOUS
    <3> HIDE DEF answered
    <3>5. answered \in SomeFetch /\ answered.process <= deaths /\ answered.stage # "sent"
      BY <1>1, <2>1, <3>3, <3>4
    <3> QED
      BY <3>2, <3>5
  <2>3. CASE \E stage \in {"set", "failed"} : fetches' = [fetches EXCEPT ![s].stage = stage]
    <3>1. PICK stage \in {"set", "failed"} : fetches' = [fetches EXCEPT ![s].stage = stage]
      BY <2>3
    <3> DEFINE refused == [fetches[s] EXCEPT !.stage = stage]
    <3>2. fetches' = [fetches EXCEPT ![s] = refused]
      BY <3>1, Zenon
    <3>3. fetches'[s] = refused
      BY <1>1, <3>2
    <3>4. fetches[s] \in SomeFetch
      BY <1>1
    <3>5. refused.process = fetches[s].process /\ refused.stage = stage
      BY <3>4 DEF SomeFetch
    <3> HIDE DEF refused
    <3> QED
      BY <1>2, <2>1, <3>1, <3>2, <3>3, <3>5
  <2> QED
    BY <2>2, <2>3 DEF Serve, ServeStatus, ServeState, ServeWrite, ServeWritten, ServeCrash,
                      RefuseCrash, Unreachable, Refuse
<1>5. CASE ServeWrite(s)
  <2>1. /\ Store(NextValue) /\ UNCHANGED doomed
        /\ fetches[s].kind = "write" /\ fetches[s].stage = "sent"
    BY <1>5 DEF ServeWrite, Arrived
  <2>2. born' = Append(born, deaths) /\ record \in 0 .. Len(born)
    BY <1>1, <2>1 DEF Store, NextValue, Types
  <2>3. born' \in Seq(Nat) /\ Len(born') = Len(born) + 1
    BY <1>1, <2>2
  <2>4. overwritten' \subseteq 1 .. Len(born')
    BY <1>1, <1>2, <2>1, <2>2, <2>3 DEF Store
  <2>5. /\ Count("write") \in Nat /\ Count("write")' \in Nat
        /\ Count("write")' + 1 <= Count("write")
    BY <1>1, <1>4, <2>1, CountStep
  <2>6. Len(born') + Count("write")' <= MaxWrites
    BY <1>1, <2>3, <2>5, DemoBounds DEF Limits
  <2> QED
    BY <1>2, <1>3, <1>4, <2>1, <2>3, <2>4, <2>6, SlotLimits
<1>6. CASE ServeCrash(s)
  <2>1. /\ UNCHANGED <<born, overwritten>> /\ doomed'
        /\ fetches[s].kind = "crash" /\ fetches[s].stage = "sent"
    BY <1>6 DEF ServeCrash, Arrived, historyVars
  <2>2. /\ Count("crash") \in Nat /\ Count("crash")' \in Nat
        /\ Count("crash")' + 1 <= Count("crash")
    BY <1>1, <1>4, <2>1, CountStep
  <2>3. doomed' \in BOOLEAN
    BY <1>6 DEF ServeCrash
  <2>4. Mortal' <= crashes'
    BY <1>1, <1>2, <1>3, <2>1, <2>2 DEF Limits, Mortal
  <2> QED
    BY <1>1, <1>2, <1>3, <1>4, <2>1, <2>3, <2>4, SlotLimits
<1>7. CASE UNCHANGED <<doomed, born, overwritten>>
  BY <1>1, <1>2, <1>3, <1>4, <1>7, SlotLimits
<1> QED
  BY <1>5, <1>6, <1>7 DEF Serve, ServeStatus, ServeState, ServeWritten, RefuseCrash, Unreachable,
                          serverVars, historyVars

LEMMA OtherClientLimits ==
  ASSUME IInv, Limits, OtherClient
  PROVE  Limits'
<1>1. PICK value \in {0, NextValue} : /\ Store(value)
                                      /\ value = 0 \/ Claimed < MaxWrites
  BY DEF OtherClient
<1>2. UNCHANGED <<up, doomed, deaths, fetches, looks, page, crashes>>
  BY DEF OtherClient, pageVars
<1>3. Count("write") \in Nat /\ Claimed = Len(born) + Count("write")
  BY CountType DEF Count, Sent, Claimed
<1>4. UNCHANGED <<Count("write"), Mortal>>
  BY <1>2 DEF Mortal, Count, Sent
<1>5. born \in Seq(Nat) /\ Len(born) \in Nat /\ record \in 0 .. Len(born) /\ deaths \in Nat
  BY DEF IInv, Types
<1>6. /\ Len(born') \in {Len(born), Len(born) + 1}
      /\ value = 0 => Len(born') = Len(born)
  BY <1>1, <1>5 DEF Store
<1>7. Len(born') + Count("write")' <= MaxWrites
  BY <1>1, <1>3, <1>4, <1>5, <1>6, DemoBounds DEF Limits
<1>8. overwritten' \subseteq 1 .. Len(born')
  <2>1. overwritten' = overwritten \cup ({record} \ {0})
    BY <1>1 DEF Store
  <2>2. overwritten \subseteq 1 .. Len(born)
    BY DEF Limits
  <2> QED
    BY <1>5, <1>6, <2>1, <2>2
<1> QED
  BY <1>2, <1>4, <1>7, <1>8 DEF Limits
LEMMA HardExitLimits ==
  ASSUME IInv, Limits, HardExit
  PROVE  Limits'
<1>1. /\ UNCHANGED <<looks, page, crashes, born, overwritten>> /\ deaths' = deaths + 1
      /\ doomed /\ up' = FALSE /\ doomed' = FALSE
  BY DEF HardExit, pageVars, historyVars
<1>2. /\ deaths \in Nat /\ Len(born) \in Nat /\ fetches \in [Slots -> SomeFetch]
      /\ looks \in Seq(Nat)
  BY DEF IInv, Types
<1>3. ASSUME NEW t \in Slots
      PROVE  /\ fetches'[t].stage # "sent"
             /\ fetches'[t].process = fetches[t].process
  <2>1. fetches[t] \in SomeFetch
    BY <1>2
  <2>2. \/ fetches'[t] = [fetches[t] EXCEPT !.stage = "failed"]
        \/ fetches'[t] = fetches[t] /\ fetches[t].stage # "sent"
    BY DEF HardExit
  <2> QED
    BY <2>1, <2>2 DEF SomeFetch
<1>4. Sent("write")' = {} /\ Sent("crash")' = {}
  BY <1>3 DEF Sent
<1>5. Count("write")' = 0 /\ Count("crash")' = 0
  BY <1>4, FS_EmptySet DEF Count
<1>6. Count("write") \in Nat /\ Count("crash") \in Nat
  BY CountType DEF Count, Sent
<1>7. Mortal' <= crashes'
  BY <1>1, <1>2, <1>5, <1>6 DEF Limits, Mortal
<1>8. Len(born') + Count("write")' <= MaxWrites
  BY <1>1, <1>2, <1>5, <1>6, DemoBounds DEF Limits
<1>9. \A t \in Slots : fetches'[t].process <= deaths'
  <2>1. ASSUME NEW t \in Slots
        PROVE  fetches[t].process \in Nat /\ fetches[t].process <= deaths
    BY <1>2 DEF Limits, SomeFetch
  <2> QED
    BY <1>1, <1>2, <1>3, <2>1
<1>10. \A i \in 1 .. Len(looks') : looks'[i] <= deaths'
  <2>1. \A i \in 1 .. Len(looks) : looks[i] \in Nat /\ looks[i] <= deaths
    BY <1>2 DEF Limits
  <2> QED
    BY <1>1, <1>2, <2>1
<1> QED
  BY <1>1, <1>7, <1>8, <1>9, <1>10 DEF Limits

\* What the page sends comes from no process yet.
LEMMA SentType ==
  ASSUME NEW kind \in {"status", "write", "crash", "state"}, NEW p \in Nat
  PROVE  /\ Request(kind, p) \in SomeFetch /\ Request(kind, p).kind = kind
         /\ Request(kind, p).process = 0
         /\ Free \in SomeFetch /\ Free.kind = "none" /\ Free.process = 0
  BY DEF Request, Free, SomeFetch

LEMMA ClickWriteLimits ==
  ASSUME IInv, Limits, ClickWrite
  PROVE  Limits'
<1>1. PICK s \in Slots : fetches' = [fetches EXCEPT ![s] = Request("write", page)]
  BY DEF ClickWrite, Send, FreeSlots
<1>2. UNCHANGED <<up, doomed, deaths, looks, page, crashes, born, overwritten>>
  BY DEF ClickWrite, serverVars, pageVars, historyVars
<1>3. Types /\ page \in Nat /\ deaths \in Nat /\ born \in Seq(Nat) /\ Len(born) \in Nat
  BY DEF IInv, Types
<1>4. /\ Request("write", page) \in SomeFetch /\ Request("write", page).kind = "write"
      /\ Request("write", page).process <= deaths
  BY <1>3, SentType
<1>5. /\ Count("write") \in Nat /\ Count("write")' \in Nat
      /\ Count("write")' <= Count("write") + 1
  BY <1>1, <1>3, <1>4, CountStep
<1>6. Len(born) + Count("write") < MaxWrites
  BY DEF ClickWrite, Claimed, Count, Sent
<1>7. Len(born') + Count("write")' <= MaxWrites
  BY <1>2, <1>3, <1>5, <1>6, DemoBounds
<1> QED
  BY <1>1, <1>2, <1>3, <1>4, <1>7, SlotLimits DEF Limits

LEMMA ClickCrashLimits ==
  ASSUME IInv, Limits, ClickCrash
  PROVE  Limits'
<1>1. UNCHANGED <<up, doomed, deaths, looks, page, born, overwritten>>
  BY DEF ClickCrash, serverVars, historyVars
<1>2. CASE UNCHANGED <<fetches, crashes>>
  BY <1>1, <1>2 DEF Limits, Mortal, Count, Sent
<1>3. CASE Send("crash") /\ crashes' = crashes + 1
  <2>1. PICK s \in Slots : fetches' = [fetches EXCEPT ![s] = Request("crash", page)]
    BY <1>3 DEF Send, FreeSlots
  <2>2. Types /\ page \in Nat /\ deaths \in Nat /\ born \in Seq(Nat)
    BY DEF IInv, Types
  <2>3. /\ Request("crash", page) \in SomeFetch /\ Request("crash", page).kind = "crash"
        /\ Request("crash", page).process <= deaths
    BY <2>2, SentType
  <2>4. /\ Count("crash") \in Nat /\ Count("crash")' \in Nat
        /\ Count("crash")' <= Count("crash") + 1
    BY <2>1, <2>2, <2>3, CountStep
  <2>5. crashes \in 0 .. MaxCrashes /\ crashes < MaxCrashes
    BY DEF Limits, ClickCrash
  <2>6. crashes' \in 0 .. MaxCrashes
    BY <1>3, <2>5, DemoBounds
  <2>7. Mortal' <= crashes'
    BY <1>1, <1>3, <2>2, <2>4, <2>5 DEF Limits, Mortal
  <2> QED
    BY <1>1, <2>1, <2>2, <2>3, <2>6, <2>7, SlotLimits DEF Limits
<1> QED
  BY <1>2, <1>3 DEF ClickCrash

\* The other steps of the page ask neither for a write nor for a crash.
LEMMA PageLimits ==
  ASSUME IInv, Limits, NEW s \in Slots, NEW r \in SomeFetch,
         fetches' = [fetches EXCEPT ![s] = r],
         r.process = 0, r.kind \notin {"write", "crash"},
         UNCHANGED <<up, doomed, deaths, crashes, born, overwritten>>,
         page' <= MaxReloads,
         \A i \in 1 .. Len(looks') : looks'[i] <= deaths
  PROVE  Limits'
<1>1. /\ deaths \in Nat /\ born \in Seq(Nat) /\ r.process <= deaths
      /\ doomed \in BOOLEAN /\ crashes \in 0 .. MaxCrashes
      /\ overwritten \subseteq 1 .. Len(born)
  BY DEF IInv, Types, Limits
<1> QED
  BY <1>1, SlotLimits

LEMMA TimerLimits ==
  ASSUME IInv, Limits, Poll \/ Look \/ Reload
  PROVE  Limits'
<1>1. UNCHANGED <<up, doomed, deaths, crashes, born, overwritten>>
  BY DEF Poll, Look, Reload, serverVars, pageVars, historyVars
<1>2. /\ page \in Nat /\ looks \in Seq(Nat) /\ deaths \in Nat
      /\ page <= MaxReloads
      /\ \A i \in 1 .. Len(looks) : looks[i] <= deaths
  BY DEF IInv, Types, Limits
<1>3. page' \in Nat /\ page' <= MaxReloads
  BY <1>2, DemoBounds DEF Poll, Look, Reload, pageVars
<1>4. PICK s \in Slots, p \in {page, page'} : fetches' = [fetches EXCEPT ![s] = Request("status", p)]
  BY DEF Poll, Look, Reload, Send, FreeSlots
<1>5. /\ Request("status", p) \in SomeFetch /\ Request("status", p).process = 0
      /\ Request("status", p).kind \notin {"write", "crash"}
  BY <1>2, <1>3, SentType
<1>6. \A i \in 1 .. Len(looks') : looks'[i] <= deaths
  <2>1. CASE looks' = looks
    BY <1>2, <2>1
  <2>2. CASE looks' = <<>>
    BY <2>2
  <2>3. CASE looks # <<>> /\ looks' = Tail(looks)
    BY <1>2, <2>3
  <2> QED
    BY <2>1, <2>2, <2>3 DEF Poll, Look, Reload, pageVars
<1> QED
  BY <1>1, <1>3, <1>4, <1>5, <1>6, PageLimits

LEMMA DeliverLimits ==
  ASSUME IInv, Limits, NEW s \in Slots, Deliver(s)
  PROVE  Limits'
<1> USE DEF Deliver, ReceiveStatus, ReceiveNoStatus, ReceiveWritten, ReceiveCrashing,
            ReceiveState, ReceiveError, Discard, Receive, ReceiveAndSend
<1>1. UNCHANGED <<up, doomed, deaths, crashes, born, overwritten, page>>
  BY DEF serverVars, pageVars, historyVars
<1>2. looks' = looks \/ looks' = Append(looks, fetches[s].process)
  BY DEF pageVars
<1>3. PICK r \in {Free, Request("state", page)} : fetches' = [fetches EXCEPT ![s] = r]
  OBVIOUS
<1>4. /\ page \in Nat /\ looks \in Seq(Nat) /\ deaths \in Nat
      /\ fetches[s].process \in Nat
      /\ page <= MaxReloads
      /\ \A i \in 1 .. Len(looks) : looks[i] <= deaths
      /\ fetches[s].process <= deaths
  BY DEF IInv, Types, Limits, SomeFetch
<1>5. r \in SomeFetch /\ r.process = 0 /\ r.kind \notin {"write", "crash"}
  BY <1>4, SentType
<1>6. \A i \in 1 .. Len(looks') : looks'[i] <= deaths
  <2>1. CASE looks' = looks
    BY <1>4, <2>1
  <2>2. CASE looks' = Append(looks, fetches[s].process)
    <3> DEFINE n == fetches[s].process
    <3>1. n \in Nat /\ n <= deaths
      BY <1>4
    <3> HIDE DEF n
    <3>2. looks' = Append(looks, n)
      BY <2>2 DEF n
    <3>3. Len(looks') = Len(looks) + 1 /\ \A i \in 1 .. Len(looks') : looks'[i] = IF i = Len(looks) + 1 THEN n ELSE looks[i]
      BY <1>4, <3>1, <3>2
    <3> QED
      BY <1>4, <3>1, <3>3
  <2> QED
    BY <1>2, <2>1, <2>2
<1> QED
  BY <1>1, <1>3, <1>4, <1>5, <1>6, PageLimits

LEMMA NextLimits == IInv /\ IInv' /\ Limits /\ [Next]_vars => Limits'
<1> SUFFICES ASSUME IInv, IInv', Limits, [Next]_vars PROVE Limits'
  OBVIOUS
<1>1. CASE UNCHANGED vars
  BY <1>1 DEF vars, serverVars, pageVars, historyVars, Limits, Mortal, Count, Sent
<1>2. CASE Restart
  BY <1>2 DEF Restart, pageVars, historyVars, Limits, Mortal, Count, Sent
<1> QED
  BY <1>1, <1>2, ServeLimits, OtherClientLimits, HardExitLimits, ClickWriteLimits,
     ClickCrashLimits, TimerLimits, DeliverLimits DEF Next

\* Process, requests and page have their types, and within the bounds of the
\* model: the process dies no more often than a crash was asked for
\* (admin.py:82-93, 122-130), no request answers with a value nobody has written.
THEOREM TypeCorrect == Spec => []TypeOK
<1>1. IInv /\ Limits => TypeOK
  BY LimitsAreTypes
<1>2. Init => Limits
  BY InitLimits
<1>3. IInv /\ IInv' /\ Limits /\ [Next]_vars => Limits'
  BY NextLimits
<1> QED
  BY <1>1, <1>2, <1>3, Invariant, PTL DEF Spec
==============================================================================
