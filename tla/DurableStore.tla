---------------------------- MODULE DurableStore -----------------------------
(***************************************************************************)
(* What the store promises its clients, without tables, versions, lazily   *)
(* removed records, logs, files or processes: a map from keys to the       *)
(* entries clients can read, which only their own operations and the clock *)
(* change.  A restart of the process is not an action of this module: an   *)
(* implementation has to make it invisible.                                *)
(***************************************************************************)
EXTENDS Records

CONSTANTS InputValues, TTLs, Amounts    \* what clients store, and add to counters

VARIABLES
    view,   \* the entry under each key, or Missing
    clock   \* the wall clock

vars == <<view, clock>>

Entry == [value : Values, expires : Int \cup {Never}, created : Int]

Init ==
    /\ view = [sk \in StorageKeys |-> Missing]
    /\ clock = 0

Set(sk, value, ttl) ==
    /\ view' = [view EXCEPT ![sk] =
                  [value   |-> value,
                   expires |-> IF ttl = Never THEN Never ELSE clock + ttl,
                   created |-> IF view[sk] = Missing THEN clock ELSE view[sk].created]]
    /\ UNCHANGED clock

Remove(sk) ==
    /\ view[sk] # Missing
    /\ view' = [view EXCEPT ![sk] = Missing]
    /\ UNCHANGED clock

\* A counter that is not there starts from zero and never expires.
CountFromZero(sk, amount) ==
    /\ view[sk] = Missing
    /\ view' = [view EXCEPT ![sk] = [value |-> amount, expires |-> Never, created |-> clock]]
    /\ UNCHANGED clock

\* Counting on keeps the deadline and the creation time.
CountOn(sk, amount) ==
    /\ view[sk] # Missing
    /\ AsInt(view[sk].value) # NotAnInt
    /\ view' = [view EXCEPT ![sk] = [value   |-> AsInt(view[sk].value) + amount,
                                    expires |-> view[sk].expires,
                                    created |-> view[sk].created]]
    /\ UNCHANGED clock

\* Everything in the namespace disappears, and nothing else does.
Invalidate(ns) ==
    /\ view' = [sk \in StorageKeys |-> IF sk[1] = ns THEN Missing ELSE view[sk]]
    /\ UNCHANGED clock

\* Time passes; an entry disappears exactly when its deadline is reached.
Pass ==
    /\ clock' = clock + 1
    /\ view' = [sk \in StorageKeys |->
                  IF view[sk] # Missing /\ IsExpired(view[sk], clock') THEN Missing ELSE view[sk]]

Next ==
    \/ \E sk \in StorageKeys :
          \/ \E value \in InputValues, ttl \in TTLs : Set(sk, value, ttl)
          \/ Remove(sk)
          \/ \E amount \in Amounts : CountFromZero(sk, amount) \/ CountOn(sk, amount)
    \/ \E ns \in Namespaces : Invalidate(ns)
    \/ Pass

Spec == Init /\ [][Next]_vars
==============================================================================
