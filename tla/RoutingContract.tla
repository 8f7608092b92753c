-------------------------- MODULE RoutingContract --------------------------
(***************************************************************************)
(* What the durable routing outbox promises (docs/adr/0030, 0031): an      *)
(* intent to deliver an event to a destination never disappears; it is     *)
(* reported delivered only when the destination has the event, and given   *)
(* up only when the intent for the failure fallback exists too.  Delivery  *)
(* is at least once: a destination may get an event of any intent at any   *)
(* time, and an intent that was settled may be opened again.               *)
(***************************************************************************)
CONSTANTS Intents, NoFallback

VARIABLES
    fallback,   \* intent -> the intent that replaces it when it is given up
    state,      \* intent -> "open", "delivered" or "dead"; no intent is taken back
    received    \* intents whose event the destination has

vars == <<fallback, state, received>>

Init ==
    /\ fallback \in [Intents -> Intents \cup {NoFallback}]
    /\ state = [i \in {} |-> "open"]
    /\ received = {}

With(f, keys, value) == [i \in DOMAIN f \cup keys |-> IF i \in DOMAIN f THEN f[i] ELSE value]

\* An event is planned: its intents that are not there yet are opened.
Enqueue ==
    /\ DOMAIN state' \subseteq Intents
    /\ state' = With(state, DOMAIN state', "open")
    /\ UNCHANGED <<fallback, received>>

Receive(i) ==
    /\ i \in DOMAIN state
    /\ received' = received \cup {i}
    /\ UNCHANGED <<fallback, state>>

Close(i) ==
    /\ i \in received
    /\ state' = [state EXCEPT ![i] = "delivered"]
    /\ UNCHANGED <<fallback, received>>

\* Given up, and in the same step the fallback intent exists.
GiveUp(i) ==
    /\ i \in DOMAIN state
    /\ LET dead == [state EXCEPT ![i] = "dead"]
       IN state' = IF fallback[i] = NoFallback THEN dead
                   ELSE With(dead, {fallback[i]}, "open")
    /\ UNCHANGED <<fallback, received>>

Reopen(i) ==
    /\ i \in DOMAIN state
    /\ state' = [state EXCEPT ![i] = "open"]
    /\ UNCHANGED <<fallback, received>>

Next ==
    \/ Enqueue
    \/ \E i \in Intents : Receive(i) \/ Close(i) \/ GiveUp(i) \/ Reopen(i)

Spec == Init /\ [][Next]_vars
=============================================================================
