-------------------------- MODULE IncidentDetector --------------------------
(***************************************************************************)
(* Automatic incident capture: the threshold detector                      *)
(* (internal/incident/detector.go) that the workers share, and the Flight  *)
(* Recorder it freezes (internal/storage/flightrecorder.go).               *)
(*                                                                         *)
(* A worker writes an event to the recorder, later observes it: it reads   *)
(* the clock, then takes the detector's lock, then freezes and annotates   *)
(* outside the lock.  Steps of other workers fall between any two of       *)
(* these.  A signal is an event as [source, category], category "latency", *)
(* "errors" or "none"; a key is such a pair.                               *)
(***************************************************************************)
EXTENDS Integers, FiniteSets, Sequences

CONSTANTS
    Detectors,          \* the workers that observe events
    Signals,            \* event |-> [source, category]
    ErrorThreshold,     \* errors within the window that make an incident
    ErrorWindow,        \* in ticks of the clock, like the next two
    FreezeLookback,
    Cooldown,
    MaxTrackedSources,
    MaxStall,           \* ticks between reading the clock and taking the lock
    MaxTime,            \* bound on the clock
    Deliveries,         \* sequences of events the workers are given
    IncidentFaults,     \* "freeze": a freeze fails, "unsure": it fails after it
                        \* was committed, "annotate": the annotation fails
    MaxIncidentFaults

VARIABLES
    errors,       \* source |-> times of its recent errors, <<>> when not tracked
    lastTrigger,  \* key |-> time of its reservation, for the keys that have one
    flight,       \* flight_recorder_events: records [event, at]
    incidents,    \* incidents: records [key, at, events, reason]
    task,         \* worker |-> {} or what it is doing
    time,         \* the clock
    counted,      \* the error observations, [source, at], in order
    reopened,     \* keys whose cooldown was cut short by an eviction or an
                  \* unsure freeze
    inbox,        \* the deliveries to come
    mishaps       \* number of faults taken

incidentVars == <<errors, lastTrigger, flight, incidents, task, time, counted, reopened, inbox, mishaps>>

Sources == {Signals[e].source : e \in DOMAIN Signals}

IncidentAssumption ==
    /\ ErrorThreshold \in Nat \ {0} /\ MaxTrackedSources \in Nat \ {0}
    /\ FreezeLookback \in Nat \ {0} /\ ErrorWindow \in Nat \ {0} /\ Cooldown \in Nat

ASSUME IncidentAssumption

IncidentInit ==
    /\ errors = [s \in Sources |-> <<>>]
    /\ lastTrigger = <<>>
    /\ flight = {} /\ incidents = {}
    /\ task = [w \in Detectors |-> {}]
    /\ time = 0 /\ counted = <<>> /\ reopened = {}
    /\ inbox \in Deliveries /\ mishaps = 0

Mishap(k) == k \in IncidentFaults /\ mishaps < MaxIncidentFaults /\ mishaps' = mishaps + 1

Doing(w, step) == {t \in task[w] : t.step = step}

Does(w, t) == task' = [task EXCEPT ![w] = {t}]

Done(w) == task' = [task EXCEPT ![w] = {}]

\* The first stage of the chain.
CaptureEvent(w) ==
    /\ task[w] = {} /\ inbox # <<>> /\ inbox' = Tail(inbox)
    /\ Does(w, [step |-> "chain", event |-> Head(inbox), at |-> time])
    /\ flight' = flight \cup {[event |-> Head(inbox), at |-> time]}
    /\ UNCHANGED <<errors, lastTrigger, incidents, time, counted, reopened, mishaps>>

\* Observe reads the clock before it takes the lock.  A latency breach needs no
\* window and goes straight to the trigger.
ObserveSignal(w) ==
    \E t \in Doing(w, "chain") :
        /\ IF Signals[t.event].category = "none" THEN Done(w)
           ELSE Does(w, [t EXCEPT !.at = time,
                    !.step = IF Signals[t.event].category = "errors" THEN "errors" ELSE "trigger"])
        /\ UNCHANGED <<inbox, errors, lastTrigger, flight, incidents, time, counted, reopened, mishaps>>

-----------------------------------------------------------------------------
(***************************************************************************)
(* The error window of a source, and the bounded table of sources.         *)
(***************************************************************************)

kept(s, now) ==
    LET Recent(at) == at > now - ErrorWindow IN SelectSeq(errors[s], Recent)

Tracked(table) == {s \in Sources : table[s] # <<>>}

\* The tracked sources whose last error is the oldest: one of them is evicted.
OldestSources(table) ==
    {s \in Tracked(table) : \A r \in Tracked(table) :
        table[s][Len(table[s])] <= table[r][Len(table[r])]}

\* The tables in which source s has room.
MakeRoom(table, s) ==
    IF table[s] = <<>> /\ Cardinality(Tracked(table)) >= MaxTrackedSources
    THEN {[table EXCEPT ![v] = <<>>] : v \in OldestSources(table)}
    ELSE {table}

recordError(w) ==
    \E t \in Doing(w, "errors") :
        LET s == Signals[t.event].source
            recent == kept(s, t.at)
        IN /\ \E table \in MakeRoom([errors EXCEPT ![s] = recent], s) :
                errors' = [table EXCEPT ![s] = Append(recent, t.at)]
           /\ counted' = Append(counted, [source |-> s, at |-> t.at])
           /\ IF Len(recent) + 1 < ErrorThreshold THEN Done(w)
              ELSE Does(w, [step |-> "trigger", event |-> t.event, at |-> t.at])
           /\ UNCHANGED <<inbox, lastTrigger, flight, incidents, time, reopened, mishaps>>

-----------------------------------------------------------------------------
(***************************************************************************)
(* The trigger: reservation under the lock, freeze and annotation outside. *)
(***************************************************************************)

pruneExpiredTriggersLocked(now) ==
    {k \in DOMAIN lastTrigger : Cooldown > 0 /\ lastTrigger[k] >= now - Cooldown}

\* What is left of the reservations when key asks for a place among keys.
evictOldestTriggerLocked(keys, key) ==
    IF key \in keys \/ Cardinality(keys) < 2 * MaxTrackedSources THEN {keys}
    ELSE {keys \ {v} : v \in {v \in keys : \A k \in keys : lastTrigger[v] <= lastTrigger[k]}}

trigger(w) ==
    \E t \in Doing(w, "trigger") :
        LET key == Signals[t.event]
            live == pruneExpiredTriggersLocked(t.at)
        IN IF key \in live /\ t.at - lastTrigger[key] < Cooldown
           THEN /\ lastTrigger' = [k \in live |-> lastTrigger[k]]
                /\ Done(w)
                /\ UNCHANGED <<inbox, errors, flight, incidents, time, counted, reopened, mishaps>>
           ELSE \E left \in evictOldestTriggerLocked(live, key) :
                /\ lastTrigger' = [k \in left \cup {key} |->
                                        IF k = key THEN t.at ELSE lastTrigger[k]]
                /\ reopened' = reopened \cup (live \ left)
                /\ Does(w, [t EXCEPT !.step = "freeze"])
                /\ UNCHANGED <<inbox, errors, flight, incidents, time, counted, mishaps>>

\* The events FreezeIncident copies: one row for each event of the window.
FrozenEvents(from, to) == {f.event : f \in {f \in flight : f.at \in from..to}}

FreezeIncident(w, t) ==
    incidents' = {i \in incidents : <<i.key, i.at>> # <<Signals[t.event], t.at>>} \cup
        {[key |-> Signals[t.event], at |-> t.at, reason |-> FALSE, trigger |-> t.event,
          events |-> FrozenEvents(t.at - FreezeLookback, t.at)]}

\* Mutation: a failed freeze clears whatever reservation the key has.
releaseAnyReservation(key, at) == [k \in DOMAIN lastTrigger \ {key} |-> lastTrigger[k]]

\* Only the reservation made at that time is released.
releaseTriggerReservation(key, at) ==
    [k \in {k \in DOMAIN lastTrigger : k # key \/ lastTrigger[k] # at} |-> lastTrigger[k]]

Freeze(w) ==
    \E t \in Doing(w, "freeze") :
        \/ /\ FreezeIncident(w, t)
           /\ Does(w, [t EXCEPT !.step = "annotate"])
           /\ UNCHANGED <<inbox, errors, lastTrigger, flight, time, counted, reopened, mishaps>>
        \/ /\ Mishap("freeze")
           /\ lastTrigger' = releaseTriggerReservation(Signals[t.event], t.at)
           /\ Done(w)
           /\ UNCHANGED <<inbox, errors, flight, incidents, time, counted, reopened>>
        \/ /\ Mishap("unsure") /\ FreezeIncident(w, t)
           /\ lastTrigger' = releaseTriggerReservation(Signals[t.event], t.at)
           /\ reopened' = reopened \cup {Signals[t.event]}
           /\ Done(w)
           /\ UNCHANGED <<inbox, errors, flight, time, counted>>

AnnotateIncident(w) ==
    \E t \in Doing(w, "annotate") :
        /\ \/ /\ incidents' = {IF i.key = Signals[t.event] /\ i.at = t.at
                               THEN [i EXCEPT !.reason = TRUE] ELSE i : i \in incidents}
              /\ UNCHANGED mishaps
           \/ Mishap("annotate") /\ UNCHANGED incidents
        /\ Done(w)
        /\ UNCHANGED <<inbox, errors, lastTrigger, flight, time, counted, reopened>>

\* The clock moves on.  A worker that has read it waits for the lock for at most
\* MaxStall ticks, and observes an event within the lookback of its capture; a
\* freeze may take any time.
IncidentTick ==
    /\ time < MaxTime /\ time' = time + 1
    /\ \A w \in Detectors : \A t \in task[w] :
        /\ t.step \in {"errors", "trigger"} => time' - t.at <= MaxStall
        /\ t.step = "chain" => time' - t.at < FreezeLookback
    /\ UNCHANGED <<inbox, errors, lastTrigger, flight, incidents, task, counted, reopened, mishaps>>

IncidentNext ==
    \/ \E w \in Detectors :
        \/ CaptureEvent(w) \/ ObserveSignal(w) \/ recordError(w) \/ trigger(w)
        \/ Freeze(w) \/ AnnotateIncident(w)
    \/ IncidentTick

-----------------------------------------------------------------------------

\* Source names come from telemetry: whatever sources appear, the detector
\* tracks at most MaxTrackedSources error windows and twice as many cooldowns.
DetectorBounded ==
    /\ Cardinality(Tracked(errors)) <= MaxTrackedSources
    /\ Cardinality(DOMAIN lastTrigger) <= 2 * MaxTrackedSources

\* Two incidents of one source and category are a cooldown apart (give or take
\* the time a worker waits for the lock with the clock already read), also
\* when breaches overlap and slow freezes fail late, unless the cooldown entry was
\* evicted or a freeze reported an error although it was committed.
OneIncidentPerCooldown ==
    \A i, j \in incidents :
        i.key = j.key /\ i.at < j.at /\ j.at - i.at < Cooldown - MaxStall => i.key \in reopened

\* An error incident is backed by as many error observations of its source
\* within the window before it as the threshold asks for.
ThresholdHonest ==
    \A i \in incidents : i.key.category = "errors" =>
        Cardinality({k \in DOMAIN counted :
            /\ counted[k].source = i.key.source
            /\ counted[k].at > i.at - ErrorWindow}) >= ErrorThreshold

\* A frozen incident holds the event whose observation triggered it.
TriggerInEvidence == \A i \in incidents : i.trigger \in i.events

\* Incidents are opened when the thresholds say so and hold their trigger, once
\* per cooldown and within the bounds of the detector's tables.
IncidentsHonest ==
    /\ DetectorBounded
    /\ OneIncidentPerCooldown
    /\ ThresholdHonest
    /\ TriggerInEvidence
=============================================================================
