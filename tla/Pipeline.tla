------------------------------ MODULE Pipeline ------------------------------
(***************************************************************************)
(* The processing chain of the telemetry workers: what each stage of       *)
(* internal/worker writes, in the order cmd/worker/main.go composes them,  *)
(* with the retries of worker.Pool around the whole chain.                 *)
(*                                                                         *)
(* A worker is one process working on one delivered event at a time.  The  *)
(* broker may deliver an event again at any time, also while another       *)
(* worker is still on it (a rebalance) or after it was acknowledged (the   *)
(* commit was lost); ConsumerGroup models that protocol, here a second     *)
(* delivery is a fault.  A database call may fail before or after its      *)
(* transaction committed.  What a candidate configuration would have done  *)
(* (shadow differences) and the cardinality budgets are reports that leave *)
(* the event alone; of them the model has only that they may fail.         *)
(***************************************************************************)
EXTENDS Shaping, CardinalityPolicy

CONSTANTS
    Workers,
    Events,       \* event |-> attributes (see Shaping), valid and marker
    Batches,      \* the sets of events that may be waiting in the topic
    Hash,         \* event |-> the percentage its identity hashes to
    Config,       \* the active shaping configuration
    Policy,       \* the active cardinality policy
    Dimensions,   \* the tag keys, sorted
    Pressures,    \* queue pressures the controller may report
    Multipliers,  \* multipliers the autonomy controller may report
    MaxAttempts,  \* attempts of worker.Pool
    Faults,       \* the kinds of faults that may happen
    MaxFaults,    \* how many
    MaxHour       \* bound on the hours that pass

VARIABLES
    batch,     \* the events waiting in the topic
    worker,    \* what each worker is doing
    reserved,  \* worker |-> findings its engine reported within the interval
    db,        \* the tables the stages write; a row is a set of at most one
    hour,      \* the hour of the wall clock
    now,       \* worker |-> the hour in which its event reached the firewall
    passed,    \* history: dimension |-> the <<hour, value>> the firewall let through
    settled,   \* event |-> how its deliveries ended: "acked", "dlq"
    faults

vars == <<batch, worker, reserved, db, hour, now, passed, settled, faults>>

clockVars == <<hour, now, passed>>

Ids == DOMAIN Events
Quarantined == "telemetryforge.quarantined"

\* The empty name is the one of no event.
PipelineAssumption ==
    /\ Validate(Config) /\ ValidPolicy(Policy) /\ "" \notin Ids
    /\ MaxAttempts \in Nat \ {0} /\ MaxFaults \in Nat /\ MaxHour \in Nat

ASSUME PipelineAssumption

Idle == [event |-> "", stage |-> "idle", attempts |-> 0, tags |-> <<>>,
         todo |-> <<>>, blocked |-> {}]

Started(e, attempts, stage) ==
    [event |-> e, stage |-> stage, attempts |-> attempts, tags |-> Events[e].tags,
     todo |-> <<>>, blocked |-> {}]

Init ==
    /\ batch \in Batches
    /\ worker = [w \in Workers |-> Idle]
    /\ reserved = [w \in Workers |-> {}]
    /\ db = [flight |-> {}, markers |-> {}, quarantine |-> {}, findings |-> {},
             decisions |-> [e \in Ids |-> {}], stats |-> [e \in Ids |-> 0],
             seen |-> [d \in Range(Dimensions) |-> {}],
             rows |-> [e \in Ids |-> {}], intents |-> [e \in Ids |-> {}]]
    /\ hour = 0 /\ now = [w \in Workers |-> 0]
    /\ passed = [d \in Range(Dimensions) |-> {}]
    /\ settled = [e \in Ids |-> {}]
    /\ faults = 0

Fault(kind) == kind \in Faults /\ faults < MaxFaults /\ faults' = faults + 1

-----------------------------------------------------------------------------
(***************************************************************************)
(* The order of the stages.  The schema inspector and the incident         *)
(* detector neither change the event nor fail (they fail open and log) and *)
(* have modules of their own.                                              *)
(***************************************************************************)

\* Mutation: routing before persistence.
ChainRoutesFirst ==
    <<"flight", "normalize", "change", "shape", "policy", "route", "persist">>

Chain == <<"flight", "normalize", "change", "shape", "policy", "persist", "route">>

After(stage) ==
    LET k == CHOOSE i \in DOMAIN Chain : Chain[i] = stage
    IN IF k = Len(Chain) THEN "ack" ELSE Chain[k + 1]

At(w, stage) == worker[w].stage = stage

\* Worker w leaves its stage with these tags; the firewall then takes them one
\* by one.
Passes(w, tags) ==
    LET Tagged(d) == d \in DOMAIN tags
        next == After(worker[w].stage)
    IN worker' = [worker EXCEPT
           ![w].stage = next, ![w].tags = tags,
           ![w].todo = IF next = "policy" THEN SelectSeq(Dimensions, Tagged) ELSE <<>>]

Continue(w) == Passes(w, worker[w].tags)

\* Mutation: a transient error is retried without a limit.
RetryForever(w) ==
    worker' = [worker EXCEPT ![w] = Started(@.event, @.attempts, Chain[1])]

\* processWithRetry after a transient error: the whole chain again, with the
\* event as it was delivered, or the dead-letter topic.
Retry(w) ==
    worker' = [worker EXCEPT ![w] =
        IF @.attempts < MaxAttempts THEN Started(@.event, @.attempts + 1, Chain[1])
        ELSE Started(@.event, @.attempts, "dlq")]

\* A database call that returns an error: its transaction did not happen, or
\* did and the answer was lost.
Unanswered(write) == db' \in {db, write}

-----------------------------------------------------------------------------
(***************************************************************************)
(* Deliveries.                                                             *)
(***************************************************************************)

Deliver(w, e) ==
    /\ At(w, "idle") /\ e \in batch /\ settled[e] = {}
    /\ \A other \in Workers : worker[other].event # e
    /\ worker' = [worker EXCEPT ![w] = Started(e, 1, Chain[1])]
    /\ UNCHANGED <<reserved, db, settled, faults, clockVars>>

Redeliver(w, e) ==
    /\ At(w, "idle") /\ Fault("redeliver")
    /\ settled[e] # {} \/ \E other \in Workers : worker[other].event = e
    /\ worker' = [worker EXCEPT ![w] = Started(e, 1, Chain[1])]
    /\ UNCHANGED <<reserved, db, settled, clockVars>>

\* The process dies with what its engine remembers.
Crash(w) ==
    /\ ~At(w, "idle") /\ Fault("crash")
    /\ worker' = [worker EXCEPT ![w] = Idle]
    /\ reserved' = [reserved EXCEPT ![w] = {}]
    /\ UNCHANGED <<db, settled, clockVars>>

Ack(w) ==
    /\ At(w, "ack")
    /\ settled' = [settled EXCEPT ![worker[w].event] = @ \cup {"acked"}]
    /\ worker' = [worker EXCEPT ![w] = Idle]
    /\ UNCHANGED <<reserved, db, faults, clockVars>>

PublishDLQ(w) ==
    /\ At(w, "dlq")
    /\ settled' = [settled EXCEPT ![worker[w].event] = @ \cup {"dlq"}]
    /\ worker' = [worker EXCEPT ![w] = Idle]
    /\ UNCHANGED <<reserved, db, faults, clockVars>>

-----------------------------------------------------------------------------
(***************************************************************************)
(* Evidence: flight recorder, normalizer, change marker.                   *)
(***************************************************************************)

WriteFlightEvent(e) == [db EXCEPT !.flight = @ \cup {e}]

RecordFlight(w) ==
    /\ At(w, "flight")
    /\ \/ db' = WriteFlightEvent(worker[w].event) /\ Continue(w) /\ UNCHANGED faults
       \/ Unanswered(WriteFlightEvent(worker[w].event)) /\ Retry(w) /\ Fault("database")
    /\ UNCHANGED <<reserved, settled, clockVars>>

\* An event whose source or type is blank fails permanently.
Normalize(w) ==
    /\ At(w, "normalize")
    /\ IF Events[worker[w].event].valid THEN Continue(w)
       ELSE worker' = [worker EXCEPT ![w].stage = "dlq"]
    /\ UNCHANGED <<reserved, db, settled, faults, clockVars>>

RecordChangeMarker(e) == [db EXCEPT !.markers = @ \cup {e}]

\* A marker the store refuses to write fails like an unavailable database.
RecordChange(w) ==
    LET e == worker[w].event IN
    /\ At(w, "change")
    /\ \/ Events[e].marker = "none" /\ db' = db /\ Continue(w) /\ UNCHANGED faults
       \/ Events[e].marker = "invalid" /\ db' = db /\ Retry(w) /\ UNCHANGED faults
       \/ /\ Events[e].marker = "valid"
          /\ \/ db' = RecordChangeMarker(e) /\ Continue(w) /\ UNCHANGED faults
             \/ Unanswered(RecordChangeMarker(e)) /\ Retry(w) /\ Fault("database")
    /\ UNCHANGED <<reserved, settled, clockVars>>

-----------------------------------------------------------------------------
(***************************************************************************)
(* The shaper.                                                             *)
(***************************************************************************)

\* The decision on every event, at every pressure and multiplier; a stored
\* decision is evaluated with multiplier zero (Stored).
Decisions ==
    [e \in Ids |-> [pressure \in Pressures |-> [multiplier \in Multipliers \cup {0} |->
        evaluateConfig(Config, Events[e], pressure, multiplier, Hash[e])]]]

Evaluate(e, pressure, multiplier) == Decisions[e][pressure][multiplier]

\* ResolveShapingDecision: the first decision wins, and is counted once.
ResolveShapingDecision(e, proposed) ==
    IF db.decisions[e] # {} THEN db
    ELSE [db EXCEPT !.decisions[e] = {Stored(proposed)}, !.stats[e] = @ + 1]

\* What the shaper applies: the proposed decision when it was the first, else
\* the stored one evaluated again as it was, or none when that fails.
Applied(e, proposed) ==
    IF db.decisions[e] = {} THEN {proposed}
    ELSE {d \in {Evaluate(e, stored.pressure, stored.multiplier) : stored \in db.decisions[e]} :
             \E stored \in db.decisions[e] : sameShapingDecision(stored, d)}

\* stopProcessing ends the chain successfully.
Outcome(w, decision) ==
    IF decision.keep THEN Passes(w, decision.tags)
    ELSE worker' = [worker EXCEPT ![w].stage = "ack"]

\* Engine.Evaluate reads the clock once, before the first dimension.
ReachFirewall(w) == now' = [now EXCEPT ![w] = hour] /\ UNCHANGED <<hour, passed>>

Shape(w, pressure, multiplier) ==
    LET e == worker[w].event
        proposed == Evaluate(e, pressure, multiplier)
    IN /\ At(w, "shape")
       /\ db' = ResolveShapingDecision(e, proposed)
       /\ IF Applied(e, proposed) = {} THEN Continue(w)
          ELSE \E decision \in Applied(e, proposed) : Outcome(w, decision)
       /\ ReachFirewall(w)
       /\ UNCHANGED <<reserved, settled, faults>>

\* Mutation: a decision whose audit failed is applied all the same.
AuditFailsApplied(w, pressure, multiplier) ==
    LET e == worker[w].event
        proposed == Evaluate(e, pressure, multiplier)
    IN /\ At(w, "shape") /\ Fault("audit")
       /\ Unanswered(ResolveShapingDecision(e, proposed))
       /\ Outcome(w, proposed)
       /\ ReachFirewall(w)
       /\ UNCHANGED <<reserved, settled>>

\* Without its audit record the decision is not applied.
AuditFails(w, pressure, multiplier) ==
    LET e == worker[w].event
        proposed == Evaluate(e, pressure, multiplier)
    IN /\ At(w, "shape") /\ Fault("audit")
       /\ Unanswered(ResolveShapingDecision(e, proposed))
       /\ Continue(w)
       /\ ReachFirewall(w)
       /\ UNCHANGED <<reserved, settled>>

-----------------------------------------------------------------------------
(***************************************************************************)
(* The cardinality firewall.  One step of Firewall is one dimension of the *)
(* event: the shared observation, then the finding.                        *)
(***************************************************************************)

\* One row for each hour: the values it has seen.
ObserveCardinality(d, window, value) == [db EXCEPT !.seen[d] = @ \cup {<<window, value>>}]

SeenIn(seen, window) == {x \in seen : x[1] = window}

\* The action the policy takes on dimension d of the event of w, after the
\* observation counted observed values and projects the others to the hour.
FindingOf(w, d, observed, projected) ==
    evaluate(PolicyDecision(Policy, Events[worker[w].event], d), observed, projected)

Removes(action) == action \in {"drop_tag", "quarantine"}

\* The worker after dimension d got this action.
Filtered(w, d, action) ==
    [worker EXCEPT ![w].todo = Tail(@),
                   ![w].tags = IF Removes(action) THEN Without(@, {d}) ELSE @,
                   ![w].blocked = IF action = "quarantine" THEN @ \cup {d} ELSE @]

\* shouldReport: not twice within the interval, which may have ended.
ShouldReport(w, finding) == IF finding \in reserved[w] THEN BOOLEAN ELSE {TRUE}

Firewall(w) ==
    /\ At(w, "policy") /\ worker[w].todo # <<>>
    /\ LET d == Head(worker[w].todo)
           observation == ObserveCardinality(d, now[w], worker[w].tags[d])
           observed == Cardinality(SeenIn(observation.seen[d], now[w]))
       IN \E projected \in {observed, observed + 1} :
             LET action == FindingOf(w, d, observed, projected)
                 finding == <<d, action>>
             IN IF action = NoFinding
                THEN /\ db' = observation /\ worker' = Filtered(w, d, action)
                     /\ UNCHANGED <<reserved, faults>>
                ELSE \E report \in ShouldReport(w, finding) :
                        \/ /\ ~report
                           /\ db' = observation /\ worker' = Filtered(w, d, action)
                           /\ UNCHANGED <<reserved, faults>>
                        \/ /\ report
                           /\ reserved' = [reserved EXCEPT ![w] = @ \cup {finding}]
                           /\ \/ /\ db' = [observation EXCEPT !.findings = @ \cup {finding}]
                                 /\ worker' = Filtered(w, d, action) /\ UNCHANGED faults
                              \/ /\ db' = observation /\ Retry(w) /\ Fault("finding")
    /\ UNCHANGED <<settled, clockVars>>

\* A budget, the shared observation or a shadow report fails: EvaluateAt returns
\* the error and the event is retried.
EvaluateFails(w) ==
    /\ At(w, "policy") /\ Fault("database") /\ Retry(w)
    /\ \/ UNCHANGED db
       \/ /\ worker[w].todo # <<>>
          /\ LET d == Head(worker[w].todo)
             IN db' = ObserveCardinality(d, now[w], worker[w].tags[d])
    /\ UNCHANGED <<reserved, settled, clockVars>>

RecordQuarantine(e) == [db EXCEPT !.quarantine = @ \cup {e}]

\* The tags of w, as they leave the firewall.
LetThrough(w) ==
    passed' = [d \in Range(Dimensions) |->
        IF d \in DOMAIN worker[w].tags THEN passed[d] \cup {<<now[w], worker[w].tags[d]>>}
        ELSE passed[d]]

\* The original event is quarantined before its reduced form goes on.
LeaveFirewall(w) ==
    LET e == worker[w].event
        tags == With(worker[w].tags, Quarantined, "true")
        next == [worker EXCEPT ![w].stage = After("policy"), ![w].tags = tags,
                               ![w].blocked = {}]
    IN /\ At(w, "policy") /\ worker[w].todo = <<>>
       /\ \/ /\ worker[w].blocked = {} /\ db' = db /\ UNCHANGED faults
             /\ worker' = [worker EXCEPT ![w].stage = After("policy")] /\ LetThrough(w)
          \/ /\ worker[w].blocked # {}
             /\ \/ /\ db' = RecordQuarantine(e) /\ worker' = next /\ LetThrough(w)
                   /\ UNCHANGED faults
                \/ /\ Unanswered(RecordQuarantine(e)) /\ Retry(w) /\ Fault("database")
                   /\ UNCHANGED passed
       /\ UNCHANGED <<reserved, settled, hour, now>>

-----------------------------------------------------------------------------
(***************************************************************************)
(* Persistence and routing.                                                *)
(***************************************************************************)

\* Mutation: a later write of the same event replaces its row.
WriteEventReplaces(e, tags) == [db EXCEPT !.rows[e] = {tags}]

\* The claim in event_dedup and the row in one transaction; first write wins.
WriteEvent(e, tags) == [db EXCEPT !.rows[e] = IF @ = {} THEN {tags} ELSE @]

Persist(w) ==
    LET write == WriteEvent(worker[w].event, worker[w].tags) IN
    /\ At(w, "persist")
    /\ \/ db' = write /\ Continue(w) /\ UNCHANGED faults
       \/ Unanswered(write) /\ Retry(w) /\ Fault("database")
    /\ UNCHANGED <<reserved, settled, clockVars>>

\* The outbox keeps the envelope it was first given (RouterOutbox).
EnqueueRoutingPlan(e, tags) == [db EXCEPT !.intents[e] = IF @ = {} THEN {tags} ELSE @]

Route(w) ==
    LET write == EnqueueRoutingPlan(worker[w].event, worker[w].tags) IN
    /\ At(w, "route")
    /\ \/ db' = write /\ Continue(w) /\ UNCHANGED faults
       \/ Unanswered(write) /\ Retry(w) /\ Fault("database")
    /\ UNCHANGED <<reserved, settled, clockVars>>

-----------------------------------------------------------------------------

Process(w) ==
    \/ RecordFlight(w) \/ Normalize(w) \/ RecordChange(w)
    \/ \E p \in Pressures, m \in Multipliers : Shape(w, p, m) \/ AuditFails(w, p, m)
    \/ Firewall(w) \/ EvaluateFails(w) \/ LeaveFirewall(w) \/ Persist(w) \/ Route(w)
    \/ Ack(w) \/ PublishDLQ(w)

Progress ==
    \E w \in Workers : Process(w) \/ \E e \in Ids : Deliver(w, e)

HourPasses ==
    /\ hour < MaxHour /\ hour' = hour + 1
    /\ UNCHANGED <<worker, reserved, db, now, passed, settled, faults>>

Next ==
    /\ \/ Progress \/ HourPasses
       \/ \E w \in Workers : Crash(w) \/ \E e \in Ids : Redeliver(w, e)
    /\ UNCHANGED batch

Spec == Init /\ [][Next]_vars

\* Workers keep working and the broker keeps delivering unacknowledged events.
FairSpec == Spec /\ WF_vars(Progress /\ UNCHANGED batch)

-----------------------------------------------------------------------------
(***************************************************************************)
(* Properties.                                                             *)
(***************************************************************************)

Stages == Range(Chain) \cup {"idle", "ack", "dlq"}

AtMostOne(rows) == \A x, y \in rows : x = y

\* Every worker is in a stage of the chain with a delivered event, a table
\* holds at most one row per event, and the number of attempts is bounded.
TypeOK ==
    /\ \A w \in Workers :
          /\ worker[w].stage \in Stages /\ worker[w].attempts \in 0..MaxAttempts
          /\ (worker[w].stage = "idle") = (worker[w].event \notin Ids)
          /\ worker[w].blocked # {} => worker[w].stage = "policy"
    /\ \A e \in Ids :
          /\ settled[e] \subseteq {"acked", "dlq"}
          /\ AtMostOne(db.decisions[e]) /\ AtMostOne(db.rows[e]) /\ AtMostOne(db.intents[e])
    /\ batch \in Batches /\ faults \in 0..MaxFaults

\* Whatever the workers remove from an event (the event itself by sampling, a
\* tag by shaping or by the firewall), the flight recorder has the event as it
\* arrived before the loss is visible anywhere (worker.NewFlightRecorder is the
\* first processor of the chain and does not fail open).
EvidenceBeforeLoss ==
    \A e \in Ids :
        \/ e \in db.flight
        \/ /\ \A d \in db.decisions[e] : d.keep /\ d.tags = Events[e].tags
           /\ \A tags \in db.rows[e] \cup db.intents[e] : tags = Events[e].tags
           /\ e \notin db.quarantine

\* An acknowledged event is in the event table and in the routing outbox, or the
\* shaping audit says that it was sampled out: no loss without a record of it
\* (AdaptiveShaper.Process keeps the event when the audit fails).
NoUnauditedLoss ==
    \A e \in Ids :
        "acked" \in settled[e] =>
            \/ db.rows[e] # {} /\ db.intents[e] # {}
            \/ \E d \in db.decisions[e] : ~d.keep

\* No pressure, multiplier, retry or redelivery samples a protected event out:
\* acknowledged, it is persisted and routed (evaluateConfig, isProtected).
ProtectedKept ==
    \A e \in Ids :
        isProtected(Config.protection, Events[e]) /\ "acked" \in settled[e] =>
            db.rows[e] # {} /\ db.intents[e] # {}

\* A change event leaves its marker even when the event is then sampled out
\* (ChangeRecorder runs before AdaptiveShaper).
ChangesRecorded ==
    \A e \in Ids :
        Events[e].marker = "valid" /\ "acked" \in settled[e] => e \in db.markers

\* Retries and redeliveries do not count twice in the shaping statistics
\* (ResolveShapingDecision counts in the transaction that inserts).
StatsExact == \A e \in Ids : db.stats[e] = IF db.decisions[e] = {} THEN 0 ELSE 1

\* Over all workers, the events of one source and type that pass the firewall in
\* one hour carry fewer distinct values of a dimension than the threshold of a
\* policy that removes it, and the event table and the router get no value that
\* did not pass (Engine.EvaluateAt over the shared tracker, which starts again
\* every hour).  The firewall's own mark is added behind it.
FirewallBound ==
    \A d \in Range(Dimensions) \ {Quarantined} :
        LET decision == PolicyDecision(Policy, Events[CHOOSE e \in Ids : TRUE], d)
        IN Removes(decision.action) =>
              /\ \A h \in 0..hour : Cardinality(SeenIn(passed[d], h)) < decision.threshold
              /\ \A e \in Ids : \A tags \in db.rows[e] \cup db.intents[e] :
                    d \in DOMAIN tags => \E h \in 0..hour : <<h, tags[d]>> \in passed[d]

\* The original of event e is in quarantine, or the mark of the firewall says
\* nothing: the event came with it, or shaping gave it to it.
MarkExplained(e, D) ==
    \/ e \in D.quarantine
    \/ Quarantined \in DOMAIN Events[e].tags
    \/ \E d \in D.decisions[e] : Quarantined \in DOMAIN d.tags

\* An event the firewall reduced goes on, marked, only after its original is in
\* quarantine: a failed quarantine write is retried (EvaluateAt returns the
\* error).
QuarantineEvidence ==
    \A e \in Ids :
        (\E tags \in db.rows[e] \cup db.intents[e] : Quarantined \in DOMAIN tags) =>
            MarkExplained(e, db)

\* The router never gets an event the query API does not have.
RoutedPersisted == \A e \in Ids : db.intents[e] # {} => db.rows[e] # {}

\* A second delivery, shaped or filtered differently, does not change the row
\* of the event nor the envelope in the outbox (event_dedup, ON CONFLICT DO
\* NOTHING), as long as nobody prunes the event's row of event_dedup.
FirstWriteWins ==
    [][\A e \in Ids :
          /\ db.rows[e] # {} => db'.rows[e] = db.rows[e]
          /\ db.intents[e] # {} => db'.intents[e] = db.intents[e]]_vars

\* Every event is acknowledged or dead-lettered in the end.
AllSettled == <>(\A e \in batch : settled[e] # {})

\* A sampled-out event stays out: no later attempt persists an event whose
\* durable decision says keep = false (AdaptiveShaper.Process: "the retry cannot
\* change keep/drop behavior").
SampledOutStaysOut ==
    [][\A e \in Ids :
          (\E d \in db.decisions[e] : ~d.keep) /\ db.rows[e] = {} => db'.rows[e] = {}]_vars

\* Nothing is lost without evidence: the flight recorder before any reduction,
\* the audit before a drop, and no drop of a protected event.
LossExplained ==
    /\ EvidenceBeforeLoss
    /\ NoUnauditedLoss
    /\ ProtectedKept

\* What one stage of the chain writes agrees with what the others have written,
\* although the stages share no transaction and any of them may fail.
StagesAgree ==
    /\ TypeOK
    /\ ChangesRecorded
    /\ QuarantineEvidence
    /\ RoutedPersisted
    /\ StatsExact
=============================================================================
