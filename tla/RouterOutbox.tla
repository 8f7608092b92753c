---------------------------- MODULE RouterOutbox ----------------------------
(***************************************************************************)
(* The routing outbox: the planner of the worker (internal/router/         *)
(* planner.go), the tables of migrations/010 (internal/storage/routing.go) *)
(* and the lanes of the router replicas that drain them (internal/router/  *)
(* dispatcher.go).                                                         *)
(*                                                                         *)
(* A row is keyed by an intent <<event, destination>>.  Time is what       *)
(* becomes due: the next attempt of a row that waits, or the end of the    *)
(* lease of a row that is being sent.  A lane works on the copy of the row *)
(* it claimed; its updates go by key and look neither at the status of the *)
(* row nor at who leases it.  The health that deliver records of a         *)
(* destination (RecordRoutingDestinationHealth) is left out: it is a       *)
(* report, and nothing on the way of a delivery reads it.                  *)
(***************************************************************************)
EXTENDS RoutingPlan

CONSTANTS
    Events,          \* event -> its attributes, for the events the worker plans
    Documents,       \* name -> routing document
    Deployments,     \* the active document, the candidate and the events that come
    Replicas,        \* router processes
    Concurrency,     \* Destination.Concurrency
    Healthy,         \* destinations that take whatever they are sent
    Faults,          \* subset of FaultKinds: what may go wrong
    MaxFaults,       \* bound: faults in a behaviour
    MaxRequeues      \* bound: dead letters requeued in a behaviour

VARIABLES
    active, candidate,  \* documents in use (no candidate: the active one)
    planning,        \* event -> "new", "enqueued" or "planned"
    rows,            \* routing_deliveries
    deadLetters,     \* keys of routing_dead_letters
    diffs,           \* event -> routing_shadow_diffs
    lane,            \* what each lane is at
    received,        \* intents whose event the destination got
    staled,          \* history: a lease ended while its lane was at work
    faults, requeues

planner == <<active, candidate, planning>>
tables  == <<rows, deadLetters, diffs>>
vars    == <<planner, tables, lane, received, staled, faults, requeues>>

FaultKinds == {"crash", "pause", "store", "timeout", "redeliver"}

config == Documents[active]
Destinations == DOMAIN config.destinations
PlanOf(document, e) == Plan(Documents[document], Events[e])

AllDestinations == UNION {DOMAIN Documents[n].destinations : n \in DOMAIN Documents}
Intents == (DOMAIN Events) \X AllDestinations
Lanes == Replicas \X EnabledDestinations(config) \X (1..Concurrency)

NoIntent == <<>>
Idle == [pc |-> "idle", intent |-> NoIntent, attempts |-> 0]

\* A deployment names its documents and events; withDestinationDefaults gives a
\* destination without max_attempts five of them.
ASSUME OutboxAssumption ==
    /\ Concurrency \in Nat \ {0}
    /\ Faults \subseteq FaultKinds
    /\ \A p \in Deployments : {p[1], p[2]} \subseteq DOMAIN Documents /\ p[3] \subseteq DOMAIN Events
    /\ \A n \in DOMAIN Documents : \A d \in DOMAIN Documents[n].destinations :
          Documents[n].destinations[d].maxAttempts \in Nat \ {0}

Init ==
    /\ \E p \in Deployments :
          /\ active = p[1] /\ candidate = p[2]
          /\ planning = [e \in p[3] |-> "new"]
          /\ Validate(Documents[active]) /\ Validate(Documents[candidate])
    /\ rows = <<>> /\ deadLetters = {} /\ diffs = <<>>
    /\ lane = [l \in Lanes |-> Idle]
    /\ received = {}
    /\ staled = FALSE /\ faults = 0 /\ requeues = 0

Fault(k) == k \in Faults /\ faults < MaxFaults /\ faults' = faults + 1

-----------------------------------------------------------------------------
(* The planner.                                                            *)

\* INSERT ... ON CONFLICT DO NOTHING of pending rows, due at once.  created
\* stands for created_at: the rows of one transaction share it.
Inserted(table, intents) ==
    [i \in DOMAIN table \cup intents |->
        IF i \in DOMAIN table THEN table[i]
        ELSE [status |-> "pending", attempts |-> 0, due |-> TRUE,
              created |-> Cardinality(DOMAIN table)]]

\* EnqueueRoutingPlan, in one transaction.
EnqueueRoutingPlan(e) ==
    /\ planning[e] = "new"
    /\ rows' = Inserted(rows, {e} \X PlanOf(active, e))
    /\ planning' = [planning EXCEPT ![e] = "enqueued"]
    /\ UNCHANGED <<active, candidate, deadLetters, diffs, lane, received, staled, faults, requeues>>

\* The rest of Planner.Process: the difference with the candidate's plan.
RecordRoutingShadowDiff(e) ==
    /\ planning[e] = "enqueued"
    /\ planning' = [planning EXCEPT ![e] = "planned"]
    /\ LET plan == PlanOf(active, e)
           shadow == PlanOf(candidate, e)
       IN diffs' = IF Changed(plan, shadow)
                   THEN [x \in DOMAIN diffs \cup {e} |->
                            IF x = e THEN ComparePlans(plan, shadow) ELSE diffs[x]]
                   ELSE diffs
    /\ UNCHANGED <<active, candidate, rows, deadLetters, lane, received, staled, faults, requeues>>

\* The worker handles the event again: a step failed, or its offset was not
\* committed.
Redeliver(e) ==
    /\ planning[e] # "new"
    /\ Fault("redeliver")
    /\ planning' = [planning EXCEPT ![e] = "new"]
    /\ UNCHANGED <<active, candidate, tables, lane, received, staled, requeues>>

-----------------------------------------------------------------------------
(* The lanes.                                                              *)

\* Mutations: a leased row can be claimed; a row is not claimed again once its
\* lease has ended; a row that waits for its retry is never claimed.
ClaimableThroughLease(r) == r.status = "sending" \/ (r.status \in {"pending", "retry"} /\ r.due)
ClaimableUnleased(r) == r.status \in {"pending", "retry"} /\ r.due
ClaimableNoRetry(r) == r.status \in {"pending", "sending"} /\ r.due

\* The WHERE clause of ClaimRoutingDelivery.
Claimable(r) == r.status \in {"pending", "retry", "sending"} /\ r.due

Due(d) == {i \in DOMAIN rows : i[2] = d /\ Claimable(rows[i])}

\* ClaimRoutingDelivery: one of the oldest due rows of the destination.
Claim(l) ==
    /\ lane[l].pc = "idle"
    /\ \E i \in Due(l[2]) :
          LET attempts == rows[i].attempts + 1 IN
          /\ \A j \in Due(l[2]) : rows[i].created <= rows[j].created
          /\ rows' = [rows EXCEPT ![i].status = "sending", ![i].attempts = attempts, ![i].due = FALSE]
          /\ lane' = [lane EXCEPT ![l] = [pc |-> "send", intent |-> i, attempts |-> attempts]]
    /\ UNCHANGED <<planner, deadLetters, diffs, received, staled, faults, requeues>>

\* Sender.Send succeeds.
SendSucceeds(l) ==
    /\ lane[l].pc = "send"
    /\ received' = received \cup {lane[l].intent}
    /\ lane' = [lane EXCEPT ![l].pc = "sent"]
    /\ UNCHANGED <<planner, tables, staled, faults, requeues>>

Exhausted(i, attempts) == attempts >= config.destinations[i[2]].maxAttempts

\* It fails, with an error that is retryable or not.
SendFails(l) ==
    /\ lane[l].pc = "send"
    /\ lane[l].intent[2] \notin Healthy
    /\ \E retryable \in BOOLEAN :
          lane' = [lane EXCEPT ![l].pc =
                      IF retryable /\ ~Exhausted(lane[l].intent, lane[l].attempts) THEN "retry" ELSE "fail"]
    /\ UNCHANGED <<planner, rows, deadLetters, diffs, received, staled, faults, requeues>>

\* The destination takes the event and the answer is lost: a retryable error.
SendTimesOut(l) ==
    /\ lane[l].pc = "send"
    /\ lane[l].intent[2] \notin Healthy
    /\ Fault("timeout")
    /\ received' = received \cup {lane[l].intent}
    /\ lane' = [lane EXCEPT ![l].pc = IF Exhausted(lane[l].intent, lane[l].attempts) THEN "fail" ELSE "retry"]
    /\ UNCHANGED <<planner, rows, deadLetters, diffs, staled, requeues>>

MarkRoutingDelivered(l) ==
    /\ lane[l].pc = "sent"
    /\ rows' = [rows EXCEPT ![lane[l].intent].status = "delivered", ![lane[l].intent].due = FALSE]
    /\ lane' = [lane EXCEPT ![l] = Idle]
    /\ UNCHANGED <<planner, deadLetters, diffs, received, staled, faults, requeues>>

\* next_attempt_at lies ahead: retryDelay is positive for the attempts here.
MarkRoutingRetry(l) ==
    /\ lane[l].pc = "retry"
    /\ rows' = [rows EXCEPT ![lane[l].intent].status = "retry", ![lane[l].intent].due = FALSE]
    /\ lane' = [lane EXCEPT ![l] = Idle]
    /\ UNCHANGED <<planner, deadLetters, diffs, received, staled, faults, requeues>>

FallbackOf(i) ==
    IF i[2] \notin Destinations \/ config.destinations[i[2]].fallback = None THEN NoIntent
    ELSE <<i[1], config.destinations[i[2]].fallback>>

\* Mutation: the fallback is left to another transaction that never comes.
DeadLetteredAlone(i) ==
    [rows EXCEPT ![i].status = "dead_letter", ![i].due = FALSE]

\* The tables after DeadLetterRoutingDelivery: terminalFailure passes the
\* fallback when it is configured and enabled.
DeadLettered(i) ==
    LET dead == [rows EXCEPT ![i].status = "dead_letter", ![i].due = FALSE]
    IN IF FallbackOf(i) = NoIntent \/ ~Usable(config.destinations, FallbackOf(i)[2]) THEN dead
       ELSE Inserted(dead, {FallbackOf(i)})

DeadLetterRoutingDelivery(l) ==
    /\ lane[l].pc = "fail"
    /\ rows' = DeadLettered(lane[l].intent)
    /\ deadLetters' = deadLetters \cup {lane[l].intent}
    /\ lane' = [lane EXCEPT ![l] = Idle]
    /\ UNCHANGED <<planner, diffs, received, staled, faults, requeues>>

\* The store answers a mark with an error: the lane goes on with other work and
\* the row stays leased.
MarkFails(l) ==
    /\ lane[l].pc \in {"sent", "retry", "fail"}
    /\ Fault("store")
    /\ lane' = [lane EXCEPT ![l] = Idle]
    /\ UNCHANGED <<planner, tables, received, staled, requeues>>

\* A replica dies and is started again: its lanes poll, its claims stay.
Crash(r) ==
    /\ \E l \in Lanes : l[1] = r /\ lane[l].pc # "idle"
    /\ Fault("crash")
    /\ lane' = [l \in Lanes |-> IF l[1] = r THEN Idle ELSE lane[l]]
    /\ UNCHANGED <<planner, tables, received, staled, requeues>>

-----------------------------------------------------------------------------
(* Time, and the operator.                                                 *)

RetryDue(i) ==
    /\ rows[i].status = "retry" /\ ~rows[i].due
    /\ rows' = [rows EXCEPT ![i].due = TRUE]
    /\ UNCHANGED <<planner, deadLetters, diffs, lane, received, staled, faults, requeues>>

AtWork(i) == {l \in Lanes : lane[l].intent = i}

\* lease_until passes.  A lane that is still at work has been slower than its
\* lease; nothing renews it.
LeaseEnds(i) ==
    /\ rows[i].status = "sending" /\ ~rows[i].due
    /\ IF AtWork(i) = {} THEN UNCHANGED <<staled, faults>> ELSE Fault("pause") /\ staled' = TRUE
    /\ rows' = [rows EXCEPT ![i].due = TRUE]
    /\ UNCHANGED <<planner, deadLetters, diffs, lane, received, requeues>>

\* RequeueRoutingDeadLetter: one transaction, refused unless the row is dead.
RequeueRoutingDeadLetter(i) ==
    /\ rows[i].status = "dead_letter"
    /\ rows' = [rows EXCEPT ![i] = [@ EXCEPT !.status = "retry", !.attempts = 0, !.due = TRUE]]
    /\ deadLetters' = deadLetters \ {i}

Requeue(i) ==
    /\ requeues < MaxRequeues
    /\ requeues' = requeues + 1
    /\ RequeueRoutingDeadLetter(i)
    /\ UNCHANGED <<planner, diffs, lane, received, staled, faults>>

-----------------------------------------------------------------------------

Planning(e) == EnqueueRoutingPlan(e) \/ RecordRoutingShadowDiff(e)

runLane(l) ==
    \/ Claim(l) \/ SendSucceeds(l) \/ SendFails(l) \/ SendTimesOut(l)
    \/ MarkRoutingDelivered(l) \/ MarkRoutingRetry(l) \/ DeadLetterRoutingDelivery(l)

Next ==
    \/ \E e \in DOMAIN planning : Planning(e) \/ Redeliver(e)
    \/ \E l \in Lanes : runLane(l) \/ MarkFails(l)
    \/ \E r \in Replicas : Crash(r)
    \/ \E i \in DOMAIN rows : RetryDue(i) \/ LeaseEnds(i) \/ Requeue(i)

Spec == Init /\ [][Next]_vars

\* The worker plans what it is given, the lanes poll and finish what they
\* claimed, and time passes for the rows that wait for it.  A slow lane is a
\* fault, so time is not owed to a row some lane works on.
Progress ==
    \/ \E e \in DOMAIN planning : Planning(e)
    \/ \E l \in Lanes : runLane(l)
    \/ \E i \in DOMAIN rows : RetryDue(i) \/ (AtWork(i) = {} /\ LeaseEnds(i))

FairSpec == Spec /\ WF_vars(Progress)

-----------------------------------------------------------------------------
(* Properties.                                                             *)

\* The tables hold rows of the statuses of migrations/010, keyed by known
\* intents, and the lanes are at one of the steps of deliver.
TypeOK ==
    /\ \A e \in DOMAIN planning : planning[e] \in {"new", "enqueued", "planned"}
    /\ DOMAIN rows \subseteq Intents
    /\ \A i \in DOMAIN rows :
          /\ rows[i].status \in {"pending", "sending", "retry", "delivered", "dead_letter"}
          /\ rows[i].attempts \in Nat /\ rows[i].due \in BOOLEAN
    /\ deadLetters \subseteq DOMAIN rows /\ received \subseteq DOMAIN rows
    /\ \A l \in Lanes : lane[l].pc \in {"idle", "send", "sent", "retry", "fail"}

StateOf(status) ==
    IF status = "delivered" THEN "delivered" ELSE IF status = "dead_letter" THEN "dead" ELSE "open"

Contract == INSTANCE RoutingContract WITH
    Intents <- Intents,
    NoFallback <- NoIntent,
    fallback <- [i \in Intents |-> FallbackOf(i)],
    state <- [i \in DOMAIN rows |-> StateOf(rows[i].status)],
    received <- received

\* The outbox implements its contract, through crashes, leases that end under a
\* working lane, lost answers, redelivered events and requeued dead letters: no
\* intent disappears, delivered means received, and a delivery is given up
\* together with the insert of its failure fallback (dispatcher.go terminalFailure).
ImplementsContract == Contract!Spec

\* A row that is dead has its dead letter, so an operator can find and requeue
\* it; and unless a lease ended under a working lane (whose update by key may
\* then overwrite a later one), a dead letter belongs to a dead row.
DeadLetterConsistent ==
    /\ \A i \in DOMAIN rows : rows[i].status = "dead_letter" => i \in deadLetters
    /\ ~staled => \A i \in deadLetters : rows[i].status = "dead_letter"

\* FOR UPDATE SKIP LOCKED and the lease: lanes of all replicas never work on the
\* same row at the same time, unless a lease ended under one of them.
LeaseExclusive ==
    ~staled => \A i \in DOMAIN rows : Cardinality(AtWork(i)) <= 1

\* Attempts are bounded: a row goes beyond max_attempts only by claims that a
\* crash, a slow lane or a failed mark left without a result.
RetriesBounded ==
    \A i \in DOMAIN rows : rows[i].attempts <= config.destinations[i[2]].maxAttempts + faults

\* "TelemetryForge does not acknowledge a source record if its required routing
\* intents cannot be recorded" (docs/adr/0030): once an event is planned, every
\* destination of every matching rule up to the first with stop has an intent,
\* the fallback has one when no rule matched, and the difference with the
\* candidate is on record exactly when the destination sets differ.
PlanDurable ==
    \A e \in DOMAIN planning : planning[e] = "planned" =>
        LET rules == config.rules
            matching == {k \in DOMAIN rules : ruleMatches(rules[k], Events[e])}
            wanted == UNION {rules[k].destinations :
                                k \in {n \in matching : \A j \in matching : j < n => ~rules[j].stop}}
        IN /\ {e} \X wanted \subseteq DOMAIN rows
           /\ matching = {} /\ config.fallback # None => <<e, config.fallback>> \in DOMAIN rows
           /\ e \in DOMAIN diffs <=> PlanOf(active, e) # PlanOf(candidate, e)

\* Every intent is in the end delivered or dead-lettered, whatever the
\* destinations do and although lanes crash.
AllSettled ==
    <>[](\A i \in DOMAIN rows : rows[i].status \in {"delivered", "dead_letter"})

\* "A broken destination must not stall healthy destinations": what is planned
\* for a destination that takes everything is in the end delivered there, while
\* the others fail.
HealthyDelivered ==
    \A e \in DOMAIN Events : \A d \in Healthy :
        (<<e, d>> \in DOMAIN rows) ~> (<<e, d>> \in DOMAIN rows /\ rows[<<e, d>>].status = "delivered")

\* The rows, the dead letters, the leases and the plans agree: what any one
\* transaction of ClaimRoutingDelivery, the marks, DeadLetterRoutingDelivery,
\* EnqueueRoutingPlan or RequeueRoutingDeadLetter leaves to another.
OutboxConsistent ==
    /\ TypeOK
    /\ DeadLetterConsistent
    /\ LeaseExclusive
    /\ RetriesBounded
    /\ PlanDurable
=============================================================================
