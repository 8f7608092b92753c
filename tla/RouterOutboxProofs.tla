------------------------- MODULE RouterOutboxProofs -------------------------
(***************************************************************************)
(* The routing outbox keeps its tables, leases and plans consistent, and   *)
(* implements RoutingContract, for any documents that Validate accepts,    *)
(* any number of replicas, lanes and events, and any number of faults.     *)
(***************************************************************************)
EXTENDS RouterOutbox, FiniteSetTheorems, TLAPS

-----------------------------------------------------------------------------
(* The inductive invariant.                                                *)

Statuses == {"pending", "sending", "retry", "delivered", "dead_letter"}
Times == {Cardinality(S) : S \in SUBSET Intents}
Row == [status : Statuses, attempts : Nat, due : BOOLEAN, created : Times]
LaneState == [pc : {"idle", "send", "sent", "retry", "fail"},
              intent : Intents \cup {NoIntent}, attempts : Nat]

MaxAttemptsOf(i) == config.destinations[i[2]].maxAttempts

\* What Init establishes once and for all, and the types of the rest.
Typed ==
    /\ active \in DOMAIN Documents /\ candidate \in DOMAIN Documents
    /\ Validate(config)
    /\ planning \in [DOMAIN planning -> {"new", "enqueued", "planned"}]
    /\ DOMAIN planning \subseteq DOMAIN Events
    /\ rows \in [DOMAIN rows -> Row]
    /\ DOMAIN rows \subseteq (DOMAIN Events) \X Destinations
    /\ lane \in [Lanes -> LaneState]
    /\ staled \in BOOLEAN /\ faults \in Nat

\* A lane at work has the intent of a row, and what it is about to write is true.
LanesHonest ==
    \A l \in Lanes :
        /\ lane[l].pc = "idle" <=> lane[l].intent = NoIntent
        /\ lane[l].pc # "idle" => lane[l].intent \in DOMAIN rows
        /\ lane[l].pc = "sent" => lane[l].intent \in received
        /\ lane[l].pc = "retry" => lane[l].attempts < MaxAttemptsOf(lane[l].intent)

\* A row that is not leased could be claimed by one lane more.
Unleased(r) == IF r.status = "sending" /\ ~r.due THEN 0 ELSE 1

\* The lanes at work whose failure would be followed by a retry.
Early(i) == {l \in AtWork(i) : lane[l].attempts < MaxAttemptsOf(i)}

\* The row will be claimed again without any lane.
Waiting(r) == IF r.status \in {"pending", "retry"} \/ (r.status = "sending" /\ r.due) THEN 1 ELSE 0

Slack == IF staled THEN faults ELSE 0

\* Lanes share a row only after a lease ended under one of them.
LeaseAt(i) ==
    /\ IsFiniteSet(AtWork(i))
    /\ Cardinality(AtWork(i)) + Unleased(rows[i]) <= 1 + Slack

\* The attempts a row may still come to, and those it has come to when the lane
\* that had it is gone.
AttemptsAt(i) ==
    /\ rows[i].attempts + Cardinality(Early(i)) + Waiting(rows[i]) <= MaxAttemptsOf(i) + faults
    /\ rows[i].status = "sending" /\ ~rows[i].due /\ AtWork(i) = {} =>
          rows[i].attempts < MaxAttemptsOf(i) + faults

DeadAt(i) ==
    /\ rows[i].status = "dead_letter" => i \in deadLetters
    /\ ~staled /\ i \in deadLetters => rows[i].status = "dead_letter"

RowInv(i) == LeaseAt(i) /\ AttemptsAt(i) /\ DeadAt(i)

PlanInv ==
    /\ \A e \in DOMAIN planning :
          planning[e] \in {"enqueued", "planned"} => {e} \X PlanOf(active, e) \subseteq DOMAIN rows
    /\ \A e \in DOMAIN diffs : Changed(PlanOf(active, e), PlanOf(candidate, e))
    /\ \A e \in DOMAIN planning :
          planning[e] = "planned" /\ Changed(PlanOf(active, e), PlanOf(candidate, e)) => e \in DOMAIN diffs

IInv ==
    /\ Typed
    /\ LanesHonest
    /\ received \subseteq DOMAIN rows /\ deadLetters \subseteq DOMAIN rows
    /\ \A i \in DOMAIN rows : RowInv(i)
    /\ PlanInv

-----------------------------------------------------------------------------
(* The documents do not change, and neither does what is read from them.   *)

\* No key of a table is the intent of an idle lane, and the key of a row is an
\* intent of the documents.
LEMMA Keys ==
    ASSUME Typed
    PROVE  /\ (DOMAIN Events) \X Destinations \subseteq Intents
           /\ NoIntent \notin Intents
           /\ \A i \in (DOMAIN Events) \X Destinations : MaxAttemptsOf(i) \in Nat \ {0}
<1>1. (DOMAIN Events) \X Destinations \subseteq Intents
  BY Zenon DEF Typed, Intents, Destinations, AllDestinations, config
<1>2. NoIntent \notin Intents
  BY DEF NoIntent, Intents
<1>3. \A i \in (DOMAIN Events) \X Destinations : MaxAttemptsOf(i) \in Nat \ {0}
  BY OutboxAssumption, Zenon DEF Typed, MaxAttemptsOf, Destinations, config
<1> QED  BY <1>1, <1>2, <1>3, Zenon

\* A plan names destinations of the document: Validate has seen to it.
LEMMA PlanInDocument ==
    ASSUME Typed, NEW e
    PROVE  PlanOf(active, e) \subseteq Destinations
BY Zenon DEF Typed, PlanOf, Plan, Validate, Usable, EnabledDestinations, Destinations, config

Same ==
    /\ active' = active /\ candidate' = candidate

\* What is read from the documents is the same after every step.
LEMMA Reading ==
    ASSUME Same
    PROVE  /\ config' = config /\ Destinations' = Destinations /\ Lanes' = Lanes /\ Intents' = Intents
           /\ \A i : MaxAttemptsOf(i)' = MaxAttemptsOf(i)
           /\ \A e : PlanOf(active, e)' = PlanOf(active, e)
           /\ \A e : PlanOf(candidate, e)' = PlanOf(candidate, e)
BY Zenon DEF Same, config, Destinations, Lanes, Intents, MaxAttemptsOf, PlanOf

\* The lanes at work on a row after a lane turned to something else.
LEMMA LaneTurns ==
    ASSUME Typed, Lanes' = Lanes, NEW l \in Lanes, NEW s \in LaneState,
           lane' = [lane EXCEPT ![l] = s], NEW i
    PROVE  /\ s.intent = i => AtWork(i)' = AtWork(i) \cup {l}
           /\ s.intent # i => AtWork(i)' = AtWork(i) \ {l}
BY Zenon DEF Typed, AtWork

\* The counters of a row are numbers.
LEMMA Counters ==
    ASSUME Typed, NEW i \in DOMAIN rows, LeaseAt(i)
    PROVE  /\ rows[i] \in Row /\ rows[i].attempts \in Nat /\ rows[i].due \in BOOLEAN
           /\ MaxAttemptsOf(i) \in Nat \ {0}
           /\ Early(i) \subseteq AtWork(i) /\ IsFiniteSet(Early(i))
           /\ Cardinality(AtWork(i)) \in Nat /\ Cardinality(Early(i)) \in Nat
           /\ Cardinality(Early(i)) <= Cardinality(AtWork(i))
           /\ Unleased(rows[i]) \in {0, 1} /\ Waiting(rows[i]) \in {0, 1}
           /\ Slack \in Nat /\ Slack <= faults /\ faults \in Nat
<1>1. rows[i] \in Row /\ rows[i].attempts \in Nat /\ rows[i].due \in BOOLEAN
  BY Zenon DEF Typed, Row
<1>2. MaxAttemptsOf(i) \in Nat \ {0}
  BY Keys, Zenon DEF Typed
<1>3. Early(i) \subseteq AtWork(i)
  BY Zenon DEF Early
<1>4. /\ IsFiniteSet(Early(i)) /\ Cardinality(Early(i)) \in Nat /\ Cardinality(AtWork(i)) \in Nat
      /\ Cardinality(Early(i)) <= Cardinality(AtWork(i))
  BY <1>3, FS_Subset, FS_CardinalityType, Zenon DEF LeaseAt
<1>5. Unleased(rows[i]) \in {0, 1} /\ Waiting(rows[i]) \in {0, 1}
  BY Zenon DEF Unleased, Waiting
<1>6. Slack \in Nat /\ Slack <= faults /\ faults \in Nat
  BY DEF Slack, Typed
<1> QED  BY <1>1, <1>2, <1>3, <1>4, <1>5, <1>6, Zenon

-----------------------------------------------------------------------------
(* What happens to one row while the lanes move.                           *)

\* A row whose lanes keep their claims has the same lanes at work.
LEMMA LanesStay ==
    ASSUME Typed, Same, NEW i,
           \A l \in Lanes : lane[l].intent = i \/ lane'[l].intent = i =>
               lane'[l].intent = lane[l].intent /\ lane'[l].attempts = lane[l].attempts
    PROVE  AtWork(i)' = AtWork(i) /\ Early(i)' = Early(i)
<1>1. AtWork(i)' = AtWork(i)
  BY Reading, Zenon DEF AtWork
<1>2. \A l \in AtWork(i) : lane'[l].attempts = lane[l].attempts
  BY Zenon DEF AtWork
<1>3. Early(i)' = Early(i)
  BY <1>1, <1>2, Reading DEF Early
<1> QED  BY <1>1, <1>3, Zenon

\* A row nobody touches keeps its invariant, whatever else goes wrong.
LEMMA RowKept ==
    ASSUME Typed, Same, NEW i \in DOMAIN rows, RowInv(i),
           rows'[i] = rows[i], AtWork(i)' = AtWork(i), Early(i)' = Early(i),
           faults' \in Nat, faults' >= faults, staled' \in BOOLEAN, staled => staled',
           i \in deadLetters' <=> i \in deadLetters
    PROVE  RowInv(i)'
<1> USE Counters DEF RowInv
<1>1. Slack' \in Nat /\ Slack' >= Slack
  BY DEF Slack, Typed
<1>2. LeaseAt(i)'
  BY <1>1 DEF LeaseAt
<1>3. AttemptsAt(i)'
  BY Reading DEF AttemptsAt
<1>4. DeadAt(i)'
  BY Zenon DEF DeadAt, Typed
<1> QED  BY <1>2, <1>3, <1>4, Zenon

\* Lanes that leave a row as it is, for a fault: the row is not claimed again
\* until its lease ends, and the fault pays for that claim.
LEMMA RowAbandoned ==
    ASSUME Typed, Same, NEW i \in DOMAIN rows, RowInv(i),
           rows'[i] = rows[i], AtWork(i)' \subseteq AtWork(i), Early(i)' \subseteq Early(i),
           faults' = faults + 1, staled' = staled, deadLetters' = deadLetters
    PROVE  RowInv(i)'
<1> USE Counters DEF RowInv
<1>1. Slack' \in Nat /\ Slack' >= Slack
  BY DEF Slack, Typed
<1>2. /\ IsFiniteSet(AtWork(i)') /\ Cardinality(AtWork(i)') \in Nat
      /\ Cardinality(AtWork(i)') <= Cardinality(AtWork(i))
  BY FS_Subset, FS_CardinalityType, Zenon DEF LeaseAt
<1>3. Cardinality(Early(i)') \in Nat /\ Cardinality(Early(i)') <= Cardinality(Early(i))
  BY FS_Subset, FS_CardinalityType, Zenon
<1>4. LeaseAt(i)'
  BY <1>1, <1>2 DEF LeaseAt
<1>5. AttemptsAt(i)'
  BY <1>3, Reading DEF AttemptsAt
<1>6. DeadAt(i)'
  BY Zenon DEF DeadAt
<1> QED  BY <1>4, <1>5, <1>6, Zenon

\* A row that was not there has no lane.
LEMMA RowInserted ==
    ASSUME Typed, Same, NEW i \in (DOMAIN Events) \X Destinations, i \notin DOMAIN rows,
           LanesHonest, deadLetters \subseteq DOMAIN rows, i \notin deadLetters',
           faults' = faults, staled' = staled,
           rows'[i].status = "pending", rows'[i].attempts = 0,
           \A l \in Lanes : lane'[l].intent \in {NoIntent, lane[l].intent}
    PROVE  RowInv(i)'
<1>1. i # NoIntent /\ MaxAttemptsOf(i) \in Nat \ {0}
  BY Keys, Zenon
<1>2. AtWork(i)' = {} /\ Early(i)' = {}
  BY <1>1, Reading DEF LanesHonest, AtWork, Early
<1>3. Unleased(rows[i])' = 1 /\ Waiting(rows[i])' = 1
  BY Zenon DEF Unleased, Waiting
<1>4. Slack' \in Nat /\ faults' \in Nat
  BY Zenon DEF Slack, Typed
<1>5. LeaseAt(i)'
  BY <1>2, <1>3, <1>4, FS_EmptySet DEF LeaseAt
<1>6. AttemptsAt(i)'
  BY <1>1, <1>2, <1>3, <1>4, FS_EmptySet, Reading DEF AttemptsAt
<1>7. DeadAt(i)'
  BY Zenon DEF DeadAt
<1> QED  BY <1>5, <1>6, <1>7, Zenon DEF RowInv

\* The lane that reports on a row leaves it.
LEMMA LaneLeaves ==
    ASSUME Typed, Same, NEW l \in Lanes, NEW i \in DOMAIN rows, lane[l].intent = i, LeaseAt(i),
           lane' = [lane EXCEPT ![l] = Idle]
    PROVE  /\ l \in AtWork(i)
           /\ IsFiniteSet(AtWork(i)') /\ Cardinality(AtWork(i)') = Cardinality(AtWork(i)) - 1
           /\ Cardinality(Early(i)') \in Nat
           /\ Cardinality(Early(i)') = IF l \in Early(i) THEN Cardinality(Early(i)) - 1
                                       ELSE Cardinality(Early(i))
<1>1. i # NoIntent /\ Idle \in LaneState /\ Idle.intent = NoIntent
  BY Keys, Zenon DEF Idle, LaneState, Typed
<1>2. l \in AtWork(i)
  BY Zenon DEF AtWork
<1>3. AtWork(i)' = AtWork(i) \ {l}
  BY <1>1, LaneTurns, Reading, Zenon
<1>4. \A k \in AtWork(i) \ {l} : lane'[k] = lane[k]
  BY Zenon DEF AtWork, Typed
<1>5. Early(i)' = Early(i) \ {l}
  BY <1>3, <1>4, Reading DEF Early
<1>6. IsFiniteSet(AtWork(i)) /\ IsFiniteSet(Early(i))
  BY Counters, Zenon DEF LeaseAt
<1>7. IsFiniteSet(AtWork(i)') /\ Cardinality(AtWork(i)') = Cardinality(AtWork(i)) - 1
  BY <1>2, <1>3, <1>6, FS_RemoveElement, Zenon
<1>8. /\ Cardinality(Early(i)') \in Nat
      /\ Cardinality(Early(i)') = IF l \in Early(i) THEN Cardinality(Early(i)) - 1
                                  ELSE Cardinality(Early(i))
  BY <1>5, <1>6, FS_RemoveElement, FS_CardinalityType
<1> QED  BY <1>2, <1>7, <1>8, Zenon

-----------------------------------------------------------------------------
(* What every step owes to the parts of the invariant it does not touch.   *)

\* The types, when the documents stay.
LEMMA TypesKept ==
    ASSUME Typed, Same,
           planning' \in [DOMAIN planning -> {"new", "enqueued", "planned"}],
           rows' \in [DOMAIN rows' -> Row], DOMAIN rows' \subseteq (DOMAIN Events) \X Destinations,
           lane' \in [Lanes -> LaneState], staled' \in BOOLEAN, faults' \in Nat
    PROVE  Typed'
<1>1. Lanes' = Lanes /\ Destinations' = Destinations /\ config' = config
  BY Reading, Zenon
<1>2. planning' \in [DOMAIN planning' -> {"new", "enqueued", "planned"}]
  BY Zenon
<1>3. Validate(config)' /\ active' \in DOMAIN Documents /\ candidate' \in DOMAIN Documents
  BY Zenon DEF Typed, Same, config
<1> QED  BY <1>1, <1>2, <1>3, Zenon DEF Typed

\* An update of one row is an update of one row.
LEMMA RowUpdated ==
    ASSUME Typed, NEW i \in DOMAIN rows, NEW r \in Row, rows' = [rows EXCEPT ![i] = r]
    PROVE  /\ DOMAIN rows' = DOMAIN rows /\ rows' \in [DOMAIN rows' -> Row]
           /\ DOMAIN rows' \subseteq (DOMAIN Events) \X Destinations
           /\ rows'[i] = r /\ \A j \in DOMAIN rows \ {i} : rows'[j] = rows[j]
BY Zenon DEF Typed

\* One lane moves, the rows and the events received only grow in number.
LEMMA LaneMoves ==
    ASSUME Typed, Same, LanesHonest, NEW l \in Lanes, NEW s \in LaneState,
           lane' = [lane EXCEPT ![l] = s],
           DOMAIN rows \subseteq DOMAIN rows', received \subseteq received',
           s.pc = "idle" <=> s.intent = NoIntent,
           s.pc # "idle" => s.intent \in DOMAIN rows',
           s.pc = "sent" => s.intent \in received',
           s.pc = "retry" => s.attempts < MaxAttemptsOf(s.intent)
    PROVE  LanesHonest' /\ lane' \in [Lanes -> LaneState]
<1>1. lane' \in [Lanes -> LaneState] /\ lane'[l] = s /\ \A k \in Lanes \ {l} : lane'[k] = lane[k]
  BY Zenon DEF Typed
<1>2. Lanes' = Lanes /\ \A i : MaxAttemptsOf(i)' = MaxAttemptsOf(i)
  BY Reading, Zenon
<1> QED  BY <1>1, <1>2, Zenon DEF LanesHonest

\* The rows grow in number; the plans on record stay.
LEMMA PlansKept ==
    ASSUME Same, PlanInv, planning' = planning, diffs' = diffs, DOMAIN rows \subseteq DOMAIN rows'
    PROVE  PlanInv'
BY Reading, Zenon DEF PlanInv, Same

-----------------------------------------------------------------------------
(* Every step keeps the invariant.                                         *)

\* EnqueueRoutingPlan inserts rows that nobody works on.
LEMMA EnqueueKeeps ==
    ASSUME IInv, NEW e \in DOMAIN planning, EnqueueRoutingPlan(e)
    PROVE  IInv'
<1> DEFINE new == {e} \X PlanOf(active, e)
<1>0. /\ Same /\ rows' = Inserted(rows, new) /\ planning' = [planning EXCEPT ![e] = "enqueued"]
      /\ UNCHANGED <<deadLetters, diffs, lane, received, staled, faults>>
  BY Zenon DEF EnqueueRoutingPlan, Same
<1>1. Typed /\ LanesHonest /\ PlanInv /\ Lanes' = Lanes
  BY <1>0, Reading, Zenon DEF IInv
<1>2. new \subseteq (DOMAIN Events) \X Destinations
  BY <1>1, PlanInDocument, Zenon DEF Typed
<1>3. /\ DOMAIN rows' = DOMAIN rows \cup new
      /\ \A i \in DOMAIN rows : rows'[i] = rows[i]
      /\ \A i \in DOMAIN rows' \ DOMAIN rows :
            rows'[i] = [status |-> "pending", attempts |-> 0, due |-> TRUE,
                        created |-> Cardinality(DOMAIN rows)]
  BY <1>0, Zenon DEF Inserted
<1>4. DOMAIN rows \in SUBSET Intents
  BY <1>1, Keys, Zenon DEF Typed
<1>5. rows' \in [DOMAIN rows' -> Row] /\ DOMAIN rows' \subseteq (DOMAIN Events) \X Destinations
  <2>1. [status |-> "pending", attempts |-> 0, due |-> TRUE, created |-> Cardinality(DOMAIN rows)] \in Row
    BY <1>4, Zenon DEF Row, Statuses, Times
  <2>2. \A i \in DOMAIN rows' : rows'[i] \in Row
    BY <1>1, <1>3, <2>1, Zenon DEF Typed
  <2>3. rows' = [i \in DOMAIN rows' |-> rows'[i]]
    BY <1>0, Zenon DEF Inserted
  <2> QED  BY <1>1, <1>2, <1>3, <2>2, <2>3, Zenon DEF Typed
<1>6. Typed'
  BY <1>0, <1>1, <1>5, TypesKept, Zenon DEF Typed
<1>7. LanesHonest'
  BY <1>0, <1>1, <1>3, Reading DEF LanesHonest
<1>8. \A i \in DOMAIN rows' : RowInv(i)'
  <2> TAKE i \in DOMAIN rows'
  <2>1. CASE i \in DOMAIN rows
    <3>1. AtWork(i)' = AtWork(i) /\ Early(i)' = Early(i)
      BY <1>0, <1>1, LanesStay, Zenon
    <3>2. RowInv(i) /\ rows'[i] = rows[i]
      BY <1>3, <2>1, Zenon DEF IInv
    <3>3. faults' \in Nat /\ faults' >= faults /\ staled' \in BOOLEAN
      BY <1>0, <1>1 DEF Typed
    <3> QED  BY <1>0, <1>1, <2>1, <3>1, <3>2, <3>3, RowKept, Zenon
  <2>2. CASE i \notin DOMAIN rows
    <3>1. i \in (DOMAIN Events) \X Destinations /\ rows'[i].status = "pending" /\ rows'[i].attempts = 0
      BY <1>2, <1>3, <2>2
    <3>2. deadLetters \subseteq DOMAIN rows /\ i \notin deadLetters'
      BY <1>0, <2>2, Zenon DEF IInv
    <3> QED  BY <1>0, <1>1, <2>2, <3>1, <3>2, RowInserted, Zenon
  <2> QED  BY <2>1, <2>2, Zenon
<1>9. PlanInv'
  BY <1>0, <1>1, <1>3, Reading, Zenon DEF PlanInv, Same, Typed
<1> QED  BY <1>0, <1>3, <1>6, <1>7, <1>8, <1>9, Zenon DEF IInv

\* A step of the planner that leaves rows and lanes alone.
LEMMA TablesKept ==
    ASSUME IInv, Same, UNCHANGED <<rows, deadLetters, lane, received, staled>>,
           planning' \in [DOMAIN planning -> {"new", "enqueued", "planned"}],
           faults' \in {faults, faults + 1}, PlanInv'
    PROVE  IInv'
<1>1. Typed /\ LanesHonest /\ faults' \in Nat /\ faults' >= faults
  BY DEF IInv, Typed
<1>2. Typed'
  BY <1>1, TypesKept, Zenon DEF Typed
<1>3. LanesHonest'
  BY <1>1, Reading, Zenon DEF LanesHonest
<1>4. \A i \in DOMAIN rows' : RowInv(i)'
  <2> TAKE i \in DOMAIN rows'
  <2>1. AtWork(i)' = AtWork(i) /\ Early(i)' = Early(i)
    BY <1>1, LanesStay, Zenon
  <2> QED  BY <1>1, <2>1, RowKept, Zenon DEF IInv, Typed
<1> QED  BY <1>2, <1>3, <1>4, Zenon DEF IInv

\* RecordRoutingShadowDiff records a difference exactly when there is one.
LEMMA ShadowDiffKeeps ==
    ASSUME IInv, NEW e \in DOMAIN planning, RecordRoutingShadowDiff(e)
    PROVE  IInv'
<1>0. /\ Same /\ planning[e] = "enqueued" /\ planning' = [planning EXCEPT ![e] = "planned"]
      /\ UNCHANGED <<rows, deadLetters, lane, received, staled, faults>>
      /\ DOMAIN diffs' = IF Changed(PlanOf(active, e), PlanOf(candidate, e))
                         THEN DOMAIN diffs \cup {e} ELSE DOMAIN diffs
  BY Zenon DEF RecordRoutingShadowDiff, Same
<1>1. planning' \in [DOMAIN planning -> {"new", "enqueued", "planned"}] /\ faults' = faults
  BY <1>0, Zenon DEF IInv, Typed
<1>2. \A x : Changed(PlanOf(active, x), PlanOf(candidate, x))' <=> Changed(PlanOf(active, x), PlanOf(candidate, x))
  BY <1>0, Reading, Zenon DEF Changed
<1>3. PlanInv'
  BY <1>0, <1>1, <1>2, Reading DEF IInv, PlanInv, Typed
<1> QED  BY <1>0, <1>1, <1>3, TablesKept, Zenon

\* A redelivered event is planned anew; nothing on record is taken back.
LEMMA RedeliverKeeps ==
    ASSUME IInv, NEW e \in DOMAIN planning, Redeliver(e)
    PROVE  IInv'
<1>0. /\ Same /\ planning' = [planning EXCEPT ![e] = "new"] /\ faults' = faults + 1
      /\ UNCHANGED <<rows, deadLetters, diffs, lane, received, staled>>
  BY Zenon DEF Redeliver, Fault, Same, tables
<1>1. planning' \in [DOMAIN planning -> {"new", "enqueued", "planned"}]
  BY <1>0, Zenon DEF IInv, Typed
<1>2. PlanInv'
  BY <1>0, <1>1, Reading, Zenon DEF IInv, PlanInv, Typed, Changed
<1> QED  BY <1>0, <1>1, <1>2, TablesKept, Zenon

\* A row that the lane which moves has nothing to do with.
LEMMA OtherRow ==
    ASSUME IInv, Same, NEW l \in Lanes, NEW s \in LaneState, lane' = [lane EXCEPT ![l] = s],
           UNCHANGED <<staled, faults>>, NEW j \in DOMAIN rows, lane[l].intent # j, s.intent # j,
           rows'[j] = rows[j], j \in deadLetters' <=> j \in deadLetters
    PROVE  RowInv(j)'
<1>1. Typed /\ RowInv(j)
  BY Zenon DEF IInv
<1>2. \A k \in Lanes : lane[k].intent = j \/ lane'[k].intent = j => lane'[k] = lane[k]
  BY <1>1, Zenon DEF Typed
<1>3. AtWork(j)' = AtWork(j) /\ Early(j)' = Early(j)
  BY <1>1, <1>2, LanesStay, Zenon
<1>4. faults' \in Nat /\ faults' >= faults /\ staled' \in BOOLEAN
  BY <1>1 DEF Typed
<1> QED  BY <1>1, <1>3, <1>4, RowKept, Zenon

\* ClaimRoutingDelivery: the claim takes the place of the lease that ended, or
\* of the wait, and the attempt it counts was provided for.
LEMMA ClaimKeeps ==
    ASSUME IInv, NEW l \in Lanes, Claim(l)
    PROVE  IInv'
<1>1. PICK i \in Due(l[2]) :
         /\ rows' = [rows EXCEPT ![i].status = "sending", ![i].attempts = rows[i].attempts + 1, ![i].due = FALSE]
         /\ lane' = [lane EXCEPT ![l] = [pc |-> "send", intent |-> i, attempts |-> rows[i].attempts + 1]]
  BY Zenon DEF Claim
<1> DEFINE r == [rows[i] EXCEPT !.status = "sending", !.attempts = rows[i].attempts + 1, !.due = FALSE]
           s == [pc |-> "send", intent |-> i, attempts |-> rows[i].attempts + 1]
<1>2. Same /\ lane[l].pc = "idle" /\ UNCHANGED <<planning, deadLetters, diffs, received, staled, faults>>
  BY Zenon DEF Claim, Same, planner
<1>3. Typed /\ LanesHonest /\ PlanInv /\ Lanes' = Lanes
  BY <1>2, Reading, Zenon DEF IInv
<1>4. i \in DOMAIN rows /\ Claimable(rows[i]) /\ rows[i] \in Row /\ i \in Intents /\ i # NoIntent
  BY <1>3, Keys, Zenon DEF Due, Typed
<1>5. r \in Row /\ r.status = "sending" /\ r.attempts = rows[i].attempts + 1 /\ r.due = FALSE
  <2>1. rows[i].attempts + 1 \in Nat /\ "sending" \in Statuses
    BY <1>4 DEF Row, Statuses
  <2> QED  BY <1>4, <2>1, Zenon DEF Row
<1>6. s \in LaneState
  BY <1>4 DEF LaneState, Row
<1>7. rows' = [rows EXCEPT ![i] = r]
  BY <1>1, <1>4, Zenon
<1>8. /\ DOMAIN rows' = DOMAIN rows /\ rows' \in [DOMAIN rows' -> Row]
      /\ DOMAIN rows' \subseteq (DOMAIN Events) \X Destinations
      /\ rows'[i] = r /\ \A j \in DOMAIN rows \ {i} : rows'[j] = rows[j]
  BY <1>3, <1>4, <1>5, <1>7, RowUpdated, Zenon
<1>9. LanesHonest' /\ lane' \in [Lanes -> LaneState]
  BY <1>1, <1>2, <1>3, <1>4, <1>6, <1>8, LaneMoves, Zenon
<1>10. Typed'
  BY <1>2, <1>3, <1>8, <1>9, TypesKept, Zenon DEF Typed
<1>11. lane[l].intent = NoIntent
  BY <1>2, <1>3, Zenon DEF LanesHonest
<1>12. RowInv(i)'
  <2>1. RowInv(i)
    BY <1>4, Zenon DEF IInv
  <2>2. Unleased(rows[i]) = 1 /\ Waiting(rows[i]) = 1 /\ Unleased(rows'[i]) = 0 /\ Waiting(rows'[i]) = 0
    BY <1>4, <1>5, <1>8, Zenon DEF Claimable, Unleased, Waiting
  <2>3. AtWork(i)' = AtWork(i) \cup {l} /\ l \notin AtWork(i)
    <3>1. AtWork(i)' = AtWork(i) \cup {l}
      <4>1. s.intent = i /\ lane' = [lane EXCEPT ![l] = s]
        BY <1>1, Zenon
      <4> QED  BY <1>3, <1>6, <4>1, LaneTurns, Zenon
    <3>2. l \notin AtWork(i)
      BY <1>4, <1>11, Zenon DEF AtWork
    <3> QED  BY <3>1, <3>2, Zenon
  <2>4. /\ rows[i].attempts \in Nat /\ MaxAttemptsOf(i) \in Nat \ {0} /\ IsFiniteSet(Early(i)) /\ IsFiniteSet(AtWork(i))
        /\ Cardinality(AtWork(i)) \in Nat /\ Cardinality(Early(i)) \in Nat
        /\ Cardinality(Early(i)) <= Cardinality(AtWork(i))
        /\ Slack \in Nat /\ Slack <= faults /\ faults \in Nat
    BY <1>3, <1>4, <2>1, Counters DEF RowInv, LeaseAt
  <2>5. Early(i)' = IF rows[i].attempts + 1 < MaxAttemptsOf(i) THEN Early(i) \cup {l} ELSE Early(i)
    <3>1. \A k \in AtWork(i) : lane'[k] = lane[k]
      BY <1>1, <1>3, <2>3, Zenon DEF Typed, AtWork
    <3>2. lane'[l].attempts = rows[i].attempts + 1
      BY <1>1, <1>3, Zenon DEF Typed
    <3>3. MaxAttemptsOf(i)' = MaxAttemptsOf(i)
      BY <1>2, Reading, Zenon
    <3> QED  BY <2>3, <3>1, <3>2, <3>3, Zenon DEF Early
  <2>6. IsFiniteSet(AtWork(i)') /\ Cardinality(AtWork(i)') = Cardinality(AtWork(i)) + 1
    BY <2>3, <2>4, FS_AddElement
  <2>7. /\ Cardinality(Early(i)') \in Nat
        /\ IF rows[i].attempts + 1 < MaxAttemptsOf(i)
           THEN Cardinality(Early(i)') = Cardinality(Early(i)) + 1
           ELSE Cardinality(Early(i)') = Cardinality(Early(i))
    <3>1. l \notin Early(i)
      BY <2>3, Zenon DEF Early
    <3>2. CASE rows[i].attempts + 1 < MaxAttemptsOf(i)
      <4>1. Early(i)' = Early(i) \cup {l}
        BY <2>5, <3>2, Zenon
      <4>2. Cardinality(Early(i) \cup {l}) = Cardinality(Early(i)) + 1
        BY <2>4, <3>1, FS_AddElement, Zenon
      <4> QED  BY <2>4, <3>2, <4>1, <4>2
    <3>3. CASE ~(rows[i].attempts + 1 < MaxAttemptsOf(i))
      BY <2>4, <2>5, <3>3, Zenon
    <3> QED  BY <3>2, <3>3, Zenon
  <2>8. Slack' = Slack /\ MaxAttemptsOf(i)' = MaxAttemptsOf(i) /\ faults' = faults
    BY <1>2, Reading, Zenon DEF Slack
  <2>9. LeaseAt(i)'
    BY <2>1, <2>2, <2>4, <2>6, <2>8 DEF RowInv, LeaseAt
  <2>10. Cardinality(AtWork(i)) <= faults
    BY <2>1, <2>2, <2>4 DEF RowInv, LeaseAt
  <2>11. rows'[i].attempts + Cardinality(Early(i)') + Waiting(rows'[i]) <= MaxAttemptsOf(i)' + faults'
    BY <1>5, <1>8, <2>1, <2>2, <2>4, <2>7, <2>8, <2>10 DEF RowInv, AttemptsAt
  <2>12. AttemptsAt(i)'
    BY <2>3, <2>11, Zenon DEF AttemptsAt
  <2>13. DeadAt(i)'
    BY <1>2, <1>4, <1>5, <1>8, <2>1, Zenon DEF RowInv, DeadAt, Claimable
  <2> QED  BY <2>9, <2>12, <2>13, Zenon DEF RowInv
<1>13. \A j \in DOMAIN rows' : RowInv(j)'
  <2> SUFFICES ASSUME NEW j \in DOMAIN rows, j # i PROVE RowInv(j)'
    BY <1>8, <1>12, Zenon
  <2>1. lane[l].intent # j /\ s.intent # j
    BY <1>3, <1>11, Keys, Zenon DEF Typed
  <2> QED  BY <1>1, <1>2, <1>6, <1>8, <2>1, OtherRow, Zenon
<1>14. PlanInv'
  BY <1>2, <1>3, <1>8, PlansKept, Zenon
<1> QED  BY <1>2, <1>8, <1>9, <1>10, <1>13, <1>14, Zenon DEF IInv

\* The end of a send moves one lane, on a row it keeps.
LEMMA SendEnds ==
    ASSUME IInv, Same, NEW l \in Lanes, lane[l].pc = "send",
           NEW pc \in {"sent", "retry", "fail"}, lane' = [lane EXCEPT ![l].pc = pc],
           UNCHANGED <<planning, rows, deadLetters, diffs, staled>>,
           received' \in {received, received \cup {lane[l].intent}},
           pc = "sent" => lane[l].intent \in received',
           pc = "retry" => lane[l].attempts < MaxAttemptsOf(lane[l].intent),
           faults' \in {faults, faults + 1}
    PROVE  IInv'
<1> DEFINE s == [lane[l] EXCEPT !.pc = pc]
<1>1. Typed /\ LanesHonest /\ PlanInv /\ Lanes' = Lanes /\ lane[l].intent \in DOMAIN rows
  BY Reading, Zenon DEF IInv, LanesHonest
<1>2. /\ s \in LaneState /\ s.pc = pc /\ s.intent = lane[l].intent /\ s.attempts = lane[l].attempts
      /\ lane' = [lane EXCEPT ![l] = s]
  BY <1>1, Zenon DEF Typed, LaneState
<1>3. s.pc # "idle" /\ s.intent # NoIntent
  BY <1>1, <1>2, Keys, Zenon DEF Typed
<1>4. LanesHonest' /\ lane' \in [Lanes -> LaneState]
  BY <1>1, <1>2, <1>3, LaneMoves, Zenon
<1>5. faults' \in Nat /\ faults' >= faults /\ staled' \in BOOLEAN
  BY <1>1 DEF Typed
<1>6. Typed'
  BY <1>1, <1>4, <1>5, TypesKept, Zenon DEF Typed
<1>7. \A i \in DOMAIN rows' : RowInv(i)'
  <2> TAKE i \in DOMAIN rows'
  <2>1. \A k \in Lanes : lane'[k].intent = lane[k].intent /\ lane'[k].attempts = lane[k].attempts
    BY <1>1, <1>2, Zenon DEF Typed
  <2>2. AtWork(i)' = AtWork(i) /\ Early(i)' = Early(i)
    BY <1>1, <2>1, LanesStay, Zenon
  <2>3. i \in DOMAIN rows /\ RowInv(i)
    BY Zenon DEF IInv
  <2> QED  BY <1>1, <1>5, <2>2, <2>3, RowKept, Zenon
<1>8. PlanInv'
  BY <1>1, PlansKept, Zenon
<1>9. received' \subseteq DOMAIN rows' /\ deadLetters' \subseteq DOMAIN rows'
  BY <1>1, Zenon DEF IInv
<1> QED  BY <1>4, <1>6, <1>7, <1>8, <1>9, Zenon DEF IInv

\* SendSucceeds, SendFails and SendTimesOut: a retry is due only below max_attempts.
LEMMA SendKeeps ==
    ASSUME IInv, NEW l \in Lanes, SendSucceeds(l) \/ SendFails(l) \/ SendTimesOut(l)
    PROVE  IInv'
<1>0. Typed /\ LanesHonest
  BY Zenon DEF IInv
<1>1. CASE SendSucceeds(l)
  BY <1>1, SendEnds, Zenon DEF SendSucceeds, Same, planner, tables
<1>2. ASSUME NEW pc \in {"retry", "fail"}, lane[l].pc = "send",
             pc = "retry" => ~Exhausted(lane[l].intent, lane[l].attempts)
      PROVE  pc = "retry" => lane[l].attempts < MaxAttemptsOf(lane[l].intent)
  <2>1. lane[l].intent \in DOMAIN rows /\ lane[l].attempts \in Nat
    BY <1>0, <1>2, Zenon DEF LanesHonest, Typed, LaneState
  <2>2. MaxAttemptsOf(lane[l].intent) \in Nat
    BY <1>0, <2>1, Keys, Zenon DEF Typed
  <2> QED  BY <1>2, <2>1, <2>2 DEF Exhausted, MaxAttemptsOf
<1>3. CASE SendFails(l)
  <2>1. PICK pc \in {"retry", "fail"} :
           /\ lane' = [lane EXCEPT ![l].pc = pc]
           /\ pc = "retry" => ~Exhausted(lane[l].intent, lane[l].attempts)
    BY <1>3, Zenon DEF SendFails
  <2>2. /\ Same /\ lane[l].pc = "send"
        /\ UNCHANGED <<planning, rows, deadLetters, diffs, received, staled, faults>>
    BY <1>3, Zenon DEF SendFails, Same, planner
  <2> QED  BY <1>2, <2>1, <2>2, SendEnds, Zenon
<1>4. CASE SendTimesOut(l)
  <2>1. PICK pc \in {"retry", "fail"} :
           /\ lane' = [lane EXCEPT ![l].pc = pc]
           /\ pc = "retry" => ~Exhausted(lane[l].intent, lane[l].attempts)
    BY <1>4, Zenon DEF SendTimesOut
  <2>2. /\ Same /\ lane[l].pc = "send" /\ received' = received \cup {lane[l].intent}
        /\ UNCHANGED <<planning, rows, deadLetters, diffs, staled>> /\ faults' = faults + 1
    BY <1>4, Zenon DEF SendTimesOut, Same, planner, Fault
  <2> QED  BY <1>2, <2>1, <2>2, SendEnds, Zenon
<1> QED  BY <1>1, <1>3, <1>4, Zenon

\* The row a lane reports on: the lane leaves it, and a retry takes its place.
LEMMA RowReported ==
    ASSUME IInv, Same, NEW l \in Lanes, NEW i \in DOMAIN rows, lane[l].intent = i,
           lane' = [lane EXCEPT ![l] = Idle], UNCHANGED <<staled, faults>>,
           rows'[i].attempts = rows[i].attempts,
           rows'[i].status \in {"delivered", "retry", "dead_letter"},
           rows'[i].status = "retry" => lane[l].attempts < MaxAttemptsOf(i),
           i \in deadLetters' <=> (i \in deadLetters \/ rows'[i].status = "dead_letter")
    PROVE  RowInv(i)'
<1>1. Typed /\ RowInv(i)
  BY Zenon DEF IInv
<1>2. /\ rows[i].attempts \in Nat /\ MaxAttemptsOf(i) \in Nat \ {0} /\ IsFiniteSet(AtWork(i))
      /\ Cardinality(AtWork(i)) \in Nat /\ Cardinality(Early(i)) \in Nat
      /\ Unleased(rows[i]) \in {0, 1} /\ Waiting(rows[i]) \in {0, 1}
      /\ Slack \in Nat /\ Slack <= faults /\ faults \in Nat
  BY <1>1, Counters, Zenon DEF RowInv, LeaseAt
<1>3. /\ l \in AtWork(i)
      /\ IsFiniteSet(AtWork(i)') /\ Cardinality(AtWork(i)') = Cardinality(AtWork(i)) - 1
      /\ Cardinality(Early(i)') \in Nat
      /\ Cardinality(Early(i)') = IF l \in Early(i) THEN Cardinality(Early(i)) - 1
                                  ELSE Cardinality(Early(i))
  BY <1>1, LaneLeaves, Zenon DEF RowInv
<1>4. Slack' = Slack /\ MaxAttemptsOf(i)' = MaxAttemptsOf(i)
  BY Reading, Zenon DEF Slack
<1>5. /\ Unleased(rows'[i]) = 1 /\ Waiting(rows'[i]) \in {0, 1}
      /\ Waiting(rows'[i]) = 1 => rows'[i].status = "retry"
  BY DEF Unleased, Waiting
<1>6. LeaseAt(i)'
  BY <1>1, <1>2, <1>3, <1>4, <1>5 DEF RowInv, LeaseAt
<1>7. Waiting(rows'[i]) = 1 => l \in Early(i)
  BY <1>3, <1>5, Zenon DEF Early
<1>8. rows'[i].attempts + Cardinality(Early(i)') + Waiting(rows'[i]) <= MaxAttemptsOf(i)' + faults'
  BY <1>1, <1>2, <1>3, <1>4, <1>5, <1>7 DEF RowInv, AttemptsAt
<1>9. AttemptsAt(i)'
  BY <1>8, Zenon DEF AttemptsAt
<1>10. DeadAt(i)'
  <2>1. Cardinality(AtWork(i)) # 0
    BY <1>2, <1>3, FS_EmptySet, Zenon
  <2>2. ~staled => rows[i].status # "dead_letter"
    <3>1. rows[i].status = "dead_letter" => Unleased(rows[i]) = 1
      BY Zenon DEF Unleased
    <3> QED  BY <1>1, <1>2, <2>1, <3>1 DEF RowInv, LeaseAt, Slack
  <2> QED  BY <1>1, <2>2, Zenon DEF RowInv, DeadAt
<1> QED  BY <1>6, <1>9, <1>10, Zenon DEF RowInv

\* The lane that reported is idle again.
LEMMA LaneIdles ==
    ASSUME IInv, Same, NEW l \in Lanes, lane' = [lane EXCEPT ![l] = Idle],
           DOMAIN rows \subseteq DOMAIN rows', received' = received
    PROVE  LanesHonest' /\ lane' \in [Lanes -> LaneState]
<1>1. Idle \in LaneState /\ Idle.pc = "idle" /\ Idle.intent = NoIntent
  BY Zenon DEF Idle, LaneState
<1> QED  BY <1>1, LaneMoves, Zenon DEF IInv

\* MarkRoutingDelivered and MarkRoutingRetry.
LEMMA MarkKeeps ==
    ASSUME IInv, NEW l \in Lanes, MarkRoutingDelivered(l) \/ MarkRoutingRetry(l)
    PROVE  IInv'
<1>1. /\ Same /\ lane' = [lane EXCEPT ![l] = Idle] /\ lane[l].pc # "idle"
      /\ UNCHANGED <<planning, deadLetters, diffs, received, staled, faults>>
  BY Zenon DEF MarkRoutingDelivered, MarkRoutingRetry, Same, planner
<1>2. Typed /\ LanesHonest /\ PlanInv
  BY Zenon DEF IInv
<1>3. PICK i \in DOMAIN rows : i = lane[l].intent
  BY <1>1, <1>2, Zenon DEF LanesHonest
<1>4. rows[i] \in Row
  BY <1>2, Zenon DEF Typed
<1>5. PICK status \in {"delivered", "retry"} :
         /\ rows' = [rows EXCEPT ![i] = [rows[i] EXCEPT !.status = status, !.due = FALSE]]
         /\ status = "retry" => lane[l].pc = "retry"
  BY <1>3, <1>4, Zenon DEF MarkRoutingDelivered, MarkRoutingRetry
<1> DEFINE r == [rows[i] EXCEPT !.status = status, !.due = FALSE]
<1>6. r \in Row /\ r.status = status /\ r.attempts = rows[i].attempts
  BY <1>4, Zenon DEF Row, Statuses
<1>7. /\ DOMAIN rows' = DOMAIN rows /\ rows' \in [DOMAIN rows' -> Row]
      /\ DOMAIN rows' \subseteq (DOMAIN Events) \X Destinations
      /\ rows'[i] = r /\ \A j \in DOMAIN rows \ {i} : rows'[j] = rows[j]
  BY <1>2, <1>5, <1>6, RowUpdated, Zenon
<1>8. LanesHonest' /\ lane' \in [Lanes -> LaneState]
  BY <1>1, <1>7, LaneIdles, Zenon
<1>9. Typed'
  BY <1>1, <1>2, <1>7, <1>8, TypesKept, Zenon DEF Typed
<1>10. RowInv(i)'
  <2>1. status = "retry" => lane[l].attempts < MaxAttemptsOf(i)
    BY <1>2, <1>3, <1>5, Zenon DEF LanesHonest
  <2> QED  BY <1>1, <1>3, <1>6, <1>7, <2>1, RowReported, Zenon
<1>11. \A j \in DOMAIN rows' : RowInv(j)'
  <2> SUFFICES ASSUME NEW j \in DOMAIN rows, j # i PROVE RowInv(j)'
    BY <1>7, <1>10, Zenon
  <2>1. Idle \in LaneState /\ Idle.intent # j
    BY <1>2, Keys, Zenon DEF Typed, Idle, LaneState
  <2>2. lane[l].intent # j /\ rows'[j] = rows[j] /\ (j \in deadLetters' <=> j \in deadLetters)
    BY <1>1, <1>3, <1>7, Zenon
  <2> QED  BY <1>1, <2>1, <2>2, OtherRow, Zenon
<1>12. PlanInv'
  BY <1>1, <1>2, <1>7, PlansKept, Zenon
<1> QED  BY <1>1, <1>7, <1>8, <1>9, <1>11, <1>12, Zenon DEF IInv

\* The fallback of a row is a row of the documents, when there is one: Validate
\* refuses a fallback that is unknown, disabled or the destination itself.
LEMMA FallbackKey ==
    ASSUME Typed, NEW i \in (DOMAIN Events) \X Destinations, FallbackOf(i) # NoIntent
    PROVE  /\ FallbackOf(i) \in (DOMAIN Events) \X Destinations
           /\ FallbackOf(i) # i
           /\ Usable(config.destinations, FallbackOf(i)[2])
BY DEF Typed, FallbackOf, NoIntent, Validate, Usable, Destinations

\* DeadLetterRoutingDelivery: the row is dead and its fallback is there.
LEMMA DeadLetterRows ==
    ASSUME Typed, NEW i \in DOMAIN rows, rows' = DeadLettered(i)
    PROVE  /\ DOMAIN rows' = DOMAIN rows \cup (IF FallbackOf(i) = NoIntent THEN {} ELSE {FallbackOf(i)})
           /\ rows'[i] = [rows[i] EXCEPT !.status = "dead_letter", !.due = FALSE]
           /\ \A j \in DOMAIN rows \ {i} : rows'[j] = rows[j]
           /\ \A j \in DOMAIN rows' \ DOMAIN rows :
                 rows'[j] = [status |-> "pending", attempts |-> 0, due |-> TRUE,
                             created |-> Cardinality(DOMAIN rows)]
           /\ rows' = [j \in DOMAIN rows' |-> rows'[j]]
<1> DEFINE dead == [rows EXCEPT ![i].status = "dead_letter", ![i].due = FALSE]
<1>1. /\ DOMAIN dead = DOMAIN rows /\ dead = [j \in DOMAIN rows |-> dead[j]]
      /\ dead[i] = [rows[i] EXCEPT !.status = "dead_letter", !.due = FALSE]
      /\ \A j \in DOMAIN rows \ {i} : dead[j] = rows[j]
  BY Zenon DEF Typed, Row
<1> HIDE DEF dead
<1>2. CASE FallbackOf(i) = NoIntent
  <2>1. rows' = dead
    BY <1>2, Zenon DEF DeadLettered, dead
  <2> QED  BY <1>1, <1>2, <2>1, Zenon
<1>3. CASE FallbackOf(i) # NoIntent
  <2>1. Usable(config.destinations, FallbackOf(i)[2])
    BY <1>3, FallbackKey, Zenon DEF Typed
  <2>2. rows' = Inserted(dead, {FallbackOf(i)})
    BY <1>3, <2>1, Zenon DEF DeadLettered, dead
  <2> QED  BY <1>1, <1>3, <2>2, Zenon DEF Inserted
<1> QED  BY <1>2, <1>3, Zenon

\* DeadLetterRoutingDelivery keeps the invariant.
LEMMA DeadLetterKeeps ==
    ASSUME IInv, NEW l \in Lanes, DeadLetterRoutingDelivery(l)
    PROVE  IInv'
<1>1. /\ Same /\ lane' = [lane EXCEPT ![l] = Idle] /\ lane[l].pc # "idle"
      /\ UNCHANGED <<planning, diffs, received, staled, faults>>
  BY Zenon DEF DeadLetterRoutingDelivery, Same, planner
<1>2. Typed /\ LanesHonest /\ PlanInv
  BY Zenon DEF IInv
<1>3. PICK i \in DOMAIN rows : i = lane[l].intent
  BY <1>1, <1>2, Zenon DEF LanesHonest
<1>4. rows' = DeadLettered(i) /\ deadLetters' = deadLetters \cup {i}
  BY <1>3, Zenon DEF DeadLetterRoutingDelivery
<1> DEFINE r == [rows[i] EXCEPT !.status = "dead_letter", !.due = FALSE]
           n == [status |-> "pending", attempts |-> 0, due |-> TRUE, created |-> Cardinality(DOMAIN rows)]
<1>5. r \in Row /\ r.status = "dead_letter" /\ r.attempts = rows[i].attempts
  BY <1>2, ZenonT(40) DEF Typed, Row, Statuses
<1>6. n \in Row
  <2>1. DOMAIN rows \in SUBSET Intents
    BY <1>2, Keys, Zenon DEF Typed
  <2> QED  BY <2>1, Zenon DEF Row, Statuses, Times
<1>7. /\ DOMAIN rows' = DOMAIN rows \cup (IF FallbackOf(i) = NoIntent THEN {} ELSE {FallbackOf(i)})
      /\ rows'[i] = r /\ \A j \in DOMAIN rows \ {i} : rows'[j] = rows[j]
      /\ \A j \in DOMAIN rows' \ DOMAIN rows : rows'[j] = n
      /\ rows' = [j \in DOMAIN rows' |-> rows'[j]]
  BY <1>2, <1>4, DeadLetterRows, Zenon
<1>8. DOMAIN rows' \subseteq (DOMAIN Events) \X Destinations
  BY <1>2, <1>7, FallbackKey, Zenon DEF Typed
<1>9. rows' \in [DOMAIN rows' -> Row]
  BY <1>2, <1>5, <1>6, <1>7, ZenonT(40) DEF Typed
<1>10. LanesHonest' /\ lane' \in [Lanes -> LaneState]
  BY <1>1, <1>7, LaneIdles, Zenon
<1>11. Typed'
  BY <1>1, <1>2, <1>8, <1>9, <1>10, TypesKept, Zenon DEF Typed
<1>12. RowInv(i)'
  BY <1>1, <1>3, <1>4, <1>5, <1>7, RowReported, Zenon
<1>13. \A j \in DOMAIN rows' : RowInv(j)'
  <2> SUFFICES ASSUME NEW j \in DOMAIN rows', j # i PROVE RowInv(j)'
    BY <1>12, Zenon
  <2>0. Idle \in LaneState /\ Idle.intent = NoIntent
    BY Zenon DEF Idle, LaneState
  <2>1. CASE j \in DOMAIN rows
    <3>1. Idle.intent # j
      BY <1>2, <2>0, <2>1, Keys, Zenon DEF Typed
    <3>2. lane[l].intent # j /\ rows'[j] = rows[j] /\ (j \in deadLetters' <=> j \in deadLetters)
      BY <1>3, <1>4, <1>7, <2>1, Zenon
    <3> QED  BY <1>1, <2>0, <2>1, <3>1, <3>2, OtherRow, Zenon
  <2>2. CASE j \notin DOMAIN rows
    <3>1. rows'[j].status = "pending" /\ rows'[j].attempts = 0 /\ j \in (DOMAIN Events) \X Destinations
      BY <1>7, <1>8, <2>2
    <3>2. deadLetters \subseteq DOMAIN rows /\ j \notin deadLetters'
      BY <1>4, <2>2, Zenon DEF IInv
    <3>3. \A k \in Lanes : lane'[k].intent \in {NoIntent, lane[k].intent}
      BY <1>1, <1>2, <2>0, Zenon DEF Typed
    <3> QED  BY <1>1, <1>2, <2>2, <3>1, <3>2, <3>3, RowInserted, Zenon
  <2> QED  BY <2>1, <2>2, Zenon
<1>14. PlanInv'
  BY <1>1, <1>2, <1>7, PlansKept, Zenon
<1>15. received' \subseteq DOMAIN rows' /\ deadLetters' \subseteq DOMAIN rows'
  BY <1>1, <1>4, <1>7, Zenon DEF IInv
<1> QED  BY <1>10, <1>11, <1>13, <1>14, <1>15, Zenon DEF IInv

\* Lanes that leave their rows because of a fault: MarkFails and Crash.
LEMMA AbandonKeeps ==
    ASSUME IInv, NEW gone \in SUBSET Lanes, Same,
           lane' = [l \in Lanes |-> IF l \in gone THEN Idle ELSE lane[l]],
           faults' = faults + 1,
           UNCHANGED <<planning, rows, deadLetters, diffs, received, staled>>
    PROVE  IInv'
<1>1. Typed /\ LanesHonest /\ PlanInv /\ Lanes' = Lanes
  BY Reading, Zenon DEF IInv
<1>2. Idle \in LaneState /\ Idle.pc = "idle" /\ Idle.intent = NoIntent
  BY Zenon DEF Idle, LaneState
<1>3. /\ lane' \in [Lanes -> LaneState] /\ faults' \in Nat
      /\ \A l \in Lanes : lane'[l] = lane[l] \/ lane'[l] = Idle
  BY <1>1, <1>2 DEF Typed
<1>4. LanesHonest'
  BY <1>1, <1>2, <1>3, Reading, Zenon DEF LanesHonest
<1>5. Typed'
  BY <1>1, <1>3, TypesKept, Zenon DEF Typed
<1>6. \A i \in DOMAIN rows' : RowInv(i)'
  <2> TAKE i \in DOMAIN rows'
  <2>1. i \in DOMAIN rows /\ RowInv(i) /\ i # NoIntent
    BY <1>1, Keys, Zenon DEF IInv, Typed
  <2>2. \A l \in Lanes : lane'[l].intent = i => lane'[l] = lane[l]
    BY <1>2, <1>3, <2>1, Zenon
  <2>3. AtWork(i)' \subseteq AtWork(i)
    BY <1>1, <2>2, Zenon DEF AtWork
  <2>4. Early(i)' \subseteq Early(i)
    <3>1. \A l \in AtWork(i)' : lane'[l] = lane[l]
      BY <1>1, <2>2, Zenon DEF AtWork
    <3> QED  BY <2>3, <3>1, Reading, Zenon DEF Early
  <2> QED  BY <1>1, <2>1, <2>3, <2>4, RowAbandoned, Zenon
<1>7. PlanInv'
  BY <1>1, PlansKept, Zenon
<1> QED  BY <1>4, <1>5, <1>6, <1>7, Zenon DEF IInv

\* A failed mark and a crash keep the invariant.
LEMMA FaultKeeps ==
    ASSUME IInv, (\E l \in Lanes : MarkFails(l)) \/ (\E r \in Replicas : Crash(r))
    PROVE  IInv'
<1>1. ASSUME NEW l \in Lanes, MarkFails(l) PROVE IInv'
  <2>1. lane' = [k \in Lanes |-> IF k \in {l} THEN Idle ELSE lane[k]]
    BY <1>1, Zenon DEF MarkFails, IInv, Typed
  <2>2. /\ Same /\ faults' = faults + 1
        /\ UNCHANGED <<planning, rows, deadLetters, diffs, received, staled>>
    BY <1>1, Zenon DEF MarkFails, Fault, Same, planner, tables
  <2> QED  BY <1>1, <2>1, <2>2, AbandonKeeps, Zenon
<1>2. ASSUME NEW r \in Replicas, Crash(r) PROVE IInv'
  <2> DEFINE gone == {l \in Lanes : l[1] = r}
  <2>1. lane' = [k \in Lanes |-> IF k \in gone THEN Idle ELSE lane[k]]
    BY <1>2, Zenon DEF Crash
  <2>2. /\ Same /\ faults' = faults + 1 /\ gone \in SUBSET Lanes
        /\ UNCHANGED <<planning, rows, deadLetters, diffs, received, staled>>
    BY <1>2, Zenon DEF Crash, Fault, Same, planner, tables
  <2> QED  BY <2>1, <2>2, AbandonKeeps, Zenon
<1> QED  BY <1>1, <1>2, Zenon

\* A step of time or of the operator on one row: the lanes stay.
LEMMA RowStep ==
    ASSUME IInv, Same, NEW i \in DOMAIN rows, NEW r \in Row, rows' = [rows EXCEPT ![i] = r],
           UNCHANGED <<planning, diffs, lane, received>>,
           faults' \in Nat, faults' >= faults, staled' \in BOOLEAN, staled => staled',
           deadLetters' \subseteq DOMAIN rows,
           \A j \in DOMAIN rows \ {i} : j \in deadLetters' <=> j \in deadLetters,
           AtWork(i)' = AtWork(i) /\ Early(i)' = Early(i) /\ rows'[i] = r => RowInv(i)'
    PROVE  IInv'
<1>1. Typed /\ LanesHonest /\ PlanInv
  BY Zenon DEF IInv
<1>2. /\ DOMAIN rows' = DOMAIN rows /\ rows' \in [DOMAIN rows' -> Row]
      /\ DOMAIN rows' \subseteq (DOMAIN Events) \X Destinations
      /\ rows'[i] = r /\ \A j \in DOMAIN rows \ {i} : rows'[j] = rows[j]
  BY <1>1, RowUpdated, Zenon
<1>3. Typed'
  BY <1>1, <1>2, TypesKept, Zenon DEF Typed
<1>4. LanesHonest'
  BY <1>1, <1>2, Reading DEF LanesHonest
<1>5. ASSUME NEW j PROVE AtWork(j)' = AtWork(j) /\ Early(j)' = Early(j)
  BY <1>1, LanesStay, Zenon
<1>6. \A j \in DOMAIN rows' : RowInv(j)'
  <2> SUFFICES ASSUME NEW j \in DOMAIN rows, j # i PROVE RowInv(j)'
    BY <1>2, <1>5, Zenon
  <2>1. RowInv(j) /\ rows'[j] = rows[j] /\ (j \in deadLetters' <=> j \in deadLetters)
    BY <1>2, Zenon DEF IInv
  <2> QED  BY <1>1, <1>5, <2>1, RowKept, Zenon
<1>7. PlanInv'
  BY <1>1, <1>2, PlansKept, Zenon
<1>8. received' \subseteq DOMAIN rows' /\ deadLetters' \subseteq DOMAIN rows'
  BY <1>2, Zenon DEF IInv
<1> QED  BY <1>3, <1>4, <1>6, <1>7, <1>8, Zenon DEF IInv

\* RetryDue: the row waits as before.
LEMMA RetryDueKeeps ==
    ASSUME IInv, NEW i \in DOMAIN rows, RetryDue(i)
    PROVE  IInv'
<1> DEFINE r == [rows[i] EXCEPT !.due = TRUE]
<1>1. /\ Same /\ rows' = [rows EXCEPT ![i] = r] /\ rows[i].status = "retry"
      /\ UNCHANGED <<planning, deadLetters, diffs, lane, received, staled, faults>>
  BY Zenon DEF RetryDue, Same, planner
<1>2. Typed /\ RowInv(i) /\ deadLetters \subseteq DOMAIN rows
  BY Zenon DEF IInv
<1>3. r \in Row /\ r.status = "retry" /\ r.attempts = rows[i].attempts
  BY <1>1, <1>2, Zenon DEF Typed, Row
<1> HIDE DEF r
<1>4. faults' \in Nat /\ faults' >= faults /\ staled' \in BOOLEAN /\ (staled => staled')
  BY <1>1, <1>2 DEF Typed
<1>5. ASSUME AtWork(i)' = AtWork(i) /\ Early(i)' = Early(i) /\ rows'[i] = r PROVE RowInv(i)'
  <2>1. /\ Unleased(rows[i]) = 1 /\ Waiting(rows[i]) = 1
        /\ Unleased(rows'[i]) = 1 /\ Waiting(rows'[i]) = 1
    BY <1>1, <1>3, <1>5, Zenon DEF Unleased, Waiting
  <2>2. LeaseAt(i)'
    BY <1>1, <1>2, <1>5, <2>1, Zenon DEF RowInv, LeaseAt, Slack
  <2>3. AttemptsAt(i)'
    BY <1>1, <1>2, <1>3, <1>5, <2>1, Reading, Zenon DEF RowInv, AttemptsAt
  <2>4. DeadAt(i)'
    BY <1>1, <1>2, <1>3, <1>5, Zenon DEF RowInv, DeadAt
  <2> QED  BY <2>2, <2>3, <2>4, Zenon DEF RowInv
<1>6. /\ deadLetters' \subseteq DOMAIN rows
      /\ \A j \in DOMAIN rows \ {i} : j \in deadLetters' <=> j \in deadLetters
  BY <1>1, <1>2, Zenon
<1> QED  BY <1>1, <1>3, <1>4, <1>5, <1>6, RowStep, Zenon

\* LeaseEnds: without a lane the attempt that was lost is provided for; with one
\* the fault pays for the lane that will share the row, and for its attempt.
LEMMA LeaseEndsKeeps ==
    ASSUME IInv, NEW i \in DOMAIN rows, LeaseEnds(i)
    PROVE  IInv'
<1> DEFINE r == [rows[i] EXCEPT !.due = TRUE]
<1>1. /\ Same /\ rows' = [rows EXCEPT ![i] = r] /\ rows[i].status = "sending" /\ ~rows[i].due
      /\ UNCHANGED <<planning, deadLetters, diffs, lane, received>>
      /\ AtWork(i) = {} => staled' = staled /\ faults' = faults
      /\ AtWork(i) # {} => staled' = TRUE /\ faults' = faults + 1
  BY Zenon DEF LeaseEnds, Fault, Same, planner
<1>2. Typed /\ RowInv(i) /\ deadLetters \subseteq DOMAIN rows
  BY Zenon DEF IInv
<1>3. r \in Row /\ r.status = "sending" /\ r.attempts = rows[i].attempts /\ r.due
  BY <1>1, <1>2, Zenon DEF Typed, Row
<1> HIDE DEF r
<1>4. faults' \in Nat /\ faults' >= faults /\ staled' \in BOOLEAN /\ (staled => staled')
  <2>1. faults \in Nat /\ staled \in BOOLEAN
    BY <1>2, Zenon DEF Typed
  <2>2. CASE AtWork(i) = {}
    BY <1>1, <2>1, <2>2
  <2>3. CASE AtWork(i) # {}
    <3>1. staled' = TRUE /\ faults' = faults + 1
      BY <1>1, <2>3, Zenon
    <3>2. staled' \in BOOLEAN /\ (staled => staled')
      BY <3>1, Zenon
    <3>3. faults' \in Nat /\ faults' >= faults
      BY <2>1, <3>1
    <3> QED  BY <3>2, <3>3, Zenon
  <2> QED  BY <2>2, <2>3, Zenon
<1>5. ASSUME AtWork(i)' = AtWork(i) /\ Early(i)' = Early(i) /\ rows'[i] = r PROVE RowInv(i)'
  <2>1. /\ Unleased(rows[i]) = 0 /\ Waiting(rows[i]) = 0
        /\ Unleased(rows'[i]) = 1 /\ Waiting(rows'[i]) = 1
    BY <1>1, <1>3, <1>5, Zenon DEF Unleased, Waiting
  <2>2. /\ rows[i].attempts \in Nat /\ MaxAttemptsOf(i) \in Nat \ {0} /\ IsFiniteSet(AtWork(i))
        /\ Cardinality(AtWork(i)) \in Nat /\ Cardinality(Early(i)) \in Nat
        /\ Cardinality(Early(i)) <= Cardinality(AtWork(i))
        /\ Slack \in Nat /\ Slack <= faults /\ faults \in Nat
    BY <1>2, Counters, Zenon DEF RowInv, LeaseAt
  <2>3. MaxAttemptsOf(i)' = MaxAttemptsOf(i)
    BY <1>1, Reading, Zenon
  <2>4. DeadAt(i)'
    BY <1>1, <1>2, <1>3, <1>5, Zenon DEF RowInv, DeadAt
  <2>5. CASE AtWork(i) = {}
    <3>1. Cardinality(AtWork(i)) = 0 /\ Cardinality(Early(i)) = 0 /\ Slack' = Slack
      BY <1>1, <2>2, <2>5, FS_EmptySet DEF Slack
    <3>2. LeaseAt(i)'
      BY <1>5, <2>1, <2>2, <3>1 DEF LeaseAt
    <3>3. rows[i].attempts < MaxAttemptsOf(i) + faults /\ faults' = faults
      BY <1>1, <1>2, <2>5, Zenon DEF RowInv, AttemptsAt
    <3>4. rows'[i].attempts + Cardinality(Early(i)') + Waiting(rows'[i]) <= MaxAttemptsOf(i)' + faults'
      BY <1>3, <1>5, <2>1, <2>2, <2>3, <3>1, <3>3
    <3>5. AttemptsAt(i)'
      BY <1>3, <1>5, <3>4, Zenon DEF AttemptsAt
    <3> QED  BY <2>4, <3>2, <3>5, Zenon DEF RowInv
  <2>6. CASE AtWork(i) # {}
    <3>1. Slack' = faults + 1
      BY <1>1, <2>6, Zenon DEF Slack
    <3>2. LeaseAt(i)'
      BY <1>2, <1>5, <2>1, <2>2, <3>1 DEF RowInv, LeaseAt
    <3>3. rows[i].attempts + Cardinality(Early(i)) + 0 <= MaxAttemptsOf(i) + faults /\ faults' = faults + 1
      BY <1>1, <1>2, <2>1, <2>6, Zenon DEF RowInv, AttemptsAt
    <3>4. rows'[i].attempts + Cardinality(Early(i)') + Waiting(rows'[i]) <= MaxAttemptsOf(i)' + faults'
      BY <1>3, <1>5, <2>1, <2>2, <2>3, <3>3
    <3>5. AttemptsAt(i)'
      BY <1>3, <1>5, <3>4, Zenon DEF AttemptsAt
    <3> QED  BY <2>4, <3>2, <3>5, Zenon DEF RowInv
  <2> QED  BY <2>5, <2>6, Zenon
<1>6. /\ deadLetters' \subseteq DOMAIN rows
      /\ \A j \in DOMAIN rows \ {i} : j \in deadLetters' <=> j \in deadLetters
  BY <1>1, <1>2, Zenon
<1> QED  BY <1>1, <1>3, <1>4, <1>5, <1>6, RowStep, Zenon

\* Requeue: the count starts again, and only lanes that share the row could add
\* to it.
LEMMA RequeueKeeps ==
    ASSUME IInv, NEW i \in DOMAIN rows, Requeue(i)
    PROVE  IInv'
<1> DEFINE r == [rows[i] EXCEPT !.status = "retry", !.attempts = 0, !.due = TRUE]
<1>1. /\ Same /\ rows' = [rows EXCEPT ![i] = r] /\ rows[i].status = "dead_letter"
      /\ deadLetters' = deadLetters \ {i}
      /\ UNCHANGED <<planning, diffs, lane, received, staled, faults>>
  BY Zenon DEF Requeue, RequeueRoutingDeadLetter, Same, planner
<1>2. Typed /\ RowInv(i) /\ deadLetters \subseteq DOMAIN rows
  BY Zenon DEF IInv
<1>3. r \in Row /\ r.status = "retry" /\ r.attempts = 0
  BY <1>2, ZenonT(40) DEF Typed, Row, Statuses
<1> HIDE DEF r
<1>4. faults' \in Nat /\ faults' >= faults /\ staled' \in BOOLEAN /\ (staled => staled')
  BY <1>1, <1>2 DEF Typed
<1>5. ASSUME AtWork(i)' = AtWork(i) /\ Early(i)' = Early(i) /\ rows'[i] = r PROVE RowInv(i)'
  <2>1. Unleased(rows[i]) = 1 /\ Unleased(rows'[i]) = 1 /\ Waiting(rows'[i]) = 1
    BY <1>1, <1>3, <1>5, Zenon DEF Unleased, Waiting
  <2>2. /\ MaxAttemptsOf(i) \in Nat \ {0} /\ IsFiniteSet(AtWork(i))
        /\ Cardinality(AtWork(i)) \in Nat /\ Cardinality(Early(i)) \in Nat
        /\ Cardinality(Early(i)) <= Cardinality(AtWork(i))
        /\ Slack \in Nat /\ Slack <= faults /\ faults \in Nat
    BY <1>2, Counters, Zenon DEF RowInv, LeaseAt
  <2>3. MaxAttemptsOf(i)' = MaxAttemptsOf(i) /\ Slack' = Slack
    BY <1>1, Reading, Zenon DEF Slack
  <2>4. LeaseAt(i)'
    BY <1>2, <1>5, <2>1, <2>2, <2>3, Zenon DEF RowInv, LeaseAt
  <2>5. Cardinality(Early(i)) <= faults
    BY <1>2, <2>1, <2>2 DEF RowInv, LeaseAt
  <2>6. AttemptsAt(i)'
    <3>1. rows'[i].attempts + Cardinality(Early(i)') + Waiting(rows'[i]) <= MaxAttemptsOf(i)' + faults'
      BY <1>1, <1>3, <1>5, <2>1, <2>2, <2>3, <2>5
    <3> QED  BY <1>3, <1>5, <3>1, Zenon DEF AttemptsAt
  <2>7. DeadAt(i)'
    BY <1>1, <1>3, <1>5, Zenon DEF DeadAt
  <2> QED  BY <2>4, <2>6, <2>7, Zenon DEF RowInv
<1>6. /\ deadLetters' \subseteq DOMAIN rows
      /\ \A j \in DOMAIN rows \ {i} : j \in deadLetters' <=> j \in deadLetters
  BY <1>1, <1>2, Zenon
<1> QED  BY <1>1, <1>3, <1>4, <1>5, <1>6, RowStep, Zenon

\* Init establishes the invariant: nothing is planned and no lane is at work.
LEMMA InitHolds == Init => IInv
<1> SUFFICES ASSUME Init PROVE IInv
  BY Zenon
<1>1. PICK p \in Deployments :
         /\ active = p[1] /\ candidate = p[2] /\ planning = [e \in p[3] |-> "new"]
         /\ Validate(Documents[active])
  BY Zenon DEF Init
<1>2. /\ rows = <<>> /\ deadLetters = {} /\ diffs = <<>> /\ lane = [l \in Lanes |-> Idle]
      /\ received = {} /\ staled = FALSE /\ faults = 0
  BY Zenon DEF Init
<1>3. DOMAIN rows = {} /\ DOMAIN diffs = {} /\ rows \in [DOMAIN rows -> Row]
  BY <1>2
<1>4. Idle \in LaneState /\ Idle.pc = "idle" /\ Idle.intent = NoIntent
  BY Zenon DEF Idle, LaneState
<1>5. Typed
  <2>1. active \in DOMAIN Documents /\ candidate \in DOMAIN Documents /\ p[3] \subseteq DOMAIN Events
    BY <1>1, OutboxAssumption, Zenon
  <2>2. Validate(config)
    BY <1>1, Zenon DEF config
  <2>3. lane \in [Lanes -> LaneState]
    BY <1>2, <1>4, Zenon
  <2>4. planning \in [DOMAIN planning -> {"new", "enqueued", "planned"}] /\ DOMAIN planning = p[3]
    BY <1>1, Zenon
  <2> QED  BY <1>2, <1>3, <2>1, <2>2, <2>3, <2>4, Zenon DEF Typed
<1>6. LanesHonest
  BY <1>2, <1>4, Zenon DEF LanesHonest
<1>7. PlanInv
  BY <1>1, <1>3, Zenon DEF PlanInv
<1> QED  BY <1>2, <1>3, <1>5, <1>6, <1>7, Zenon DEF IInv

\* Every step keeps the invariant.
LEMMA NextKeeps == IInv /\ [Next]_vars => IInv'
<1> SUFFICES ASSUME IInv, [Next]_vars PROVE IInv'
  BY Zenon
<1>1. ASSUME NEW e \in DOMAIN planning, Planning(e) \/ Redeliver(e) PROVE IInv'
  BY <1>1, EnqueueKeeps, ShadowDiffKeeps, RedeliverKeeps, Zenon DEF Planning
<1>2. ASSUME NEW l \in Lanes, runLane(l) \/ MarkFails(l) PROVE IInv'
  BY <1>2, ClaimKeeps, SendKeeps, MarkKeeps, DeadLetterKeeps, FaultKeeps, Zenon DEF runLane
<1>3. ASSUME NEW r \in Replicas, Crash(r) PROVE IInv'
  BY <1>3, FaultKeeps, Zenon
<1>4. ASSUME NEW i \in DOMAIN rows, RetryDue(i) \/ LeaseEnds(i) \/ Requeue(i) PROVE IInv'
  BY <1>4, RetryDueKeeps, LeaseEndsKeeps, RequeueKeeps, Zenon
<1>5. CASE UNCHANGED vars
  <2>1. /\ Same /\ UNCHANGED <<planning, rows, deadLetters, diffs, lane, received, staled, faults>>
    BY <1>5, Zenon DEF vars, planner, tables, Same
  <2>2. PlanInv' /\ planning' \in [DOMAIN planning -> {"new", "enqueued", "planned"}]
    BY <2>1, PlansKept, Zenon DEF IInv, Typed
  <2> QED  BY <2>1, <2>2, TablesKept, Zenon
<1> QED  BY <1>1, <1>2, <1>3, <1>4, <1>5, Zenon DEF Next

\* What the invariant says of an event that is planned: the rules that Plan
\* considers name usable destinations, so all of them have an intent.
LEMMA PlansDurable == IInv => PlanDurable
<1> SUFFICES ASSUME IInv, NEW e \in DOMAIN planning, planning[e] = "planned"
             PROVE LET rules == config.rules
                       matching == {k \in DOMAIN rules : ruleMatches(rules[k], Events[e])}
                       wanted == UNION {rules[k].destinations :
                                    k \in {n \in matching : \A j \in matching : j < n => ~rules[j].stop}}
                   IN /\ {e} \X wanted \subseteq DOMAIN rows
                      /\ matching = {} /\ config.fallback # None => <<e, config.fallback>> \in DOMAIN rows
                      /\ e \in DOMAIN diffs <=> PlanOf(active, e) # PlanOf(candidate, e)
  BY Zenon DEF PlanDurable
<1> DEFINE matching == Matching(config, Events[e])
           considered == Considered(config, Events[e])
           wanted == UNION {config.rules[k].destinations : k \in considered}
<1>1. Typed /\ {e} \X PlanOf(active, e) \subseteq DOMAIN rows
  BY Zenon DEF IInv, PlanInv
<1>2. considered \subseteq matching /\ matching \subseteq DOMAIN config.rules
  BY Zenon DEF Considered, Matching
<1>3. wanted \subseteq PlanOf(active, e)
  <2>1. \A k \in considered : \A d \in config.rules[k].destinations : d \in EnabledDestinations(config)
    BY <1>1, <1>2, Zenon DEF Typed, Validate, Usable, EnabledDestinations
  <2>2. considered # {} => matching # {}
    BY <1>2, Zenon
  <2> QED  BY <2>1, <2>2, Zenon DEF PlanOf, Plan, config
<1>4. {e} \X wanted \subseteq DOMAIN rows
  BY <1>1, <1>3, Zenon
<1>5. matching = {} /\ config.fallback # None => <<e, config.fallback>> \in DOMAIN rows
  BY <1>1, Zenon DEF PlanOf, Plan, config
<1>6. e \in DOMAIN diffs <=> PlanOf(active, e) # PlanOf(candidate, e)
  BY Zenon DEF IInv, PlanInv, Changed
<1> QED  BY <1>4, <1>5, <1>6, Zenon DEF Matching, Considered

\* The invariant is what the run checks, for every row.
LEMMA Consistent == IInv => OutboxConsistent
<1> SUFFICES ASSUME IInv PROVE OutboxConsistent
  BY Zenon
<1>1. Typed /\ \A i \in DOMAIN rows : RowInv(i)
  BY Zenon DEF IInv
<1>2. TypeOK
  <2>1. DOMAIN rows \subseteq Intents
    BY <1>1, Keys, Zenon DEF Typed
  <2>2. \A i \in DOMAIN rows : rows[i] \in Row
    BY <1>1, Zenon DEF Typed
  <2>3. \A i \in DOMAIN rows :
           /\ rows[i].status \in {"pending", "sending", "retry", "delivered", "dead_letter"}
           /\ rows[i].attempts \in Nat /\ rows[i].due \in BOOLEAN
    BY <2>2, Zenon DEF Row, Statuses
  <2>4. \A l \in Lanes : lane[l].pc \in {"idle", "send", "sent", "retry", "fail"}
    BY <1>1, Zenon DEF Typed, LaneState
  <2>5. \A e \in DOMAIN planning : planning[e] \in {"new", "enqueued", "planned"}
    BY <1>1, Zenon DEF Typed
  <2> QED  BY <2>1, <2>3, <2>4, <2>5, Zenon DEF TypeOK, IInv
<1>3. DeadLetterConsistent
  BY <1>1, Zenon DEF DeadLetterConsistent, RowInv, DeadAt, IInv
<1>4. LeaseExclusive
  <2> SUFFICES ASSUME ~staled, NEW i \in DOMAIN rows PROVE Cardinality(AtWork(i)) <= 1
    BY Zenon DEF LeaseExclusive
  <2>1. Slack = 0 /\ Cardinality(AtWork(i)) \in Nat /\ Unleased(rows[i]) \in {0, 1}
    BY <1>1, Counters, Zenon DEF Slack, RowInv
  <2> QED  BY <1>1, <2>1 DEF RowInv, LeaseAt
<1>5. RetriesBounded
  <2> SUFFICES ASSUME NEW i \in DOMAIN rows PROVE rows[i].attempts <= MaxAttemptsOf(i) + faults
    BY Zenon DEF RetriesBounded, MaxAttemptsOf
  <2>1. /\ rows[i].attempts \in Nat /\ MaxAttemptsOf(i) \in Nat /\ faults \in Nat
        /\ Cardinality(Early(i)) \in Nat /\ Waiting(rows[i]) \in {0, 1}
    BY <1>1, Counters, Zenon DEF RowInv
  <2> QED  BY <1>1, <2>1 DEF RowInv, AttemptsAt
<1> QED  BY <1>2, <1>3, <1>4, <1>5, PlansDurable, Zenon DEF OutboxConsistent

\* The invariant holds in every behaviour of the outbox.
THEOREM Invariance == Spec => []IInv
BY InitHolds, NextKeeps, PTL DEF Spec

\* The rows, dead letters, leases and plans agree (storage/routing.go, router/
\* dispatcher.go): dead rows have dead letters, lanes share a row only after a
\* lease ended under one, attempts exceed max_attempts at most by the faults, and
\* a planned event has its intents, for all documents, replicas and bounds.
THEOREM Consistency == Spec => []OutboxConsistent
BY Invariance, Consistent, PTL

-----------------------------------------------------------------------------
(* The outbox implements its contract.                                     *)

fallbackMap == [i \in Intents |-> FallbackOf(i)]
stateMap == [i \in DOMAIN rows |-> StateOf(rows[i].status)]

\* A step that changes no status and no fallback is no step of the contract.
LEMMA Stutters ==
    ASSUME Same, received' = received, DOMAIN rows' = DOMAIN rows,
           \A i \in DOMAIN rows : StateOf(rows'[i].status) = StateOf(rows[i].status)
    PROVE  UNCHANGED Contract!vars
BY Reading, Zenon DEF Contract!vars, FallbackOf

\* The abstract state starts empty, and a fallback is an intent: Validate.
LEMMA ContractInit == Init => Contract!Init
<1> SUFFICES ASSUME Init PROVE Contract!Init
  BY Zenon
<1>1. Typed /\ rows = <<>> /\ received = {}
  BY InitHolds, Zenon DEF IInv, Init
<1>2. fallbackMap \in [Intents -> Intents \cup {NoIntent}]
  <2>1. ASSUME NEW i \in Intents, FallbackOf(i) # NoIntent PROVE FallbackOf(i) \in Intents
    <3>1. i \in (DOMAIN Events) \X Destinations
      BY <2>1, Zenon DEF FallbackOf, Intents
    <3> QED  BY <1>1, <2>1, <3>1, FallbackKey, Keys, Zenon
  <2> QED  BY <2>1, Zenon DEF fallbackMap
<1>3. stateMap = [i \in {} |-> "open"]
  BY <1>1 DEF stateMap
<1> QED  BY <1>1, <1>2, <1>3, Zenon DEF Contract!Init, fallbackMap, stateMap

\* The intents of the rows are intents of the contract, and a fallback is one.
LEMMA ContractKeys ==
    ASSUME IInv, NEW i \in DOMAIN rows
    PROVE  /\ i \in Intents /\ DOMAIN rows \subseteq Intents
           /\ fallbackMap[i] = FallbackOf(i)
           /\ DOMAIN stateMap = DOMAIN rows
<1>1. DOMAIN rows \subseteq Intents
  BY Keys, Zenon DEF IInv, Typed
<1> QED  BY <1>1, Zenon DEF fallbackMap, stateMap

\* A status is set on one row: a step of the contract on one intent.
LEMMA StatusSet ==
    ASSUME IInv, Same, received' = received, NEW i \in DOMAIN rows,
           DOMAIN rows' = DOMAIN rows,
           \A j \in DOMAIN rows \ {i} : rows'[j].status = rows[j].status
    PROVE  /\ rows'[i].status = "delivered" /\ i \in received => Contract!Close(i)
           /\ rows'[i].status = "retry" => Contract!Reopen(i)
<1>1. fallbackMap' = fallbackMap
  BY Reading, Zenon DEF fallbackMap, FallbackOf
<1>2. stateMap' = [stateMap EXCEPT ![i] = StateOf(rows'[i].status)]
  <2>1. \A j \in DOMAIN rows :
           StateOf(rows'[j].status) = IF j = i THEN StateOf(rows'[i].status) ELSE StateOf(rows[j].status)
    BY Zenon
  <2>2. stateMap' = [j \in DOMAIN rows |-> StateOf(rows'[j].status)]
    BY Zenon DEF stateMap
  <2>3. /\ DOMAIN stateMap = DOMAIN rows
        /\ \A j \in DOMAIN rows : stateMap[j] = StateOf(rows[j].status)
        /\ stateMap = [j \in DOMAIN rows |-> stateMap[j]]
    BY Zenon DEF stateMap
  <2> QED  BY <2>1, <2>2, <2>3, Zenon
<1>3. CASE rows'[i].status = "delivered" /\ i \in received
  BY <1>1, <1>2, <1>3, Zenon DEF Contract!Close, stateMap, fallbackMap, StateOf
<1>4. CASE rows'[i].status = "retry"
  BY <1>1, <1>2, <1>4, Zenon DEF Contract!Reopen, stateMap, fallbackMap, StateOf
<1> QED  BY <1>3, <1>4, Zenon

\* EnqueueRoutingPlan opens intents; the other steps of the planner stutter.
LEMMA PlannerRefines ==
    ASSUME IInv, NEW e \in DOMAIN planning, Planning(e) \/ Redeliver(e)
    PROVE  Contract!Next \/ UNCHANGED Contract!vars
<1>1. CASE EnqueueRoutingPlan(e)
  <2> DEFINE new == {e} \X PlanOf(active, e)
  <2>1. Same /\ received' = received /\ rows' = Inserted(rows, new)
    BY <1>1, Zenon DEF EnqueueRoutingPlan, Same
  <2>2. fallbackMap' = fallbackMap
    BY <2>1, Reading, Zenon DEF fallbackMap, FallbackOf
  <2>3. /\ DOMAIN rows' = DOMAIN rows \cup new
        /\ \A i \in DOMAIN rows' : rows'[i].status = IF i \in DOMAIN rows THEN rows[i].status ELSE "pending"
    BY <2>1, Zenon DEF Inserted
  <2>4. DOMAIN rows' \subseteq Intents
    <3>1. Typed /\ Typed'
      BY <1>1, EnqueueKeeps, Zenon DEF IInv
    <3>2. Destinations' = Destinations
      BY <2>1, Reading, Zenon
    <3> QED  BY <3>1, <3>2, Keys, Zenon DEF Typed
  <2>5. /\ DOMAIN stateMap' = DOMAIN rows' /\ DOMAIN stateMap = DOMAIN rows
        /\ stateMap' = [i \in DOMAIN stateMap \cup DOMAIN stateMap' |->
                           IF i \in DOMAIN stateMap THEN stateMap[i] ELSE "open"]
    BY <2>3, Zenon DEF stateMap, StateOf
  <2>6. Contract!Enqueue
    <3>1. Contract!With(stateMap, DOMAIN stateMap', "open") =
             [i \in DOMAIN stateMap \cup DOMAIN stateMap' |->
                 IF i \in DOMAIN stateMap THEN stateMap[i] ELSE "open"]
      BY Zenon DEF Contract!With
    <3>2. DOMAIN stateMap' \subseteq Intents /\ stateMap' = Contract!With(stateMap, DOMAIN stateMap', "open")
      BY <2>4, <2>5, <3>1
    <3> QED  BY <2>1, <2>2, <3>2, Zenon DEF Contract!Enqueue, stateMap, fallbackMap
  <2> QED  BY <2>6, Zenon DEF Contract!Next
<1>2. CASE RecordRoutingShadowDiff(e) \/ Redeliver(e)
  <2>1. Same /\ received' = received /\ rows' = rows
    BY <1>2, Zenon DEF RecordRoutingShadowDiff, Redeliver, Same, tables
  <2> QED  BY <2>1, Stutters, Zenon
<1> QED  BY <1>1, <1>2, Zenon DEF Planning

\* A send that the destination took is a Receive, whatever the lane learns.
LEMMA SendRefines ==
    ASSUME IInv, NEW l \in Lanes, SendSucceeds(l) \/ SendFails(l) \/ SendTimesOut(l)
    PROVE  Contract!Next \/ UNCHANGED Contract!vars
<1>1. Same /\ rows' = rows /\ lane[l].pc = "send"
  BY Zenon DEF SendSucceeds, SendFails, SendTimesOut, Same, planner, tables
<1>2. PICK i \in DOMAIN rows : i = lane[l].intent
  BY <1>1, Zenon DEF IInv, LanesHonest
<1>3. received' = received \/ received' = received \cup {i}
  BY <1>2, Zenon DEF SendSucceeds, SendFails, SendTimesOut
<1>4. CASE received' = received
  BY <1>1, <1>4, Stutters, Zenon
<1>5. CASE received' = received \cup {i}
  <2>1. fallbackMap' = fallbackMap /\ stateMap' = stateMap
    BY <1>1, Reading, Zenon DEF fallbackMap, stateMap, FallbackOf
  <2>2. Contract!Receive(i)
    BY <1>5, <2>1, Zenon DEF Contract!Receive, fallbackMap, stateMap
  <2>3. i \in Intents
    BY ContractKeys, Zenon
  <2> QED  BY <2>2, <2>3, Zenon DEF Contract!Next
<1> QED  BY <1>3, <1>4, <1>5, Zenon

\* A claim changes the status of its row, which stays open.
LEMMA ClaimRefines ==
    ASSUME IInv, NEW l \in Lanes, Claim(l)
    PROVE  UNCHANGED Contract!vars
<1>0. PICK i \in Due(l[2]) :
         /\ rows' = [rows EXCEPT ![i].status = "sending", ![i].attempts = rows[i].attempts + 1, ![i].due = FALSE]
         /\ lane' = [lane EXCEPT ![l] = [pc |-> "send", intent |-> i, attempts |-> rows[i].attempts + 1]]
  BY Zenon DEF Claim
<1>1. i \in DOMAIN rows /\ Claimable(rows[i])
  BY Zenon DEF Due
<1>2. Same /\ received' = received /\ rows[i] \in Row
  BY <1>1, Zenon DEF Claim, Same, planner, IInv, Typed
<1>3. /\ DOMAIN rows' = DOMAIN rows /\ rows'[i].status = "sending"
      /\ \A j \in DOMAIN rows \ {i} : rows'[j] = rows[j]
  BY <1>0, <1>1, <1>2, Zenon DEF Row
<1>4. StateOf(rows'[i].status) = StateOf(rows[i].status)
  BY <1>1, <1>3, Zenon DEF Claimable, StateOf
<1> QED  BY <1>2, <1>3, <1>4, Stutters, Zenon

\* A mark settles or reopens its intent; delivered is written only of an event
\* that was received.
LEMMA MarkRefines ==
    ASSUME IInv, NEW l \in Lanes, MarkRoutingDelivered(l) \/ MarkRoutingRetry(l)
    PROVE  Contract!Next
<1>1. Same /\ received' = received /\ lane[l].pc # "idle"
  BY Zenon DEF MarkRoutingDelivered, MarkRoutingRetry, Same, planner
<1>2. PICK i \in DOMAIN rows : i = lane[l].intent
  BY <1>1, Zenon DEF IInv, LanesHonest
<1>3. rows[i] \in Row /\ i \in Intents
  BY ContractKeys, Zenon DEF IInv, Typed
<1>4. CASE MarkRoutingDelivered(l)
  <2>1. /\ DOMAIN rows' = DOMAIN rows /\ rows'[i].status = "delivered"
        /\ \A j \in DOMAIN rows \ {i} : rows'[j].status = rows[j].status
    BY <1>2, <1>3, <1>4, Zenon DEF MarkRoutingDelivered, Row
  <2>2. i \in received
    BY <1>2, <1>4, Zenon DEF MarkRoutingDelivered, IInv, LanesHonest
  <2>3. Contract!Close(i)
    BY <1>1, <2>1, <2>2, StatusSet, Zenon
  <2> QED  BY <1>3, <2>3, Zenon DEF Contract!Next
<1>5. CASE MarkRoutingRetry(l)
  <2>1. /\ DOMAIN rows' = DOMAIN rows /\ rows'[i].status = "retry"
        /\ \A j \in DOMAIN rows \ {i} : rows'[j].status = rows[j].status
    BY <1>2, <1>3, <1>5, Zenon DEF MarkRoutingRetry, Row
  <2>2. Contract!Reopen(i)
    BY <1>1, <2>1, StatusSet, Zenon
  <2> QED  BY <1>3, <2>2, Zenon DEF Contract!Next
<1> QED  BY <1>4, <1>5, Zenon

\* DeadLetterRoutingDelivery gives the intent up and opens its fallback, in one
\* transaction.
LEMMA DeadLetterRefines ==
    ASSUME IInv, NEW l \in Lanes, DeadLetterRoutingDelivery(l)
    PROVE  Contract!Next
<1>1. Same /\ received' = received /\ lane[l].pc # "idle"
  BY Zenon DEF DeadLetterRoutingDelivery, Same, planner
<1>2. PICK i \in DOMAIN rows : i = lane[l].intent
  BY <1>1, Zenon DEF IInv, LanesHonest
<1>3. rows[i] \in Row /\ i \in Intents /\ Typed /\ fallbackMap[i] = FallbackOf(i)
  BY ContractKeys, Zenon DEF IInv, Typed
<1>4. rows' = DeadLettered(i)
  BY <1>2, Zenon DEF DeadLetterRoutingDelivery
<1> DEFINE dead == [stateMap EXCEPT ![i] = "dead"]
<1>5. /\ DOMAIN rows' = DOMAIN rows \cup (IF FallbackOf(i) = NoIntent THEN {} ELSE {FallbackOf(i)})
      /\ rows'[i].status = "dead_letter"
      /\ \A j \in DOMAIN rows \ {i} : rows'[j].status = rows[j].status
      /\ \A j \in DOMAIN rows' \ DOMAIN rows : rows'[j].status = "pending"
  <2>1. rows'[i] = [rows[i] EXCEPT !.status = "dead_letter", !.due = FALSE]
    BY <1>3, <1>4, DeadLetterRows, Zenon
  <2>2. rows'[i].status = "dead_letter"
    BY <1>3, <2>1, Zenon DEF Row
  <2>3. /\ DOMAIN rows' = DOMAIN rows \cup (IF FallbackOf(i) = NoIntent THEN {} ELSE {FallbackOf(i)})
        /\ \A j \in DOMAIN rows \ {i} : rows'[j] = rows[j]
        /\ \A j \in DOMAIN rows' \ DOMAIN rows :
              rows'[j] = [status |-> "pending", attempts |-> 0, due |-> TRUE,
                          created |-> Cardinality(DOMAIN rows)]
    BY <1>3, <1>4, DeadLetterRows, Zenon
  <2>4. \A j \in DOMAIN rows' \ DOMAIN rows : rows'[j].status = "pending"
    BY <2>3
  <2> QED  BY <2>2, <2>3, <2>4, Zenon
<1>6. /\ DOMAIN stateMap = DOMAIN rows /\ DOMAIN dead = DOMAIN rows
      /\ stateMap' = [j \in DOMAIN rows' |-> StateOf(rows'[j].status)]
      /\ dead = [j \in DOMAIN rows |-> IF j = i THEN "dead" ELSE StateOf(rows[j].status)]
  BY Zenon DEF stateMap
<1>7. \A j \in DOMAIN rows' : StateOf(rows'[j].status) = IF j \in DOMAIN rows THEN dead[j] ELSE "open"
  <2>1. \A j \in DOMAIN rows : StateOf(rows'[j].status) = IF j = i THEN "dead" ELSE StateOf(rows[j].status)
    BY <1>5, Zenon DEF StateOf
  <2>2. \A j \in DOMAIN rows' \ DOMAIN rows : StateOf(rows'[j].status) = "open"
    BY <1>5, Zenon DEF StateOf
  <2> QED  BY <1>6, <2>1, <2>2, Zenon
<1> HIDE DEF dead
<1>8. stateMap' = IF FallbackOf(i) = NoIntent THEN dead ELSE Contract!With(dead, {FallbackOf(i)}, "open")
  <2>1. CASE FallbackOf(i) = NoIntent
    <3>1. dead = [j \in DOMAIN rows |-> dead[j]]
      BY Zenon DEF dead, stateMap
    <3> QED  BY <1>5, <1>6, <1>7, <2>1, <3>1, Zenon
  <2>2. CASE FallbackOf(i) # NoIntent
    BY <1>5, <1>6, <1>7, <2>2, Zenon DEF Contract!With
  <2> QED  BY <2>1, <2>2, Zenon
<1>9. fallbackMap' = fallbackMap
  BY <1>1, Reading, Zenon DEF fallbackMap, FallbackOf
<1>10. Contract!GiveUp(i)
  <2>1. i \in DOMAIN stateMap
    BY <1>6, Zenon
  <2>2. stateMap' = IF fallbackMap[i] = NoIntent THEN dead ELSE Contract!With(dead, {fallbackMap[i]}, "open")
    BY <1>3, <1>8, Zenon
  <2> QED  BY <1>1, <1>9, <2>1, <2>2, Zenon DEF Contract!GiveUp, stateMap, fallbackMap, dead
<1> QED  BY <1>3, <1>10, Zenon DEF Contract!Next

\* Every step of the outbox is a step of the contract, or none.
LEMMA ContractStep == IInv /\ [Next]_vars => [Contract!Next]_(Contract!vars)
<1> SUFFICES ASSUME IInv, [Next]_vars PROVE Contract!Next \/ UNCHANGED Contract!vars
  BY Zenon
<1>1. ASSUME NEW l \in Lanes, runLane(l) PROVE Contract!Next \/ UNCHANGED Contract!vars
  BY <1>1, ClaimRefines, SendRefines, MarkRefines, DeadLetterRefines, Zenon DEF runLane
<1>2. ASSUME (\E l \in Lanes : MarkFails(l)) \/ (\E r \in Replicas : Crash(r)) \/ UNCHANGED vars
      PROVE  UNCHANGED Contract!vars
  <2>1. Same /\ received' = received /\ rows' = rows
    BY <1>2, Zenon DEF MarkFails, Crash, Same, planner, tables, vars
  <2> QED  BY <2>1, Stutters, Zenon
<1>3. ASSUME NEW i \in DOMAIN rows, RetryDue(i) \/ LeaseEnds(i) PROVE UNCHANGED Contract!vars
  <2>1. Same /\ received' = received /\ rows' = [rows EXCEPT ![i].due = TRUE] /\ rows[i] \in Row
    BY <1>3, Zenon DEF RetryDue, LeaseEnds, Same, planner, IInv, Typed
  <2>2. DOMAIN rows' = DOMAIN rows /\ \A j \in DOMAIN rows : rows'[j].status = rows[j].status
    BY <2>1, Zenon DEF Row
  <2> QED  BY <2>1, <2>2, Stutters, Zenon
<1>4. ASSUME NEW i \in DOMAIN rows, Requeue(i) PROVE Contract!Next
  <2>1. /\ Same /\ received' = received /\ rows[i] \in Row
        /\ rows' = [rows EXCEPT ![i] = [rows[i] EXCEPT !.status = "retry", !.attempts = 0, !.due = TRUE]]
    BY <1>4, Zenon DEF Requeue, RequeueRoutingDeadLetter, Same, planner, IInv, Typed
  <2>2. /\ DOMAIN rows' = DOMAIN rows /\ rows'[i].status = "retry"
        /\ \A j \in DOMAIN rows \ {i} : rows'[j].status = rows[j].status
    BY <2>1, Zenon DEF Row
  <2>3. Contract!Reopen(i) /\ i \in Intents
    BY <2>1, <2>2, StatusSet, ContractKeys, Zenon
  <2> QED  BY <2>3, Zenon DEF Contract!Next
<1> QED  BY <1>1, <1>2, <1>3, <1>4, PlannerRefines, Zenon DEF Next

\* The outbox implements RoutingContract (docs/adr/0030, 0031): no intent
\* disappears, delivered means received, and a delivery is given up together with
\* the insert of its fallback, through every crash, lost answer, ended lease,
\* redelivery and requeue.
THEOREM Refinement == Spec => ImplementsContract
<1>1. Init => Contract!Init
  BY ContractInit, Zenon
<1>2. IInv /\ [Next]_vars => [Contract!Next]_(Contract!vars)
  BY ContractStep, Zenon
<1> QED  BY <1>1, <1>2, Invariance, PTL DEF Spec, ImplementsContract, Contract!Spec
=============================================================================
