--------------------------- MODULE PipelineProofs ---------------------------
(***************************************************************************)
(* Proofs about Pipeline: nothing is lost without evidence, the stages     *)
(* agree with each other, and the first write of an event wins, for every  *)
(* set of workers and events, every valid configuration and policy, and    *)
(* any number of faults.                                                   *)
(*                                                                         *)
(* A stage is not one transaction with the next, so what the stages behind *)
(* it rely on has to be carried by the worker: the invariant says, for     *)
(* each stage, which tables already hold the worker's event.  That stays   *)
(* true while other workers write, because every table only grows and a    *)
(* row, a decision or an envelope never changes (Grows).                   *)
(***************************************************************************)
EXTENDS Pipeline, TLAPS

\* The stages from which on the flight recorder has the event, and those from
\* which on its change marker is written.
Recorded == {"normalize", "change", "shape", "policy", "persist", "route", "ack"}
Marked == {"shape", "policy", "persist", "route", "ack"}
Unfiltered == {"flight", "normalize", "change", "shape", "policy"}

\* The event is persisted and routed, or its decision says it was dropped.
Explained(e, D) ==
    \/ D.rows[e] # {} /\ D.intents[e] # {}
    \/ \E d \in D.decisions[e] : ~d.keep

\* The mark of the firewall, if tags have it, is explained.
Honest(e, tags, D) == Quarantined \in DOMAIN tags => MarkExplained(e, D)

WorkerShape(r) ==
    r = [event |-> r.event, stage |-> r.stage, attempts |-> r.attempts, tags |-> r.tags,
         todo |-> r.todo, blocked |-> r.blocked]

\* What a worker in state r relies on in the tables D.
WorkerInv(r, D) ==
    /\ WorkerShape(r)
    /\ r.stage \in Unfiltered \cup Recorded \cup {"idle", "dlq"}
    /\ r.attempts \in 0..MaxAttempts
    /\ r.stage = "idle" => r.event = ""
    /\ r.stage # "idle" => r.event \in Ids
    /\ r.blocked # {} => r.stage = "policy"
    /\ r.stage \in Recorded => r.event \in D.flight
    /\ r.stage \in Marked /\ Events[r.event].marker = "valid" => r.event \in D.markers
    /\ r.stage # "idle" => Honest(r.event, r.tags, D)
    /\ r.stage = "route" => D.rows[r.event] # {}
    /\ r.stage = "ack" => Explained(r.event, D)

DbShape(D) ==
    /\ D = [flight |-> D.flight, markers |-> D.markers, quarantine |-> D.quarantine,
            findings |-> D.findings, decisions |-> D.decisions, stats |-> D.stats,
            seen |-> D.seen, rows |-> D.rows, intents |-> D.intents]
    /\ D.decisions = [e \in Ids |-> D.decisions[e]]
    /\ D.stats = [e \in Ids |-> D.stats[e]]
    /\ D.rows = [e \in Ids |-> D.rows[e]]
    /\ D.intents = [e \in Ids |-> D.intents[e]]

\* What the tables D say of event e, whose deliveries ended as in ends.
EventInv(e, D, ends) ==
    /\ ends \subseteq {"acked", "dlq"}
    /\ e \in D.flight \/ (D.decisions[e] = {} /\ D.rows[e] = {} /\ D.intents[e] = {} /\ e \notin D.quarantine)
    /\ "acked" \in ends => Explained(e, D)
    /\ "acked" \in ends /\ Events[e].marker = "valid" => e \in D.markers
    /\ \A d \in D.decisions[e] : isProtected(Config.protection, Events[e]) => d.keep
    /\ \A tags \in D.rows[e] \cup D.intents[e] : Honest(e, tags, D)
    /\ D.intents[e] # {} => D.rows[e] # {}
    /\ AtMostOne(D.decisions[e]) /\ AtMostOne(D.rows[e]) /\ AtMostOne(D.intents[e])
    /\ D.stats[e] = IF D.decisions[e] = {} THEN 0 ELSE 1

\* The inductive invariant.
PipelineInv ==
    /\ worker = [w \in Workers |-> worker[w]]
    /\ settled = [e \in Ids |-> settled[e]]
    /\ DbShape(db)
    /\ \A w \in Workers : WorkerInv(worker[w], db)
    /\ \A e \in Ids : EventInv(e, db, settled[e])
    /\ batch \in Batches /\ faults \in 0..MaxFaults

\* No table of D forgets anything in D2.
Grows(D, D2) ==
    /\ D.flight \subseteq D2.flight /\ D.markers \subseteq D2.markers
    /\ D.quarantine \subseteq D2.quarantine
    /\ \A e \in Ids :
          /\ D.decisions[e] # {} => D2.decisions[e] = D.decisions[e]
          /\ D.rows[e] # {} => D2.rows[e] = D.rows[e]
          /\ D.intents[e] # {} => D2.intents[e] = D.intents[e]

\* D2 says of e what D says.
Same(e, D, D2) ==
    /\ e \in D.flight <=> e \in D2.flight
    /\ e \in D.markers <=> e \in D2.markers
    /\ e \in D.quarantine <=> e \in D2.quarantine
    /\ D2.decisions[e] = D.decisions[e] /\ D2.stats[e] = D.stats[e]
    /\ D2.rows[e] = D.rows[e] /\ D2.intents[e] = D.intents[e]

\* What a write of the tables guarantees.
Sound(D) ==
    /\ DbShape(D) /\ Grows(db, D)
    /\ \A e \in Ids : EventInv(e, D, settled[e])

-----------------------------------------------------------------------------
(***************************************************************************)
(* The order of the stages.                                                *)
(***************************************************************************)

\* The position CHOOSE finds in the chain is the only one.
LEMMA ChainPositions ==
    ASSUME NEW k \in 1..7
    PROVE  (CHOOSE i \in DOMAIN Chain : Chain[i] = Chain[k]) = k
  <1>1. DOMAIN Chain = 1..7
    BY DEF Chain
  <1>2. \A i \in 1..7 : Chain[i] = Chain[k] => i = k
    BY DEF Chain
  <1> QED
    BY <1>1, <1>2

\* The stage that follows each stage of the chain.
LEMMA StageOrder ==
    /\ After("flight") = "normalize" /\ After("normalize") = "change"
    /\ After("change") = "shape" /\ After("shape") = "policy"
    /\ After("policy") = "persist" /\ After("persist") = "route"
    /\ After("route") = "ack" /\ Chain[1] = "flight"
  <1>1. /\ Chain[1] = "flight" /\ Chain[2] = "normalize" /\ Chain[3] = "change"
        /\ Chain[4] = "shape" /\ Chain[5] = "policy" /\ Chain[6] = "persist"
        /\ Chain[7] = "route" /\ Len(Chain) = 7
    BY DEF Chain
  <1>2. \A k \in 1..7 : After(Chain[k]) = IF k = 7 THEN "ack" ELSE Chain[k + 1]
    BY ChainPositions, <1>1 DEF After
  <1> QED
    BY <1>1, <1>2

\* The stages are those of the invariant.
LEMMA StageNames == Unfiltered \cup Recorded \cup {"idle", "dlq"} = Stages
  <1>1. Range(Chain) = {"flight", "normalize", "change", "shape", "policy", "persist", "route"}
    <2>1. DOMAIN Chain = 1..7
      BY DEF Chain
    <2> QED
      BY <2>1 DEF Chain, Range
  <1> QED
    BY <1>1, Zenon DEF Stages, Unfiltered, Recorded

-----------------------------------------------------------------------------
(***************************************************************************)
(* Growing tables.                                                         *)
(***************************************************************************)

\* A mark that is explained stays explained: quarantine grows and a decision is
\* final.
LEMMA HonestStays ==
    ASSUME NEW e \in Ids, NEW tags, NEW D, NEW D2, Honest(e, tags, D), Grows(D, D2)
    PROVE  Honest(e, tags, D2)
  <1>1. MarkExplained(e, D) => MarkExplained(e, D2)
    BY Zenon DEF MarkExplained, Grows
  <1> QED
    BY <1>1, Zenon DEF Honest

\* What a worker relies on outlives the writes of the others.
LEMMA WorkerOutlives ==
    ASSUME NEW r, NEW D, NEW D2, WorkerInv(r, D), Grows(D, D2)
    PROVE  WorkerInv(r, D2)
  <1>1. r.stage # "idle" /\ Explained(r.event, D) => Explained(r.event, D2)
    BY Zenon DEF WorkerInv, Grows, Explained
  <1>2. r.stage = "ack" => r.stage # "idle"
    OBVIOUS
  <1>3. r.stage = "route" => r.stage # "idle"
    OBVIOUS
  <1>4. r.stage = "route" => D2.rows[r.event] # {}
    BY <1>3, Zenon DEF WorkerInv, Grows
  <1>5. r.stage # "idle" => Honest(r.event, r.tags, D2)
    BY HonestStays, Zenon DEF WorkerInv
  <1> QED
    BY <1>1, <1>2, <1>4, <1>5, Zenon DEF WorkerInv, Grows

\* An event whose rows did not change keeps its part of the invariant.
LEMMA EventOutlives ==
    ASSUME NEW e, NEW D, NEW D2, NEW ends, EventInv(e, D, ends), Same(e, D, D2)
    PROVE  EventInv(e, D2, ends)
  <1>1. Explained(e, D) => Explained(e, D2)
    BY Zenon DEF Same, Explained
  <1>2. ASSUME NEW tags, Honest(e, tags, D)
        PROVE  Honest(e, tags, D2)
    BY <1>2, Zenon DEF Same, Honest, MarkExplained
  <1> QED
    BY <1>1, <1>2, Zenon DEF EventInv, Same

\* A worker that changes nothing in the tables.
LEMMA SoundStays ==
    ASSUME PipelineInv
    PROVE  Sound(db)
  BY Zenon DEF PipelineInv, Sound, Grows

-----------------------------------------------------------------------------
(***************************************************************************)
(* The writes of the stages.                                               *)
(***************************************************************************)

\* A write of the row of one event leaves the others alone: it is sound when it
\* grows and keeps the invariant of that event.
LEMMA OneEvent ==
    ASSUME PipelineInv, NEW e \in Ids, NEW D, DbShape(D),
           \A other \in Ids \ {e} : Same(other, db, D),
           db.flight \subseteq D.flight, db.markers \subseteq D.markers,
           db.quarantine \subseteq D.quarantine,
           db.decisions[e] # {} => D.decisions[e] = db.decisions[e],
           db.rows[e] # {} => D.rows[e] = db.rows[e],
           db.intents[e] # {} => D.intents[e] = db.intents[e],
           EventInv(e, D, settled[e])
    PROVE  Sound(D)
  <1>1. \A other \in Ids : EventInv(other, D, settled[other])
    <2> SUFFICES ASSUME NEW other \in Ids
                 PROVE  EventInv(other, D, settled[other])
      OBVIOUS
    <2>1. CASE other = e
      BY <2>1
    <2>2. CASE other # e
      <3>1. Same(other, db, D) /\ EventInv(other, db, settled[other])
        BY <2>2 DEF PipelineInv
      <3> QED
        BY <3>1, EventOutlives, Zenon
    <2> QED
      BY <2>1, <2>2
  <1>2. \A other \in Ids :
          /\ db.decisions[other] # {} => D.decisions[other] = db.decisions[other]
          /\ db.rows[other] # {} => D.rows[other] = db.rows[other]
          /\ db.intents[other] # {} => D.intents[other] = db.intents[other]
    BY Zenon DEF Same
  <1>3. Grows(db, D)
    BY <1>2, Zenon DEF Grows
  <1> QED
    BY <1>1, <1>3, Zenon DEF Sound

\* The tables as a record, from which the fields of a write can be read.
LEMMA Tables ==
    ASSUME PipelineInv
    PROVE  db = [flight |-> db.flight, markers |-> db.markers, quarantine |-> db.quarantine,
                 findings |-> db.findings, decisions |-> db.decisions, stats |-> db.stats,
                 seen |-> db.seen, rows |-> db.rows, intents |-> db.intents]
  BY Zenon DEF PipelineInv, DbShape

\* The tables with one row per event, as functions.
LEMMA Rows ==
    ASSUME PipelineInv
    PROVE  /\ db.decisions = [e \in Ids |-> db.decisions[e]]
           /\ db.stats = [e \in Ids |-> db.stats[e]]
           /\ db.rows = [e \in Ids |-> db.rows[e]]
           /\ db.intents = [e \in Ids |-> db.intents[e]]
  BY Zenon DEF PipelineInv, DbShape

\* WriteFlightEvent records the event as it arrived.
LEMMA FlightIsSound ==
    ASSUME PipelineInv, NEW e \in Ids
    PROVE  Sound(WriteFlightEvent(e)) /\ e \in WriteFlightEvent(e).flight
  <1> DEFINE D == WriteFlightEvent(e)
  <1>1. /\ D = [flight |-> db.flight \cup {e}, markers |-> db.markers,
                quarantine |-> db.quarantine, findings |-> db.findings,
                decisions |-> db.decisions, stats |-> db.stats, seen |-> db.seen,
                rows |-> db.rows, intents |-> db.intents]
    BY Tables DEF WriteFlightEvent
  <1>2. /\ D.flight = db.flight \cup {e} /\ D.markers = db.markers
        /\ D.quarantine = db.quarantine /\ D.findings = db.findings
        /\ D.decisions = db.decisions /\ D.stats = db.stats /\ D.seen = db.seen
        /\ D.rows = db.rows /\ D.intents = db.intents
    BY <1>1
  <1> HIDE DEF D
  <1>3. DbShape(D)
    BY <1>1, <1>2, Rows, Zenon DEF DbShape
  <1>4. \A other \in Ids \ {e} : Same(other, db, D)
    BY <1>2, Zenon DEF Same
  <1>5. EventInv(e, D, settled[e])
    <2>1. EventInv(e, db, settled[e])
      BY DEF PipelineInv
    <2> QED
      BY <1>2, <2>1, Zenon DEF EventInv, Explained, Honest, MarkExplained
  <1>6. /\ db.flight \subseteq D.flight /\ db.markers \subseteq D.markers
        /\ db.quarantine \subseteq D.quarantine
        /\ D.decisions[e] = db.decisions[e] /\ D.rows[e] = db.rows[e]
        /\ D.intents[e] = db.intents[e] /\ e \in D.flight
    BY <1>2, Zenon
  <1>7. Sound(D)
    BY <1>3, <1>4, <1>5, <1>6, OneEvent, Zenon
  <1> QED
    BY <1>6, <1>7 DEF D

\* RecordChangeMarker adds the marker of a change event.
LEMMA MarkerIsSound ==
    ASSUME PipelineInv, NEW e \in Ids
    PROVE  Sound(RecordChangeMarker(e)) /\ e \in RecordChangeMarker(e).markers
  <1> DEFINE D == RecordChangeMarker(e)
  <1>1. /\ D = [flight |-> db.flight, markers |-> db.markers \cup {e},
                quarantine |-> db.quarantine, findings |-> db.findings,
                decisions |-> db.decisions, stats |-> db.stats, seen |-> db.seen,
                rows |-> db.rows, intents |-> db.intents]
    BY Tables DEF RecordChangeMarker
  <1>2. /\ D.flight = db.flight /\ D.markers = db.markers \cup {e}
        /\ D.quarantine = db.quarantine /\ D.findings = db.findings
        /\ D.decisions = db.decisions /\ D.stats = db.stats /\ D.seen = db.seen
        /\ D.rows = db.rows /\ D.intents = db.intents
    BY <1>1
  <1> HIDE DEF D
  <1>3. DbShape(D)
    BY <1>1, <1>2, Rows, Zenon DEF DbShape
  <1>4. \A other \in Ids \ {e} : Same(other, db, D)
    BY <1>2, Zenon DEF Same
  <1>5. EventInv(e, D, settled[e])
    <2>1. EventInv(e, db, settled[e])
      BY DEF PipelineInv
    <2> QED
      BY <1>2, <2>1, Zenon DEF EventInv, Explained, Honest, MarkExplained
  <1>6. /\ db.flight \subseteq D.flight /\ db.markers \subseteq D.markers
        /\ db.quarantine \subseteq D.quarantine
        /\ D.decisions[e] = db.decisions[e] /\ D.rows[e] = db.rows[e]
        /\ D.intents[e] = db.intents[e] /\ e \in D.markers
    BY <1>2, Zenon
  <1>7. Sound(D)
    BY <1>3, <1>4, <1>5, <1>6, OneEvent, Zenon
  <1> QED
    BY <1>6, <1>7 DEF D

\* RecordQuarantine keeps the original of an event the flight recorder has.
LEMMA QuarantineIsSound ==
    ASSUME PipelineInv, NEW e \in Ids, e \in db.flight
    PROVE  Sound(RecordQuarantine(e)) /\ e \in RecordQuarantine(e).quarantine
  <1> DEFINE D == RecordQuarantine(e)
  <1>1. /\ D = [flight |-> db.flight, markers |-> db.markers,
                quarantine |-> db.quarantine \cup {e}, findings |-> db.findings,
                decisions |-> db.decisions, stats |-> db.stats, seen |-> db.seen,
                rows |-> db.rows, intents |-> db.intents]
    BY Tables DEF RecordQuarantine
  <1>2. /\ D.flight = db.flight /\ D.markers = db.markers
        /\ D.quarantine = db.quarantine \cup {e} /\ D.findings = db.findings
        /\ D.decisions = db.decisions /\ D.stats = db.stats /\ D.seen = db.seen
        /\ D.rows = db.rows /\ D.intents = db.intents
    BY <1>1
  <1> HIDE DEF D
  <1>3. DbShape(D)
    BY <1>1, <1>2, Rows, Zenon DEF DbShape
  <1>4. \A other \in Ids \ {e} : Same(other, db, D)
    BY <1>2, Zenon DEF Same
  <1>5. EventInv(e, D, settled[e])
    <2>1. EventInv(e, db, settled[e])
      BY DEF PipelineInv
    <2> QED
      BY <1>2, <2>1, Zenon DEF EventInv, Explained, Honest, MarkExplained
  <1>6. /\ db.flight \subseteq D.flight /\ db.markers \subseteq D.markers
        /\ db.quarantine \subseteq D.quarantine
        /\ D.decisions[e] = db.decisions[e] /\ D.rows[e] = db.rows[e]
        /\ D.intents[e] = db.intents[e] /\ e \in D.quarantine
    BY <1>2, Zenon
  <1>7. Sound(D)
    BY <1>3, <1>4, <1>5, <1>6, OneEvent, Zenon
  <1> QED
    BY <1>6, <1>7 DEF D

\* WriteEvent claims the event once; what was persisted stays.
LEMMA RowIsSound ==
    ASSUME PipelineInv, NEW e \in Ids, NEW tags, e \in db.flight,
           Honest(e, tags, db)
    PROVE  Sound(WriteEvent(e, tags)) /\ WriteEvent(e, tags).rows[e] # {}
  <1> DEFINE D == WriteEvent(e, tags)
  <1> DEFINE T == [db.rows EXCEPT ![e] = IF @ = {} THEN {tags} ELSE @]
  <1>1. D = [flight |-> db.flight, markers |-> db.markers,
              quarantine |-> db.quarantine, findings |-> db.findings,
              decisions |-> db.decisions, stats |-> db.stats,
              seen |-> db.seen, rows |-> T,
              intents |-> db.intents]
    BY Tables DEF WriteEvent
  <1>2. /\ D.flight = db.flight /\ D.markers = db.markers /\ D.quarantine = db.quarantine
        /\ D.findings = db.findings /\ D.decisions = db.decisions /\ D.stats = db.stats
        /\ D.seen = db.seen /\ D.rows = T /\ D.intents = db.intents
    BY <1>1
  <1>3. /\ T = [x \in Ids |-> T[x]]
        /\ T[e] = IF db.rows[e] = {} THEN {tags} ELSE db.rows[e]
        /\ \A other \in Ids \ {e} : T[other] = db.rows[other]
    BY Rows
  <1> HIDE DEF D, T
  <1>4. DbShape(D)
    BY <1>1, <1>2, <1>3, Rows, Zenon DEF DbShape
  <1>5. \A other \in Ids \ {e} : Same(other, db, D)
    BY <1>2, <1>3, Zenon DEF Same
  <1>6. /\ T[e] # {} /\ AtMostOne(T[e])
        /\ db.rows[e] # {} => T[e] = db.rows[e]
        /\ \A t \in T[e] : Honest(e, t, db)
    <2>1. EventInv(e, db, settled[e])
      BY DEF PipelineInv
    <2>2. CASE db.rows[e] = {}
      BY <1>3, <2>2, Zenon DEF AtMostOne
    <2>3. CASE db.rows[e] # {}
      BY <1>3, <2>1, <2>3, Zenon DEF EventInv
    <2> QED
      BY <2>2, <2>3
  <1>7. EventInv(e, D, settled[e])
    <2>1. EventInv(e, db, settled[e])
      BY DEF PipelineInv
    <2>2. Explained(e, db) => Explained(e, D)
      BY <1>2, <1>6, Zenon DEF Explained
    <2>3. \A t : Honest(e, t, db) => Honest(e, t, D)
      BY <1>2, Zenon DEF Honest, MarkExplained
    <2> QED
      BY <1>2, <1>6, <2>1, <2>2, <2>3, Zenon DEF EventInv
  <1>8. Sound(D)
    BY <1>2, <1>4, <1>5, <1>6, <1>7, OneEvent, Zenon
  <1>9. D.rows[e] # {}
    BY <1>2, <1>6, Zenon
  <1> QED
    BY <1>8, <1>9 DEF D

\* EnqueueRoutingPlan keeps the envelope it was first given.
LEMMA EnvelopeIsSound ==
    ASSUME PipelineInv, NEW e \in Ids, NEW tags, e \in db.flight, db.rows[e] # {},
           Honest(e, tags, db)
    PROVE  Sound(EnqueueRoutingPlan(e, tags)) /\ EnqueueRoutingPlan(e, tags).intents[e] # {} /\ EnqueueRoutingPlan(e, tags).rows = db.rows
  <1> DEFINE D == EnqueueRoutingPlan(e, tags)
  <1> DEFINE T == [db.intents EXCEPT ![e] = IF @ = {} THEN {tags} ELSE @]
  <1>1. D = [flight |-> db.flight, markers |-> db.markers,
              quarantine |-> db.quarantine, findings |-> db.findings,
              decisions |-> db.decisions, stats |-> db.stats,
              seen |-> db.seen, rows |-> db.rows,
              intents |-> T]
    BY Tables DEF EnqueueRoutingPlan
  <1>2. /\ D.flight = db.flight /\ D.markers = db.markers /\ D.quarantine = db.quarantine
        /\ D.findings = db.findings /\ D.decisions = db.decisions /\ D.stats = db.stats
        /\ D.seen = db.seen /\ D.rows = db.rows /\ D.intents = T
    BY <1>1
  <1>3. /\ T = [x \in Ids |-> T[x]]
        /\ T[e] = IF db.intents[e] = {} THEN {tags} ELSE db.intents[e]
        /\ \A other \in Ids \ {e} : T[other] = db.intents[other]
    BY Rows
  <1> HIDE DEF D, T
  <1>4. DbShape(D)
    BY <1>1, <1>2, <1>3, Rows, Zenon DEF DbShape
  <1>5. \A other \in Ids \ {e} : Same(other, db, D)
    BY <1>2, <1>3, Zenon DEF Same
  <1>6. /\ T[e] # {} /\ AtMostOne(T[e])
        /\ db.intents[e] # {} => T[e] = db.intents[e]
        /\ \A t \in T[e] : Honest(e, t, db)
    <2>1. EventInv(e, db, settled[e])
      BY DEF PipelineInv
    <2>2. CASE db.intents[e] = {}
      BY <1>3, <2>2, Zenon DEF AtMostOne
    <2>3. CASE db.intents[e] # {}
      BY <1>3, <2>1, <2>3, Zenon DEF EventInv
    <2> QED
      BY <2>2, <2>3
  <1>7. EventInv(e, D, settled[e])
    <2>1. EventInv(e, db, settled[e])
      BY DEF PipelineInv
    <2>2. Explained(e, db) => Explained(e, D)
      BY <1>2, <1>6, Zenon DEF Explained
    <2>3. \A t : Honest(e, t, db) => Honest(e, t, D)
      BY <1>2, Zenon DEF Honest, MarkExplained
    <2> QED
      BY <1>2, <1>6, <2>1, <2>2, <2>3, Zenon DEF EventInv
  <1>8. Sound(D)
    BY <1>2, <1>4, <1>5, <1>6, <1>7, OneEvent, Zenon
  <1>9. D.intents[e] # {} /\ D.rows = db.rows
    BY <1>2, <1>6, Zenon
  <1> QED
    BY <1>8, <1>9 DEF D

\* A decision keeps a protected event and is stored with the same verdict and
\* tags.
LEMMA DecisionFacts ==
    ASSUME NEW e \in Ids, NEW p \in Pressures, NEW m \in Multipliers
    PROVE  /\ isProtected(Config.protection, Events[e]) => Evaluate(e, p, m).keep
           /\ Stored(Evaluate(e, p, m)).keep = Evaluate(e, p, m).keep
           /\ Stored(Evaluate(e, p, m)).tags = Evaluate(e, p, m).tags
  <1>1. Evaluate(e, p, m) = evaluateConfig(Config, Events[e], p, m, Hash[e])
    <2>1. m \in Multipliers \cup {0}
      OBVIOUS
    <2> QED
      BY <2>1, Zenon DEF Evaluate, Decisions
  <1>2. isProtected(Config.protection, Events[e]) => Evaluate(e, p, m).keep
    <2>1. isProtected(Config.protection, Events[e])
              => evaluateConfig(Config, Events[e], p, m, Hash[e]).keep
      BY Zenon DEF evaluateConfig
    <2> QED
      BY <1>1, <2>1, Zenon
  <1>3. Stored(Evaluate(e, p, m)).keep = Evaluate(e, p, m).keep
    BY <1>1, Zenon DEF evaluateConfig, Stored
  <1>4. Stored(Evaluate(e, p, m)).tags = Evaluate(e, p, m).tags
    BY <1>1, Zenon DEF evaluateConfig, Stored
  <1> QED
    BY <1>2, <1>3, <1>4

\* ResolveShapingDecision inserts the first decision and counts it.
LEMMA DecisionIsSound ==
    ASSUME PipelineInv, NEW e \in Ids, e \in db.flight,
           NEW p \in Pressures, NEW m \in Multipliers
    PROVE  /\ Sound(ResolveShapingDecision(e, Evaluate(e, p, m)))
           /\ db.decisions[e] = {} =>
                 ResolveShapingDecision(e, Evaluate(e, p, m)).decisions[e] = {Stored(Evaluate(e, p, m))}
  <1> DEFINE new == Stored(Evaluate(e, p, m))
             D == ResolveShapingDecision(e, Evaluate(e, p, m))
             T == [db.decisions EXCEPT ![e] = {new}]
             C == [db.stats EXCEPT ![e] = @ + 1]
  <1>1. CASE db.decisions[e] # {}
    <2>1. D = db
      BY <1>1 DEF ResolveShapingDecision
    <2> QED
      BY <1>1, <2>1, SoundStays
  <1>2. CASE db.decisions[e] = {}
    <2> HIDE DEF new
    <2>1. D = [db EXCEPT !.decisions[e] = {new}, !.stats[e] = @ + 1]
      BY <1>2, Zenon DEF ResolveShapingDecision, new
    <2>2. D = [flight |-> db.flight, markers |-> db.markers,
               quarantine |-> db.quarantine, findings |-> db.findings,
               decisions |-> T, stats |-> C,
               seen |-> db.seen, rows |-> db.rows, intents |-> db.intents]
      <3> HIDE DEF D
      <3> QED
        BY <2>1, Tables, Zenon
    <2>3. /\ D.flight = db.flight /\ D.markers = db.markers /\ D.quarantine = db.quarantine
          /\ D.findings = db.findings /\ D.decisions = T /\ D.stats = C
          /\ D.seen = db.seen /\ D.rows = db.rows /\ D.intents = db.intents
      <3> HIDE DEF D, T, C
      <3> QED
        BY <2>2
    <2>4. /\ T = [x \in Ids |-> T[x]] /\ T[e] = {new}
          /\ \A other \in Ids \ {e} : T[other] = db.decisions[other]
      BY Rows
    <2>5. db.stats[e] = 0
      BY <1>2, Zenon DEF PipelineInv, EventInv
    <2>6. /\ C = [x \in Ids |-> C[x]] /\ C[e] = 1
          /\ \A other \in Ids \ {e} : C[other] = db.stats[other]
      BY <2>5, Rows
    <2> HIDE DEF D, T, C
    <2>7. DbShape(D)
      BY <2>2, <2>3, <2>4, <2>6, Rows, Zenon DEF DbShape
    <2>8. \A other \in Ids \ {e} : Same(other, db, D)
      BY <2>3, <2>4, <2>6, Zenon DEF Same
    <2>9. EventInv(e, D, settled[e])
      <3>1. EventInv(e, db, settled[e])
        BY DEF PipelineInv
      <3>2. Explained(e, db) => Explained(e, D)
        BY <1>2, <2>3, Zenon DEF Explained
      <3>3. isProtected(Config.protection, Events[e]) => new.keep
        BY DecisionFacts DEF new
      <3>4. T[e] # {} /\ AtMostOne(T[e])
        BY <2>4, Zenon DEF AtMostOne
      <3>5. D.stats[e] = IF D.decisions[e] = {} THEN 0 ELSE 1
        BY <2>3, <2>6, <3>4
      <3>6. \A t : Honest(e, t, db) => Honest(e, t, D)
        BY <1>2, <2>3, Zenon DEF Honest, MarkExplained
      <3> QED
        BY <2>3, <2>4, <3>1, <3>2, <3>3, <3>4, <3>5, <3>6, Zenon DEF EventInv
    <2>10. Sound(D)
      BY <1>2, <2>3, <2>7, <2>8, <2>9, OneEvent, Zenon
    <2> QED
      BY <2>3, <2>4, <2>10 DEF D, new
  <1> QED
    BY <1>1, <1>2

\* Observations and findings say nothing of the events.
LEMMA ReportIsSound ==
    ASSUME PipelineInv, NEW D, NEW reports, NEW values,
           D = [flight |-> db.flight, markers |-> db.markers,
                quarantine |-> db.quarantine, findings |-> reports,
                decisions |-> db.decisions, stats |-> db.stats,
                seen |-> values, rows |-> db.rows, intents |-> db.intents]
    PROVE  Sound(D)
  <1>1. /\ D.flight = db.flight /\ D.markers = db.markers /\ D.quarantine = db.quarantine
        /\ D.findings = reports /\ D.decisions = db.decisions /\ D.stats = db.stats
        /\ D.seen = values /\ D.rows = db.rows /\ D.intents = db.intents
    OBVIOUS
  <1>2. DbShape(D)
    BY <1>1, Rows, Zenon DEF DbShape
  <1>3. \A e \in Ids : Same(e, db, D)
    BY <1>1, Zenon DEF Same
  <1>4. \A e \in Ids : EventInv(e, D, settled[e])
    BY <1>3, EventOutlives, Zenon DEF PipelineInv
  <1>5. Grows(db, D)
    BY <1>1, Zenon DEF Grows
  <1> QED
    BY <1>2, <1>4, <1>5 DEF Sound

\* An observation of the firewall, with or without its finding.
LEMMA ObservationIsSound ==
    ASSUME PipelineInv, NEW d, NEW window, NEW value, NEW finding
    PROVE  /\ Sound(ObserveCardinality(d, window, value))
           /\ Sound([ObserveCardinality(d, window, value) EXCEPT !.findings = @ \cup {finding}])
  <1> DEFINE values == [db.seen EXCEPT ![d] = @ \cup {<<window, value>>}]
             D == ObserveCardinality(d, window, value)
             D2 == [D EXCEPT !.findings = @ \cup {finding}]
  <1>1. D = [db EXCEPT !.seen = values]
    BY Zenon DEF ObserveCardinality
  <1> HIDE DEF values, D
  <1>2. D = [flight |-> db.flight, markers |-> db.markers,
             quarantine |-> db.quarantine, findings |-> db.findings,
             decisions |-> db.decisions, stats |-> db.stats,
             seen |-> values, rows |-> db.rows, intents |-> db.intents]
    BY <1>1, Tables
  <1>3. D2 = [flight |-> db.flight, markers |-> db.markers,
              quarantine |-> db.quarantine, findings |-> db.findings \cup {finding},
              decisions |-> db.decisions, stats |-> db.stats,
              seen |-> values, rows |-> db.rows, intents |-> db.intents]
    BY <1>2
  <1> HIDE DEF D2
  <1>4. Sound(D) /\ Sound(D2)
    BY <1>2, <1>3, ReportIsSound, Zenon
  <1> QED
    BY <1>4 DEF D, D2

-----------------------------------------------------------------------------
(***************************************************************************)
(* What a step does to the worker that takes it.                           *)
(***************************************************************************)

Moved(w) ==
    /\ worker' = [v \in Workers |-> worker'[v]]
    /\ \A v \in Workers \ {w} : worker'[v] = worker[v]

\* Worker w, passing its stage with these tags, waits with todo.
Passed(r, tags, todo) ==
    [event |-> r.event, stage |-> After(r.stage), attempts |-> r.attempts, tags |-> tags,
     todo |-> todo, blocked |-> r.blocked]

\* A step of one worker that writes soundly, and leaves its worker with what it
\* relies on, keeps the invariant.
LEMMA WorkerStep ==
    ASSUME PipelineInv, NEW w \in Workers, Moved(w), Sound(db'), WorkerInv(worker'[w], db'),
           settled' = settled, batch' = batch, faults' \in 0..MaxFaults
    PROVE  PipelineInv' /\ Grows(db, db')
  <1>1. \A v \in Workers : WorkerInv(worker'[v], db')
    <2> SUFFICES ASSUME NEW v \in Workers, v # w
                 PROVE  WorkerInv(worker'[v], db')
      OBVIOUS
    <2>1. WorkerInv(worker[v], db) /\ Grows(db, db')
      BY DEF PipelineInv, Sound
    <2>2. WorkerInv(worker[v], db')
      BY <2>1, WorkerOutlives, Zenon
    <2> QED
      BY <2>2 DEF Moved
  <1>2. DbShape(db') /\ Grows(db, db')
    BY DEF Sound
  <1>3. \A e \in Ids : EventInv(e, db', settled'[e])
    BY DEF Sound
  <1>4. /\ worker' = [v \in Workers |-> worker'[v]]
        /\ settled' = [e \in Ids |-> settled'[e]] /\ batch' \in Batches
    BY DEF Moved, PipelineInv
  <1> QED
    BY <1>1, <1>2, <1>3, <1>4, Zenon DEF PipelineInv

\* The bounds are numbers, from the assumptions.
LEMMA Bounds == MaxAttempts \in Nat \ {0} /\ MaxFaults \in Nat
  BY PipelineAssumption, Zenon DEF PipelineAssumption

\* The number of faults stays within its bound.
LEMMA FaultsBounded ==
    ASSUME PipelineInv, (UNCHANGED faults) \/ (\E kind \in Faults : Fault(kind))
    PROVE  faults' \in 0..MaxFaults
  <1>1. faults \in 0..MaxFaults
    BY Zenon DEF PipelineInv
  <1> QED
    BY <1>1, Bounds DEF Fault

\* A worker that starts, or gives its event up, relies on nothing yet.
LEMMA StartRelies ==
    ASSUME NEW e \in Ids, NEW n \in 0..MaxAttempts, NEW stage \in {"flight", "dlq"}, NEW D
    PROVE  WorkerInv(Started(e, n, stage), D)
  <1> DEFINE r == Started(e, n, stage)
  <1>1. /\ r.event = e /\ r.stage = stage /\ r.attempts = n /\ r.tags = Events[e].tags
        /\ r.todo = <<>> /\ r.blocked = {} /\ WorkerShape(r)
    BY DEF Started, WorkerShape
  <1>2. Honest(r.event, r.tags, D)
    BY <1>1, Zenon DEF Honest, MarkExplained
  <1> HIDE DEF r
  <1>3. WorkerInv(r, D)
    BY <1>1, <1>2, Zenon DEF WorkerInv, Unfiltered, Recorded, Marked
  <1> QED
    BY <1>3 DEF r

\* Nor does an idle one.
LEMMA IdleRelies ==
    ASSUME NEW D
    PROVE  WorkerInv(Idle, D)
  <1>1. /\ Idle.event = "" /\ Idle.stage = "idle" /\ Idle.attempts = 0 /\ Idle.blocked = {}
        /\ WorkerShape(Idle)
    BY DEF Idle, WorkerShape
  <1>2. 0 \in 0..MaxAttempts
    BY Bounds
  <1> QED
    BY <1>1, <1>2, Zenon DEF WorkerInv, Unfiltered, Recorded, Marked

\* Replacing the whole state of a worker moves that worker only.
LEMMA ReplaceMoves ==
    ASSUME PipelineInv, NEW w \in Workers, NEW r, worker' = [worker EXCEPT ![w] = r]
    PROVE  Moved(w) /\ worker'[w] = r
  <1>1. worker = [v \in Workers |-> worker[v]]
    BY DEF PipelineInv
  <1> QED
    BY <1>1, Zenon DEF Moved

\* processWithRetry starts the event anew or gives it up.
LEMMA RetryMoves ==
    ASSUME PipelineInv, NEW w \in Workers, worker[w].stage # "idle", Retry(w), NEW D
    PROVE  Moved(w) /\ WorkerInv(worker'[w], D)
  <1> DEFINE r == worker[w]
             next == IF r.attempts < MaxAttempts THEN Started(r.event, r.attempts + 1, Chain[1])
                     ELSE Started(r.event, r.attempts, "dlq")
  <1>1. worker' = [worker EXCEPT ![w] = next]
    BY DEF Retry
  <1>2. r.event \in Ids /\ r.attempts \in 0..MaxAttempts
    BY Zenon DEF PipelineInv, WorkerInv
  <1>3. r.attempts < MaxAttempts => r.attempts + 1 \in 0..MaxAttempts
    BY <1>2, Bounds
  <1>4. WorkerInv(next, D)
    <2>1. CASE r.attempts < MaxAttempts
      <3>1. WorkerInv(Started(r.event, r.attempts + 1, "flight"), D)
        BY <1>2, <1>3, <2>1, StartRelies
      <3> QED
        BY <2>1, <3>1, StageOrder
    <2>2. CASE ~(r.attempts < MaxAttempts)
      <3>1. WorkerInv(Started(r.event, r.attempts, "dlq"), D)
        BY <1>2, StartRelies
      <3> QED
        BY <2>2, <3>1
    <2> QED
      BY <2>1, <2>2
  <1> HIDE DEF next
  <1>5. Moved(w) /\ worker'[w] = next
    BY <1>1, ReplaceMoves, Zenon
  <1> QED
    BY <1>4, <1>5, Zenon

\* Passing a stage changes the stage, the tags and what the firewall has to do.
LEMMA PassMoves ==
    ASSUME PipelineInv, NEW w \in Workers, NEW tags, Passes(w, tags)
    PROVE  Moved(w) /\ \E todo : worker'[w] = Passed(worker[w], tags, todo)
  <1> DEFINE r == worker[w]
             Tagged(d) == d \in DOMAIN tags
             todo == IF After(r.stage) = "policy" THEN SelectSeq(Dimensions, Tagged) ELSE <<>>
  <1>1. worker = [v \in Workers |-> worker[v]] /\ WorkerShape(r)
    BY Zenon DEF PipelineInv, WorkerInv
  <1>2. worker' = [worker EXCEPT ![w] = [[[@ EXCEPT !.stage = After(r.stage)] EXCEPT !.tags = tags]
                                            EXCEPT !.todo = todo]]
    BY <1>1, Zenon DEF Passes
  <1> HIDE DEF todo
  <1>3. [[[r EXCEPT !.stage = After(r.stage)] EXCEPT !.tags = tags] EXCEPT !.todo = todo]
            = Passed(r, tags, todo)
    <2>1. [r EXCEPT !.stage = After(r.stage)] = Passed(r, r.tags, r.todo)
      BY <1>1 DEF WorkerShape, Passed
    <2>2. [Passed(r, r.tags, r.todo) EXCEPT !.tags = tags] = Passed(r, tags, r.todo)
      BY DEF Passed
    <2>3. [Passed(r, tags, r.todo) EXCEPT !.todo = todo] = Passed(r, tags, todo)
      BY DEF Passed
    <2> QED
      BY <2>1, <2>2, <2>3, Zenon
  <1>4. worker' = [worker EXCEPT ![w] = Passed(r, tags, todo)]
    BY <1>2, <1>3, Zenon
  <1> QED
    BY <1>4, ReplaceMoves, Zenon

\* What a worker behind the flight recorder relies on.
LEMMA Relies ==
    ASSUME NEW q, NEW D, WorkerShape(q), q.stage \in Recorded, q.event \in Ids,
           q.attempts \in 0..MaxAttempts, q.blocked # {} => q.stage = "policy",
           q.event \in D.flight,
           q.stage \in Marked /\ Events[q.event].marker = "valid" => q.event \in D.markers,
           Honest(q.event, q.tags, D),
           q.stage = "route" => D.rows[q.event] # {},
           q.stage = "ack" => Explained(q.event, D)
    PROVE  WorkerInv(q, D)
  <1>1. q.stage # "idle"
    BY DEF Recorded
  <1> QED
    BY <1>1, Zenon DEF WorkerInv

\* When a worker in state r may pass its stage with these tags, the tables being D.
MayPass(r, tags, D) ==
    /\ WorkerInv(r, D)
    /\ r.stage \in {"flight", "normalize", "change", "shape", "persist", "route"}
    /\ r.stage = "flight" => r.event \in D.flight
    /\ r.stage = "change" /\ Events[r.event].marker = "valid" => r.event \in D.markers
    /\ Honest(r.event, tags, D)
    /\ r.stage = "persist" => D.rows[r.event] # {}
    /\ r.stage = "route" => Explained(r.event, D)

\* A worker that passed its stage relies on what that stage wrote, and on what
\* it relied on before.
LEMMA PassRelies ==
    ASSUME NEW r, NEW tags, NEW todo, NEW D, MayPass(r, tags, D)
    PROVE  WorkerInv(Passed(r, tags, todo), D)
  <1> DEFINE q == Passed(r, tags, todo)
  <1>1. /\ q.event = r.event /\ q.stage = After(r.stage) /\ q.attempts = r.attempts
        /\ q.tags = tags /\ q.blocked = r.blocked /\ WorkerShape(q)
    BY DEF Passed, WorkerShape
  <1> SUFFICES WorkerInv(q, D)
    OBVIOUS
  <1> HIDE DEF q
  <1>2. CASE r.stage = "flight"
    <2>1. q.stage = "normalize"
      BY <1>1, <1>2, StageOrder
    <2> QED
      <3>1. /\ q.event \in Ids /\ q.blocked = {} /\ q.attempts \in 0..MaxAttempts /\ q.event \in D.flight
            /\ Honest(q.event, q.tags, D)
        BY <1>1, <1>2, Zenon DEF MayPass, WorkerInv, Unfiltered, Recorded, Marked
      <3> QED
        BY <1>1, <2>1, <3>1, Relies, Zenon DEF Unfiltered, Recorded, Marked
  <1>3. CASE r.stage = "normalize"
    <2>1. q.stage = "change"
      BY <1>1, <1>3, StageOrder
    <2> QED
      <3>1. /\ q.event \in Ids /\ q.blocked = {} /\ q.attempts \in 0..MaxAttempts /\ q.event \in D.flight
            /\ Honest(q.event, q.tags, D)
        BY <1>1, <1>3, Zenon DEF MayPass, WorkerInv, Unfiltered, Recorded, Marked
      <3> QED
        BY <1>1, <2>1, <3>1, Relies, Zenon DEF Unfiltered, Recorded, Marked
  <1>4. CASE r.stage = "change"
    <2>1. q.stage = "shape"
      BY <1>1, <1>4, StageOrder
    <2> QED
      <3>1. /\ q.event \in Ids /\ q.blocked = {} /\ q.attempts \in 0..MaxAttempts /\ q.event \in D.flight
            /\ Events[q.event].marker = "valid" => q.event \in D.markers
            /\ Honest(q.event, q.tags, D)
        BY <1>1, <1>4, Zenon DEF MayPass, WorkerInv, Unfiltered, Recorded, Marked
      <3> QED
        BY <1>1, <2>1, <3>1, Relies, Zenon DEF Unfiltered, Recorded, Marked
  <1>5. CASE r.stage = "shape"
    <2>1. q.stage = "policy"
      BY <1>1, <1>5, StageOrder
    <2> QED
      <3>1. /\ q.event \in Ids /\ q.blocked = {} /\ q.attempts \in 0..MaxAttempts /\ q.event \in D.flight
            /\ Events[q.event].marker = "valid" => q.event \in D.markers
            /\ Honest(q.event, q.tags, D)
        BY <1>1, <1>5, Zenon DEF MayPass, WorkerInv, Unfiltered, Recorded, Marked
      <3> QED
        BY <1>1, <2>1, <3>1, Relies, Zenon DEF Unfiltered, Recorded, Marked
  <1>6. CASE r.stage = "persist"
    <2>1. q.stage = "route"
      BY <1>1, <1>6, StageOrder
    <2> QED
      <3>1. /\ q.event \in Ids /\ q.blocked = {} /\ q.attempts \in 0..MaxAttempts /\ q.event \in D.flight
            /\ Events[q.event].marker = "valid" => q.event \in D.markers
            /\ Honest(q.event, q.tags, D)
            /\ D.rows[q.event] # {}
        BY <1>1, <1>6, Zenon DEF MayPass, WorkerInv, Unfiltered, Recorded, Marked
      <3> QED
        BY <1>1, <2>1, <3>1, Relies, Zenon DEF Unfiltered, Recorded, Marked
  <1>7. CASE r.stage = "route"
    <2>1. q.stage = "ack"
      BY <1>1, <1>7, StageOrder
    <2> QED
      <3>1. /\ q.event \in Ids /\ q.blocked = {} /\ q.attempts \in 0..MaxAttempts /\ q.event \in D.flight
            /\ Events[q.event].marker = "valid" => q.event \in D.markers
            /\ Explained(q.event, D) /\ Honest(q.event, q.tags, D)
        BY <1>1, <1>7, Zenon DEF MayPass, WorkerInv, Unfiltered, Recorded, Marked
      <3> QED
        BY <1>1, <2>1, <3>1, Relies, Zenon DEF Unfiltered, Recorded, Marked
  <1>8. r.stage \in {"flight", "normalize", "change", "shape", "persist", "route"}
    BY Zenon DEF MayPass
  <1> QED
    BY <1>2, <1>3, <1>4, <1>5, <1>6, <1>7, <1>8, Zenon

-----------------------------------------------------------------------------
(***************************************************************************)
(* The actions keep the invariant, and the tables grow.                    *)
(***************************************************************************)

Keeps == PipelineInv' /\ Grows(db, db')

\* A worker in a stage has an event, which it relies on as the invariant says.
LEMMA AtStage ==
    ASSUME PipelineInv, NEW w \in Workers, worker[w].stage # "idle"
    PROVE  WorkerInv(worker[w], db) /\ worker[w].event \in Ids
  BY Zenon DEF PipelineInv, WorkerInv

\* The tags a worker goes on with.
LEMMA CarriedHonestly ==
    ASSUME NEW r, NEW D, WorkerInv(r, D), r.stage # "idle"
    PROVE  Honest(r.event, r.tags, D)
  BY Zenon DEF WorkerInv

\* A transient error after a sound write.
LEMMA RetryStep ==
    ASSUME PipelineInv, NEW w \in Workers, worker[w].stage # "idle", Retry(w),
           Sound(db'), settled' = settled, batch' = batch, faults' \in 0..MaxFaults
    PROVE  Keeps
  <1>1. Moved(w) /\ WorkerInv(worker'[w], db')
    BY RetryMoves, Zenon
  <1> QED
    BY <1>1, WorkerStep, Zenon DEF Keeps

\* A stage that is passed after a sound write.
LEMMA PassStep ==
    ASSUME PipelineInv, NEW w \in Workers, NEW tags, Passes(w, tags),
           Sound(db'), settled' = settled, batch' = batch, faults' \in 0..MaxFaults,
           WorkerInv(worker[w], db') => MayPass(worker[w], tags, db')
    PROVE  Keeps
  <1> DEFINE r == worker[w]
  <1>1. WorkerInv(r, db) /\ Grows(db, db')
    BY Zenon DEF PipelineInv, Sound
  <1>2. WorkerInv(r, db')
    BY <1>1, WorkerOutlives, Zenon
  <1>3. Moved(w) /\ \E todo : worker'[w] = Passed(r, tags, todo)
    BY PassMoves, Zenon
  <1>4. PICK todo : worker'[w] = Passed(r, tags, todo)
    BY <1>3
  <1>5. WorkerInv(Passed(r, tags, todo), db')
    BY <1>2, PassRelies, Zenon
  <1>6. WorkerInv(worker'[w], db')
    BY <1>4, <1>5
  <1> QED
    BY <1>3, <1>6, WorkerStep, Zenon DEF Keeps

\* A database call without an answer wrote soundly or not at all.
LEMMA UnansweredIsSound ==
    ASSUME PipelineInv, NEW write, Sound(write), Unanswered(write)
    PROVE  Sound(db')
  <1>1. CASE db' = db
    BY <1>1, SoundStays
  <1>2. CASE db' = write
    BY <1>2
  <1> QED
    BY <1>1, <1>2 DEF Unanswered

\* An attempted fault is counted.
LEMMA FaultCounted ==
    ASSUME PipelineInv, NEW kind, Fault(kind)
    PROVE  faults' \in 0..MaxFaults
  BY FaultsBounded DEF Fault

\* RecordFlight keeps the invariant: the flight recorder has the event before
\* any other stage sees it.
LEMMA FlightKeeps ==
    ASSUME PipelineInv, NEW w \in Workers, RecordFlight(w), batch' = batch
    PROVE  Keeps
  <1> DEFINE r == worker[w]
  <1>1. r.stage = "flight" /\ r.stage # "idle" /\ settled' = settled
    BY DEF RecordFlight, At
  <1>2. WorkerInv(r, db) /\ r.event \in Ids
    BY <1>1, AtStage, Zenon
  <1>3. Sound(WriteFlightEvent(r.event)) /\ r.event \in WriteFlightEvent(r.event).flight
    BY <1>2, FlightIsSound, Zenon
  <1>4. CASE db' = WriteFlightEvent(r.event) /\ Continue(w) /\ UNCHANGED faults
    <2>1. Passes(w, r.tags) /\ Sound(db') /\ r.event \in db'.flight /\ faults' \in 0..MaxFaults
      BY <1>3, <1>4, FaultsBounded DEF Continue
    <2>2. WorkerInv(r, db') => MayPass(r, r.tags, db')
      BY <1>1, <2>1, CarriedHonestly, Zenon DEF MayPass
    <2> QED
      BY <1>1, <2>1, <2>2, PassStep, Zenon
  <1>5. CASE Unanswered(WriteFlightEvent(r.event)) /\ Retry(w) /\ Fault("database")
    <2>1. Sound(db') /\ faults' \in 0..MaxFaults
      BY <1>3, <1>5, UnansweredIsSound, FaultCounted, Zenon
    <2> QED
      BY <1>1, <1>5, <2>1, RetryStep, Zenon
  <1> QED
    BY <1>4, <1>5, Zenon DEF RecordFlight

\* Normalize keeps the invariant: it writes nothing, and an event it rejects
\* goes to the dead-letter topic.
LEMMA NormalizeKeeps ==
    ASSUME PipelineInv, NEW w \in Workers, Normalize(w), batch' = batch
    PROVE  Keeps
  <1> DEFINE r == worker[w]
  <1>1. /\ r.stage = "normalize" /\ r.stage # "idle" /\ settled' = settled
        /\ db' = db /\ UNCHANGED faults
    BY DEF Normalize, At
  <1>2. WorkerInv(r, db) /\ r.event \in Ids
    BY <1>1, AtStage, Zenon
  <1>3. Sound(db') /\ faults' \in 0..MaxFaults
    BY <1>1, SoundStays, FaultsBounded
  <1>4. CASE Continue(w)
    <2>1. WorkerInv(r, db') => MayPass(r, r.tags, db')
      BY <1>1, CarriedHonestly, Zenon DEF MayPass
    <2> QED
      BY <1>1, <1>3, <1>4, <2>1, PassStep, Zenon DEF Continue
  <1>5. CASE worker' = [worker EXCEPT ![w].stage = "dlq"]
    <2> DEFINE q == [event |-> r.event, stage |-> "dlq", attempts |-> r.attempts, tags |-> r.tags,
                     todo |-> r.todo, blocked |-> r.blocked]
    <2>1. [r EXCEPT !.stage = "dlq"] = q
      <3>1. WorkerShape(r)
        BY <1>2, Zenon DEF WorkerInv
      <3> QED
        BY <3>1 DEF WorkerShape
    <2>2. worker' = [worker EXCEPT ![w] = q]
      BY <1>5, <2>1, Zenon
    <2>3. Moved(w) /\ worker'[w] = q
      BY <2>2, ReplaceMoves, Zenon
    <2>4. /\ q.event = r.event /\ q.stage = "dlq" /\ q.attempts = r.attempts
          /\ q.tags = r.tags /\ q.blocked = r.blocked /\ WorkerShape(q)
      BY DEF WorkerShape
    <2> HIDE DEF q
    <2>5. /\ r.blocked = {} /\ r.attempts \in 0..MaxAttempts
          /\ Honest(q.event, q.tags, db')
      BY <1>1, <1>2, <2>4, Zenon DEF WorkerInv
    <2>6. WorkerInv(q, db')
      BY <1>2, <2>4, <2>5, Zenon DEF WorkerInv, Unfiltered, Recorded, Marked
    <2> QED
      BY <1>1, <1>3, <2>3, <2>6, WorkerStep, Zenon DEF Keeps
  <1> QED
    BY <1>4, <1>5, Zenon DEF Normalize

\* RecordChange keeps the invariant: a change event passes with its marker.
LEMMA ChangeKeeps ==
    ASSUME PipelineInv, NEW w \in Workers, RecordChange(w), batch' = batch
    PROVE  Keeps
  <1> DEFINE r == worker[w]
             e == worker[w].event
  <1>1. r.stage = "change" /\ r.stage # "idle" /\ settled' = settled
    BY DEF RecordChange, At
  <1>2. WorkerInv(r, db) /\ e \in Ids
    BY <1>1, AtStage, Zenon
  <1>3. Sound(RecordChangeMarker(e)) /\ e \in RecordChangeMarker(e).markers
    BY <1>2, MarkerIsSound, Zenon
  <1>4. WorkerInv(r, db') => Honest(r.event, r.tags, db')
    BY <1>1, CarriedHonestly, Zenon
  <1>5. CASE Events[e].marker = "none" /\ db' = db /\ Continue(w) /\ UNCHANGED faults
    <2>1. Passes(w, r.tags) /\ Sound(db') /\ faults' \in 0..MaxFaults
      BY <1>5, SoundStays, FaultsBounded DEF Continue
    <2>2. Events[e].marker # "valid"
      BY <1>5
    <2>3. WorkerInv(r, db') => MayPass(r, r.tags, db')
      BY <1>1, <1>4, <2>2, Zenon DEF MayPass
    <2> QED
      BY <1>1, <2>1, <2>3, PassStep, Zenon
  <1>6. CASE Events[e].marker = "invalid" /\ db' = db /\ Retry(w) /\ UNCHANGED faults
    <2>1. Sound(db') /\ faults' \in 0..MaxFaults
      BY <1>6, SoundStays, FaultsBounded
    <2> QED
      BY <1>1, <1>6, <2>1, RetryStep, Zenon
  <1>7. CASE db' = RecordChangeMarker(e) /\ Continue(w) /\ UNCHANGED faults
    <2>1. Passes(w, r.tags) /\ Sound(db') /\ e \in db'.markers /\ faults' \in 0..MaxFaults
      BY <1>3, <1>7, FaultsBounded DEF Continue
    <2>2. WorkerInv(r, db') => MayPass(r, r.tags, db')
      BY <1>1, <1>4, <2>1, Zenon DEF MayPass
    <2> QED
      BY <1>1, <2>1, <2>2, PassStep, Zenon
  <1>8. CASE Unanswered(RecordChangeMarker(e)) /\ Retry(w) /\ Fault("database")
    <2>1. Sound(db') /\ faults' \in 0..MaxFaults
      BY <1>3, <1>8, UnansweredIsSound, FaultCounted, Zenon
    <2> QED
      BY <1>1, <1>8, <2>1, RetryStep, Zenon
  <1> QED
    BY <1>5, <1>6, <1>7, <1>8, Zenon DEF RecordChange

\* The decision the shaper applies is the one the audit holds: it explains a
\* mark, and a drop.
LEMMA AppliedFacts ==
    ASSUME PipelineInv, NEW e \in Ids, e \in db.flight,
           NEW p \in Pressures, NEW m \in Multipliers,
           NEW d \in Applied(e, Evaluate(e, p, m)),
           db' = ResolveShapingDecision(e, Evaluate(e, p, m))
    PROVE  Honest(e, d.tags, db') /\ (~d.keep => Explained(e, db'))
  <1> DEFINE proposed == Evaluate(e, p, m)
  <1>1. CASE db.decisions[e] = {}
    <2>1. d = proposed
      BY <1>1, Zenon DEF Applied
    <2>2. db'.decisions[e] = {Stored(proposed)}
      BY <1>1, DecisionIsSound, Zenon
    <2>3. Stored(proposed).keep = proposed.keep /\ Stored(proposed).tags = proposed.tags
      BY DecisionFacts, Zenon
    <2> HIDE DEF proposed
    <2> QED
      BY <2>1, <2>2, <2>3, Zenon DEF Explained, Honest, MarkExplained
  <1>2. CASE db.decisions[e] # {}
    <2>1. d \in db.decisions[e]
      BY <1>2, Zenon DEF Applied, sameShapingDecision
    <2>2. db' = db
      BY <1>2, Zenon DEF ResolveShapingDecision
    <2> QED
      BY <2>1, <2>2, Zenon DEF Explained, Honest, MarkExplained
  <1> QED
    BY <1>1, <1>2, Zenon

\* Shape keeps the invariant: an event leaves the chain here only with a
\* decision in the audit that drops it.
LEMMA ShapeKeeps ==
    ASSUME PipelineInv, NEW w \in Workers, NEW p \in Pressures, NEW m \in Multipliers,
           Shape(w, p, m), batch' = batch
    PROVE  Keeps
  <1> DEFINE r == worker[w]
             e == worker[w].event
             proposed == Evaluate(e, p, m)
  <1>1. /\ r.stage = "shape" /\ r.stage # "idle" /\ settled' = settled /\ UNCHANGED faults
        /\ db' = ResolveShapingDecision(e, proposed)
    BY DEF Shape, At
  <1>2. WorkerInv(r, db) /\ e \in Ids
    BY <1>1, AtStage, Zenon
  <1>3. e \in db.flight
    BY <1>1, <1>2, Zenon DEF WorkerInv, Recorded
  <1>4. Sound(db') /\ faults' \in 0..MaxFaults
    <2>1. Sound(ResolveShapingDecision(e, proposed))
      BY <1>2, <1>3, DecisionIsSound, Zenon
    <2> QED
      BY <1>1, <2>1, FaultsBounded, Zenon
  <1>5. ASSUME NEW tags, Passes(w, tags), WorkerInv(r, db') => Honest(e, tags, db')
        PROVE  Keeps
    <2>1. WorkerInv(r, db') => MayPass(r, tags, db')
      BY <1>1, <1>5, Zenon DEF MayPass
    <2> QED
      BY <1>1, <1>4, <1>5, <2>1, PassStep, Zenon
  <1>6. CASE Continue(w)
    <2>1. WorkerInv(r, db') => Honest(e, r.tags, db')
      BY <1>1, CarriedHonestly, Zenon
    <2> QED
      BY <1>5, <1>6, <2>1, Zenon DEF Continue
  <1>7. ASSUME NEW d \in Applied(e, proposed), Outcome(w, d)
        PROVE  Keeps
    <2>1. Honest(e, d.tags, db') /\ (~d.keep => Explained(e, db'))
      BY <1>1, <1>2, <1>3, AppliedFacts, Zenon
    <2>2. CASE d.keep
      BY <1>5, <1>7, <2>1, <2>2, Zenon DEF Outcome
    <2>3. CASE ~d.keep
      <3> DEFINE q == [event |-> r.event, stage |-> "ack", attempts |-> r.attempts, tags |-> r.tags,
                       todo |-> r.todo, blocked |-> r.blocked]
      <3>1. [r EXCEPT !.stage = "ack"] = q
        <4>1. WorkerShape(r)
          BY <1>2, Zenon DEF WorkerInv
        <4> QED
          BY <4>1 DEF WorkerShape
      <3>2. worker' = [worker EXCEPT ![w] = q]
        BY <1>7, <2>3, <3>1, Zenon DEF Outcome
      <3>3. Moved(w) /\ worker'[w] = q
        BY <3>2, ReplaceMoves, Zenon
      <3>4. /\ q.event = e /\ q.stage = "ack" /\ q.attempts = r.attempts
            /\ q.tags = r.tags /\ q.blocked = r.blocked /\ WorkerShape(q)
        BY DEF WorkerShape
      <3> HIDE DEF q
      <3>5. WorkerInv(r, db')
        BY <1>2, <1>4, WorkerOutlives, Zenon DEF Sound
      <3>6. /\ r.blocked = {} /\ r.attempts \in 0..MaxAttempts /\ e \in db'.flight
            /\ Events[e].marker = "valid" => e \in db'.markers
            /\ Honest(q.event, q.tags, db')
        BY <1>1, <3>4, <3>5, Zenon DEF WorkerInv, Recorded, Marked
      <3>7. q.stage \in Recorded /\ q.stage # "route"
        BY <3>4 DEF Recorded
      <3>8. Explained(q.event, db')
        BY <2>1, <2>3, <3>4, Zenon
      <3>9. WorkerInv(q, db')
        BY <1>2, <3>4, <3>6, <3>7, <3>8, Relies, Zenon
      <3> QED
        BY <1>1, <1>4, <3>3, <3>9, WorkerStep, Zenon DEF Keeps
    <2> QED
      BY <2>2, <2>3, Zenon
  <1> HIDE DEF Keeps
  <1>8. Continue(w) \/ \E d \in Applied(e, proposed) : Outcome(w, d)
    BY Zenon DEF Shape
  <1> QED
    BY <1>6, <1>7, <1>8, Zenon

\* AuditFails keeps the invariant: whether the decision was stored or not, the
\* event goes on as it came.
LEMMA AuditKeeps ==
    ASSUME PipelineInv, NEW w \in Workers, NEW p \in Pressures, NEW m \in Multipliers,
           AuditFails(w, p, m), batch' = batch
    PROVE  Keeps
  <1> DEFINE r == worker[w]
             write == ResolveShapingDecision(r.event, Evaluate(r.event, p, m))
  <1>1. /\ r.stage = "shape" /\ r.stage # "idle" /\ settled' = settled /\ Fault("audit")
        /\ Unanswered(write) /\ Passes(w, r.tags)
    BY DEF AuditFails, At, Continue
  <1>2. WorkerInv(r, db) /\ r.event \in Ids
    BY <1>1, AtStage, Zenon
  <1>3. r.event \in db.flight
    BY <1>1, <1>2, Zenon DEF WorkerInv, Recorded
  <1>4. Sound(write)
    BY <1>2, <1>3, DecisionIsSound, Zenon
  <1> HIDE DEF write
  <1>5. Sound(db') /\ faults' \in 0..MaxFaults
    BY <1>1, <1>4, UnansweredIsSound, FaultCounted, Zenon
  <1>6. WorkerInv(r, db') => MayPass(r, r.tags, db')
    BY <1>1, CarriedHonestly, Zenon DEF MayPass
  <1> QED
    BY <1>1, <1>5, <1>6, PassStep, Zenon

\* Persist keeps the invariant: the event goes on to the router with its row.
LEMMA PersistKeeps ==
    ASSUME PipelineInv, NEW w \in Workers, Persist(w), batch' = batch
    PROVE  Keeps
  <1> DEFINE r == worker[w]
             e == worker[w].event
             write == WriteEvent(e, r.tags)
  <1>1. r.stage = "persist" /\ r.stage # "idle" /\ settled' = settled
    BY DEF Persist, At
  <1>2. WorkerInv(r, db) /\ e \in Ids
    BY <1>1, AtStage, Zenon
  <1>3. e \in db.flight /\ Honest(e, r.tags, db)
    BY <1>1, <1>2, Zenon DEF WorkerInv, Recorded
  <1>4. Sound(write) /\ write.rows[e] # {}
    BY <1>2, <1>3, RowIsSound, Zenon
  <1>5. CASE db' = write /\ Continue(w) /\ UNCHANGED faults
    <2>1. Passes(w, r.tags) /\ Sound(db') /\ db'.rows[e] # {} /\ faults' \in 0..MaxFaults
      <3> HIDE DEF write
      <3> QED
        BY <1>4, <1>5, FaultsBounded DEF Continue
    <2>2. WorkerInv(r, db') => MayPass(r, r.tags, db')
      BY <1>1, <2>1, CarriedHonestly, Zenon DEF MayPass
    <2> QED
      BY <1>1, <2>1, <2>2, PassStep, Zenon
  <1>6. CASE Unanswered(write) /\ Retry(w) /\ Fault("database")
    <2>1. Sound(db') /\ faults' \in 0..MaxFaults
      <3> HIDE DEF write
      <3> QED
        BY <1>4, <1>6, UnansweredIsSound, FaultCounted, Zenon
    <2> QED
      BY <1>1, <1>6, <2>1, RetryStep, Zenon
  <1> QED
    BY <1>5, <1>6, Zenon DEF Persist

\* Route keeps the invariant: an event at the end of the chain is persisted and
\* handed to the router.
LEMMA RouteKeeps ==
    ASSUME PipelineInv, NEW w \in Workers, Route(w), batch' = batch
    PROVE  Keeps
  <1> DEFINE r == worker[w]
             e == worker[w].event
             write == EnqueueRoutingPlan(e, r.tags)
  <1>1. r.stage = "route" /\ r.stage # "idle" /\ settled' = settled
    BY DEF Route, At
  <1>2. WorkerInv(r, db) /\ e \in Ids
    BY <1>1, AtStage, Zenon
  <1>3. e \in db.flight /\ Honest(e, r.tags, db) /\ db.rows[e] # {}
    BY <1>1, <1>2, Zenon DEF WorkerInv, Recorded
  <1>4. Sound(write) /\ write.intents[e] # {} /\ write.rows = db.rows
    BY <1>2, <1>3, EnvelopeIsSound, Zenon
  <1>5. CASE db' = write /\ Continue(w) /\ UNCHANGED faults
    <2>1. Passes(w, r.tags) /\ Sound(db') /\ db'.intents[e] # {} /\ db'.rows = db.rows /\ faults' \in 0..MaxFaults
      <3> HIDE DEF write
      <3> QED
        BY <1>4, <1>5, FaultsBounded DEF Continue
    <2>2. WorkerInv(r, db') => MayPass(r, r.tags, db')
      BY <1>1, <1>3, <2>1, CarriedHonestly, Zenon DEF MayPass, Explained
    <2> QED
      BY <1>1, <2>1, <2>2, PassStep, Zenon
  <1>6. CASE Unanswered(write) /\ Retry(w) /\ Fault("database")
    <2>1. Sound(db') /\ faults' \in 0..MaxFaults
      <3> HIDE DEF write
      <3> QED
        BY <1>4, <1>6, UnansweredIsSound, FaultCounted, Zenon
    <2> QED
      BY <1>1, <1>6, <2>1, RetryStep, Zenon
  <1> QED
    BY <1>5, <1>6, Zenon DEF Route

\* One dimension filtered: the event may lose a tag, never get one.
LEMMA FilterMoves ==
    ASSUME PipelineInv, NEW w \in Workers, NEW d, NEW action, worker' = Filtered(w, d, action)
    PROVE  /\ Moved(w)
           /\ \E tags, todo, blocked :
                 /\ worker'[w] = [event |-> worker[w].event, stage |-> worker[w].stage,
                                  attempts |-> worker[w].attempts, tags |-> tags,
                                  todo |-> todo, blocked |-> blocked]
                 /\ DOMAIN tags \subseteq DOMAIN worker[w].tags
  <1> DEFINE r == worker[w]
             todo == Tail(r.todo)
             tags == IF Removes(action) THEN Without(r.tags, {d}) ELSE r.tags
             blocked == IF action = "quarantine" THEN r.blocked \cup {d} ELSE r.blocked
             State(a, b, c) == [event |-> r.event, stage |-> r.stage, attempts |-> r.attempts,
                                tags |-> a, todo |-> b, blocked |-> c]
  <1>1. worker = [v \in Workers |-> worker[v]] /\ r = State(r.tags, r.todo, r.blocked)
    BY Zenon DEF PipelineInv, WorkerInv, WorkerShape
  <1>2. DOMAIN tags \subseteq DOMAIN r.tags
    BY Zenon DEF Without
  <1>3. worker' = [worker EXCEPT ![w] =
            [[[worker[w] EXCEPT !.todo = todo] EXCEPT !.tags = tags] EXCEPT !.blocked = blocked]]
    BY <1>1, Zenon DEF Filtered
  <1> HIDE DEF tags, todo, blocked
  <1>4. [r EXCEPT !.todo = todo] = State(r.tags, todo, r.blocked)
    BY <1>1
  <1>5. [State(r.tags, todo, r.blocked) EXCEPT !.tags = tags] = State(tags, todo, r.blocked)
    OBVIOUS
  <1>6. [State(tags, todo, r.blocked) EXCEPT !.blocked = blocked] = State(tags, todo, blocked)
    OBVIOUS
  <1>7. worker' = [worker EXCEPT ![w] = State(tags, todo, blocked)]
    <2> HIDE DEF State
    <2> QED
      BY <1>3, <1>4, <1>5, <1>6, Zenon
  <1>8. Moved(w) /\ worker'[w] = State(tags, todo, blocked)
    BY <1>7, ReplaceMoves, Zenon
  <1> QED
    BY <1>2, <1>8, Zenon

\* A dimension filtered after a sound write.
LEMMA FilterStep ==
    ASSUME PipelineInv, NEW w \in Workers, NEW d, NEW action, worker' = Filtered(w, d, action),
           worker[w].stage = "policy", Sound(db'),
           settled' = settled, batch' = batch, faults' \in 0..MaxFaults
    PROVE  Keeps
  <1> DEFINE r == worker[w]
             State(a, b, c) == [event |-> r.event, stage |-> r.stage, attempts |-> r.attempts,
                                tags |-> a, todo |-> b, blocked |-> c]
  <1>1. Moved(w) /\ \E tags, todo, blocked :
                        worker'[w] = State(tags, todo, blocked) /\ DOMAIN tags \subseteq DOMAIN r.tags
    BY FilterMoves, Zenon
  <1>2. PICK tags, todo, blocked :
            worker'[w] = State(tags, todo, blocked) /\ DOMAIN tags \subseteq DOMAIN r.tags
    BY <1>1, Zenon
  <1> DEFINE q == State(tags, todo, blocked)
  <1>3. /\ q.event = r.event /\ q.stage = "policy" /\ q.attempts = r.attempts /\ q.tags = tags
        /\ WorkerShape(q)
    BY DEF WorkerShape
  <1> HIDE DEF q, State
  <1>4. WorkerInv(r, db')
    BY WorkerOutlives, Zenon DEF PipelineInv, Sound
  <1>5. /\ r.event \in Ids /\ r.attempts \in 0..MaxAttempts /\ r.event \in db'.flight
        /\ Events[r.event].marker = "valid" => r.event \in db'.markers
        /\ Honest(r.event, r.tags, db')
    BY <1>4, CarriedHonestly, Zenon DEF WorkerInv, Recorded, Marked
  <1>6. /\ q.stage \in Recorded /\ q.stage # "route" /\ q.stage # "ack"
    BY <1>3 DEF Recorded
  <1>7. Honest(q.event, q.tags, db')
    BY <1>2, <1>3, <1>5, Zenon DEF Honest
  <1>8. WorkerInv(q, db')
    BY <1>3, <1>5, <1>6, <1>7, Relies, Zenon
  <1>9. WorkerInv(worker'[w], db')
    BY <1>2, <1>8 DEF q
  <1> QED
    BY <1>1, <1>9, WorkerStep, Zenon DEF Keeps

\* Firewall keeps the invariant: it only counts, reports and removes tags.
LEMMA FirewallKeeps ==
    ASSUME PipelineInv, NEW w \in Workers, Firewall(w), batch' = batch
    PROVE  Keeps
  <1> DEFINE r == worker[w]
             d == Head(worker[w].todo)
             observation == ObserveCardinality(d, now[w], worker[w].tags[d])
  <1>1. r.stage = "policy" /\ r.stage # "idle" /\ settled' = settled
    BY Zenon DEF Firewall, At
  <1>2. \E action, finding :
            \/ /\ db' = observation /\ worker' = Filtered(w, d, action) /\ UNCHANGED faults
            \/ /\ db' = [observation EXCEPT !.findings = @ \cup {finding}]
               /\ worker' = Filtered(w, d, action) /\ UNCHANGED faults
            \/ db' = observation /\ Retry(w) /\ Fault("finding")
    <2> HIDE DEF d, observation
    <2> DEFINE observed == Cardinality(SeenIn(observation.seen[d], now[w]))
    <2>1. PICK projected \in {observed, observed + 1} :
             LET action == FindingOf(w, d, observed, projected)
                 finding == <<d, action>>
             IN IF action = NoFinding
                THEN /\ db' = observation /\ worker' = Filtered(w, d, action)
                     /\ UNCHANGED <<reserved, faults>>
                ELSE \E report \in ShouldReport(w, finding) :
                        \/ /\ ~report
                           /\ db' = observation /\ worker' = Filtered(w, d, action)
                           /\ UNCHANGED <<reserved, faults>>
                        \/ /\ report
                           /\ reserved' = [reserved EXCEPT ![w] = @ \cup {finding}]
                           /\ \/ /\ db' = [observation EXCEPT !.findings = @ \cup {finding}]
                                 /\ worker' = Filtered(w, d, action) /\ UNCHANGED faults
                              \/ /\ db' = observation /\ Retry(w) /\ Fault("finding")
      BY Zenon DEF Firewall, d, observation
    <2> DEFINE action == FindingOf(w, d, observed, projected)
               finding == <<d, action>>
    <2> HIDE DEF observed
    <2> WITNESS action, finding
    <2> QED
      BY <2>1, Zenon
  <1>3. PICK action, finding :
            \/ /\ db' = observation /\ worker' = Filtered(w, d, action) /\ UNCHANGED faults
            \/ /\ db' = [observation EXCEPT !.findings = @ \cup {finding}]
               /\ worker' = Filtered(w, d, action) /\ UNCHANGED faults
            \/ db' = observation /\ Retry(w) /\ Fault("finding")
    BY <1>2, Zenon
  <1>4. Sound(observation) /\ Sound([observation EXCEPT !.findings = @ \cup {finding}])
    BY ObservationIsSound, Zenon
  <1> HIDE DEF d, observation
  <1>5. Sound(db') /\ faults' \in 0..MaxFaults
    BY <1>3, <1>4, FaultsBounded, FaultCounted, Zenon
  <1>6. CASE worker' = Filtered(w, d, action)
    BY <1>1, <1>5, <1>6, FilterStep, Zenon
  <1>7. CASE Retry(w)
    BY <1>1, <1>5, <1>7, RetryStep, Zenon
  <1> QED
    BY <1>3, <1>6, <1>7, Zenon

\* EvaluateFails keeps the invariant: at most it counted.
LEMMA EvaluateFailsKeeps ==
    ASSUME PipelineInv, NEW w \in Workers, EvaluateFails(w), batch' = batch
    PROVE  Keeps
  <1> DEFINE observation == ObserveCardinality(Head(worker[w].todo), now[w],
                                               worker[w].tags[Head(worker[w].todo)])
  <1>1. worker[w].stage = "policy" /\ worker[w].stage # "idle"
    BY DEF EvaluateFails, At
  <1>2. settled' = settled /\ Retry(w) /\ Fault("database") /\ db' \in {db, observation}
    BY Zenon DEF EvaluateFails
  <1>3. Sound(observation)
    BY ObservationIsSound, Zenon
  <1> HIDE DEF observation
  <1>4. Sound(db') /\ faults' \in 0..MaxFaults
    BY <1>2, <1>3, SoundStays, FaultCounted, Zenon
  <1> QED
    BY <1>1, <1>2, <1>4, RetryStep, Zenon

\* LeaveFirewall keeps the invariant: the mark is set only once the quarantine
\* has the original.
LEMMA LeaveKeeps ==
    ASSUME PipelineInv, NEW w \in Workers, LeaveFirewall(w), batch' = batch
    PROVE  Keeps
  <1> DEFINE r == worker[w]
             e == worker[w].event
             tags == With(r.tags, Quarantined, "true")
             State(a, c) == [event |-> r.event, stage |-> "persist", attempts |-> r.attempts,
                             tags |-> a, todo |-> r.todo, blocked |-> c]
  <1>1. r.stage = "policy" /\ r.stage # "idle" /\ settled' = settled
    BY Zenon DEF LeaveFirewall, At
  <1>2. WorkerInv(r, db) /\ e \in Ids
    BY <1>1, AtStage, Zenon
  <1>3. e \in db.flight /\ Honest(e, r.tags, db) /\ WorkerShape(r)
    BY <1>1, <1>2, Zenon DEF WorkerInv, Recorded
  <1>4. ASSUME NEW a, Sound(db'), faults' \in 0..MaxFaults,
               worker' = [worker EXCEPT ![w] = State(a, {})],
               Honest(e, a, db')
        PROVE  Keeps
    <2> DEFINE q == State(a, {})
    <2>1. /\ q.event = e /\ q.stage = "persist" /\ q.attempts = r.attempts
          /\ q.tags = a /\ q.blocked = {} /\ WorkerShape(q)
      BY DEF WorkerShape
    <2> HIDE DEF q, State
    <2>2. Moved(w) /\ worker'[w] = q
      <3>1. worker' = [worker EXCEPT ![w] = q]
        BY <1>4 DEF q
      <3> QED
        BY <3>1, ReplaceMoves, Zenon
    <2>3. WorkerInv(r, db')
      BY <1>2, <1>4, WorkerOutlives, Zenon DEF Sound
    <2>4. /\ r.attempts \in 0..MaxAttempts /\ e \in db'.flight
          /\ Events[e].marker = "valid" => e \in db'.markers
      BY <1>1, <2>3, Zenon DEF WorkerInv, Recorded, Marked
    <2>5. q.stage \in Recorded /\ q.stage # "route" /\ q.stage # "ack"
      BY <2>1 DEF Recorded
    <2>6. WorkerInv(q, db')
      BY <1>2, <1>4, <2>1, <2>4, <2>5, Relies, Zenon
    <2> QED
      BY <1>1, <1>4, <2>2, <2>6, WorkerStep, Zenon DEF Keeps
  <1>5. r = [event |-> r.event, stage |-> r.stage, attempts |-> r.attempts, tags |-> r.tags,
             todo |-> r.todo, blocked |-> r.blocked]
    BY <1>3, Zenon DEF WorkerShape
  <1>6. [r EXCEPT !.stage = "persist"] = State(r.tags, r.blocked)
    BY <1>5
  <1>7. CASE /\ worker[w].blocked = {} /\ db' = db /\ UNCHANGED faults
             /\ worker' = [worker EXCEPT ![w].stage = After("policy")]
    <2>1. Sound(db') /\ faults' \in 0..MaxFaults /\ Honest(e, r.tags, db')
      BY <1>3, <1>7, SoundStays, FaultsBounded, Zenon
    <2>2. worker' = [worker EXCEPT ![w] = [worker[w] EXCEPT !.stage = "persist"]]
      BY <1>7, StageOrder, Zenon
    <2> HIDE DEF State
    <2>3. worker' = [worker EXCEPT ![w] = State(r.tags, {})]
      BY <1>6, <1>7, <2>2, Zenon
    <2> QED
      BY <1>4, <2>1, <2>3, Zenon
  <1>8. CASE /\ db' = RecordQuarantine(e) /\ UNCHANGED faults
             /\ worker' = [worker EXCEPT ![w].stage = After("policy"), ![w].tags = tags,
                                         ![w].blocked = {}]
    <2>1. /\ Sound(db') /\ e \in db'.quarantine /\ faults' \in 0..MaxFaults
      BY <1>2, <1>3, <1>8, QuarantineIsSound, FaultsBounded, Zenon
    <2> HIDE DEF tags
    <2>2. worker' = [worker EXCEPT ![w] = [[[worker[w] EXCEPT !.stage = "persist"] EXCEPT !.tags = tags]
                                               EXCEPT !.blocked = {}]]
      <3>1. worker = [v \in Workers |-> worker[v]]
        BY Zenon DEF PipelineInv
      <3> QED
        BY <1>8, <3>1, StageOrder, Zenon
    <2>3. [State(r.tags, r.blocked) EXCEPT !.tags = tags] = State(tags, r.blocked)
      OBVIOUS
    <2>4. [State(tags, r.blocked) EXCEPT !.blocked = {}] = State(tags, {})
      OBVIOUS
    <2> HIDE DEF State
    <2>5. worker' = [worker EXCEPT ![w] = State(tags, {})]
      BY <1>6, <2>2, <2>3, <2>4, Zenon
    <2>6. Honest(e, tags, db')
      BY <2>1, Zenon DEF Honest, MarkExplained
    <2> QED
      BY <1>4, <2>1, <2>5, <2>6, Zenon
  <1>9. CASE Unanswered(RecordQuarantine(e)) /\ Retry(w) /\ Fault("database")
    <2>1. Sound(RecordQuarantine(e))
      BY <1>2, <1>3, QuarantineIsSound, Zenon
    <2>2. Sound(db') /\ faults' \in 0..MaxFaults
      BY <1>9, <2>1, UnansweredIsSound, FaultCounted, Zenon
    <2> QED
      BY <1>1, <1>9, <2>2, RetryStep, Zenon
  <1> QED
    BY <1>7, <1>8, <1>9, Zenon DEF LeaveFirewall

\* A delivery starts an event, or a crash ends its worker; neither writes.
LEMMA DeliveryKeeps ==
    ASSUME PipelineInv, NEW w \in Workers, batch' = batch,
           Crash(w) \/ \E e \in Ids : Deliver(w, e) \/ Redeliver(w, e)
    PROVE  Keeps
  <1>1. db' = db /\ settled' = settled
    BY Zenon DEF Crash, Deliver, Redeliver
  <1>2. faults' \in 0..MaxFaults
    BY FaultsBounded, FaultCounted, Zenon DEF Crash, Deliver, Redeliver
  <1>3. Sound(db')
    BY <1>1, SoundStays, Zenon
  <1>4. ASSUME NEW r, worker' = [worker EXCEPT ![w] = r], WorkerInv(r, db')
        PROVE  Keeps
    <2>1. Moved(w) /\ worker'[w] = r
      BY <1>4, ReplaceMoves, Zenon
    <2> QED
      BY <1>1, <1>2, <1>3, <1>4, <2>1, WorkerStep, Zenon DEF Keeps
  <1>5. CASE Crash(w)
    BY <1>4, <1>5, IdleRelies, Zenon DEF Crash
  <1>6. ASSUME NEW e \in Ids, Deliver(w, e) \/ Redeliver(w, e)
        PROVE  Keeps
    <2>1. 1 \in 0..MaxAttempts
      BY Bounds
    <2>2. WorkerInv(Started(e, 1, "flight"), db')
      BY <2>1, StartRelies, Zenon
    <2>3. worker' = [worker EXCEPT ![w] = Started(e, 1, "flight")]
      BY <1>6, StageOrder, Zenon DEF Deliver, Redeliver
    <2> QED
      BY <1>4, <2>2, <2>3, Zenon
  <1> QED
    BY <1>5, <1>6, Zenon

\* An event is settled with what its worker relied on: acknowledged, it is
\* explained and its marker is written.
LEMMA SettleKeeps ==
    ASSUME PipelineInv, NEW w \in Workers, batch' = batch, Ack(w) \/ PublishDLQ(w)
    PROVE  Keeps
  <1> DEFINE r == worker[w]
             e == worker[w].event
  <1>1. PICK end \in {"acked", "dlq"} :
            /\ settled' = [settled EXCEPT ![e] = @ \cup {end}]
            /\ end = "acked" => r.stage = "ack"
            /\ r.stage # "idle"
    <2>1. CASE Ack(w)
      BY <2>1 DEF Ack, At
    <2>2. CASE PublishDLQ(w)
      BY <2>2 DEF PublishDLQ, At
    <2> QED
      BY <2>1, <2>2, Zenon
  <1>2. worker' = [worker EXCEPT ![w] = Idle] /\ db' = db /\ UNCHANGED faults
    BY Zenon DEF Ack, PublishDLQ
  <1>3. WorkerInv(r, db) /\ e \in Ids
    BY <1>1, AtStage, Zenon
  <1>4. Moved(w) /\ worker'[w] = Idle
    BY <1>2, ReplaceMoves, Zenon
  <1>5. \A v \in Workers : WorkerInv(worker'[v], db')
    <2> SUFFICES ASSUME NEW v \in Workers
                 PROVE  WorkerInv(worker'[v], db')
      OBVIOUS
    <2>1. CASE v = w
      BY <1>4, <2>1, IdleRelies, Zenon
    <2>2. CASE v # w
      BY <1>2, <1>4, <2>2, Zenon DEF Moved, PipelineInv
    <2> QED
      BY <2>1, <2>2, Zenon
  <1>6. /\ settled' = [x \in Ids |-> settled'[x]] /\ settled'[e] = settled[e] \cup {end}
        /\ \A x \in Ids \ {e} : settled'[x] = settled[x]
    <2>1. settled = [x \in Ids |-> settled[x]]
      BY Zenon DEF PipelineInv
    <2> QED
      BY <1>1, <1>3, <2>1, Zenon
  <1>7. end = "acked" => Explained(e, db) /\ (Events[e].marker = "valid" => e \in db.markers)
    BY <1>1, <1>3, Zenon DEF WorkerInv, Marked
  <1>8. \A x \in Ids : EventInv(x, db', settled'[x])
    <2> SUFFICES ASSUME NEW x \in Ids
                 PROVE  EventInv(x, db, settled'[x])
      BY <1>2, Zenon
    <2>1. EventInv(x, db, settled[x])
      BY Zenon DEF PipelineInv
    <2>2. CASE x = e
      <3>1. EventInv(e, db, settled[e] \cup {end})
        BY <1>1, <1>7, <2>1, <2>2, Zenon DEF EventInv
      <3> QED
        BY <1>6, <2>2, <3>1, Zenon
    <2>3. CASE x # e
      BY <1>6, <2>1, <2>3, Zenon
    <2> QED
      BY <2>2, <2>3, Zenon
  <1>9. DbShape(db') /\ Grows(db, db')
    BY <1>2, SoundStays, Zenon DEF Sound
  <1>10. batch' \in Batches /\ faults' \in 0..MaxFaults /\ worker' = [v \in Workers |-> worker'[v]]
    BY <1>2, <1>4, Zenon DEF PipelineInv, Moved
  <1> QED
    BY <1>5, <1>6, <1>8, <1>9, <1>10, Zenon DEF PipelineInv, Keeps

-----------------------------------------------------------------------------
(***************************************************************************)
(* The theorems.                                                           *)
(***************************************************************************)

\* No worker has started and no table has a row.
LEMMA InitKeeps == Init => PipelineInv
  <1> SUFFICES ASSUME Init
               PROVE  PipelineInv
    OBVIOUS
  <1> DEFINE none == [e \in Ids |-> {}]
             zero == [e \in Ids |-> 0]
             values == [d \in Range(Dimensions) |-> {}]
  <1>1. /\ db = [flight |-> {}, markers |-> {}, quarantine |-> {}, findings |-> {},
                 decisions |-> none, stats |-> zero, seen |-> values,
                 rows |-> none, intents |-> none]
        /\ worker = [w \in Workers |-> Idle] /\ settled = none /\ faults = 0
        /\ batch \in Batches
    BY Zenon DEF Init
  <1>2. /\ \A e \in Ids : none[e] = {} /\ zero[e] = 0
        /\ none = [e \in Ids |-> none[e]] /\ zero = [e \in Ids |-> zero[e]]
    BY Zenon
  <1> HIDE DEF none, zero, values
  <1>3. /\ db.flight = {} /\ db.markers = {} /\ db.quarantine = {} /\ db.findings = {}
        /\ db.decisions = none /\ db.stats = zero /\ db.seen = values
        /\ db.rows = none /\ db.intents = none
    BY <1>1
  <1>4. DbShape(db)
    BY <1>1, <1>2, <1>3, Zenon DEF DbShape
  <1>5. \A e \in Ids : EventInv(e, db, settled[e])
    <2> SUFFICES ASSUME NEW e \in Ids
                 PROVE  EventInv(e, db, settled[e])
      OBVIOUS
    <2>1. /\ db.decisions[e] = {} /\ db.rows[e] = {} /\ db.intents[e] = {} /\ db.stats[e] = 0
          /\ settled[e] = {} /\ e \notin db.quarantine
      BY <1>1, <1>2, <1>3, Zenon
    <2> QED
      BY <2>1, Zenon DEF EventInv, AtMostOne
  <1>6. /\ \A w \in Workers : worker[w] = Idle
        /\ worker = [w \in Workers |-> worker[w]]
    BY <1>1, Zenon
  <1>7. \A w \in Workers : WorkerInv(worker[w], db)
    BY <1>6, IdleRelies, Zenon
  <1>8. faults \in 0..MaxFaults
    BY <1>1, Bounds
  <1>9. settled = [e \in Ids |-> settled[e]]
    BY <1>1, <1>2, Zenon
  <1> QED
    BY <1>1, <1>4, <1>5, <1>6, <1>7, <1>8, <1>9, Zenon DEF PipelineInv

\* The invariant says nothing of the clock.
LEMMA StandstillKeeps ==
    ASSUME PipelineInv, UNCHANGED <<batch, worker, db, settled, faults>>
    PROVE  Keeps
  <1>1. PipelineInv'
    BY Zenon DEF PipelineInv
  <1>2. Grows(db, db')
    BY SoundStays, Zenon DEF Sound
  <1> QED
    BY <1>1, <1>2, Zenon DEF Keeps

\* Every step keeps the invariant and lets the tables grow.
LEMMA StepKeeps ==
    ASSUME PipelineInv, [Next]_vars
    PROVE  Keeps
  <1>1. CASE Next
    <2>1. batch' = batch
      BY <1>1, Zenon DEF Next
    <2>2. ASSUME NEW w \in Workers, Process(w)
          PROVE  Keeps
      <3>1. ASSUME NEW p \in Pressures, NEW m \in Multipliers, Shape(w, p, m) \/ AuditFails(w, p, m)
            PROVE  Keeps
        BY <2>1, <3>1, ShapeKeeps, AuditKeeps, Zenon
      <3>2. CASE RecordFlight(w) \/ Normalize(w) \/ RecordChange(w)
        BY <2>1, <3>2, FlightKeeps, NormalizeKeeps, ChangeKeeps, Zenon
      <3>3. CASE Firewall(w) \/ EvaluateFails(w) \/ LeaveFirewall(w)
        BY <2>1, <3>3, FirewallKeeps, EvaluateFailsKeeps, LeaveKeeps, Zenon
      <3>4. CASE Persist(w) \/ Route(w)
        BY <2>1, <3>4, PersistKeeps, RouteKeeps, Zenon
      <3>5. CASE Ack(w) \/ PublishDLQ(w)
        BY <2>1, <3>5, SettleKeeps, Zenon
      <3> QED
        BY <2>2, <3>1, <3>2, <3>3, <3>4, <3>5, Zenon DEF Process
    <2>3. ASSUME NEW w \in Workers, Crash(w) \/ \E e \in Ids : Deliver(w, e) \/ Redeliver(w, e)
          PROVE  Keeps
      BY <2>1, <2>3, DeliveryKeeps, Zenon
    <2>4. CASE HourPasses
      BY <2>1, <2>4, StandstillKeeps, Zenon DEF HourPasses
    <2> QED
      BY <1>1, <2>2, <2>3, <2>4, Zenon DEF Next, Progress
  <1>2. CASE UNCHANGED vars
    BY <1>2, StandstillKeeps, Zenon DEF vars
  <1> QED
    BY <1>1, <1>2

\* The invariant explains every loss and relates the stages.
LEMMA InvariantImplies == PipelineInv => LossExplained /\ StagesAgree
  <1> SUFFICES ASSUME PipelineInv
               PROVE  LossExplained /\ StagesAgree
    OBVIOUS
  <1>1. \A e \in Ids : EventInv(e, db, settled[e])
    BY Zenon DEF PipelineInv
  <1>2. EvidenceBeforeLoss
    BY <1>1, Zenon DEF EvidenceBeforeLoss, EventInv
  <1>3. NoUnauditedLoss
    BY <1>1, Zenon DEF NoUnauditedLoss, EventInv, Explained
  <1>4. ProtectedKept
    BY <1>1, Zenon DEF ProtectedKept, EventInv, Explained
  <1>5. ChangesRecorded /\ QuarantineEvidence /\ RoutedPersisted
    BY <1>1, Zenon DEF ChangesRecorded, QuarantineEvidence, RoutedPersisted, EventInv, Honest
  <1>6. StatsExact
    BY <1>1, Zenon DEF StatsExact, EventInv
  <1>7. TypeOK
    <2>1. \A w \in Workers :
             /\ worker[w].stage \in Stages /\ worker[w].attempts \in 0..MaxAttempts
             /\ (worker[w].stage = "idle") = (worker[w].event \notin Ids)
             /\ worker[w].blocked # {} => worker[w].stage = "policy"
      <3> SUFFICES ASSUME NEW w \in Workers
                   PROVE  /\ worker[w].stage \in Stages /\ worker[w].attempts \in 0..MaxAttempts
                          /\ (worker[w].stage = "idle") = (worker[w].event \notin Ids)
                          /\ worker[w].blocked # {} => worker[w].stage = "policy"
        OBVIOUS
      <3>1. WorkerInv(worker[w], db)
        BY Zenon DEF PipelineInv
      <3>2. "" \notin Ids
        BY PipelineAssumption, Zenon DEF PipelineAssumption
      <3>3. (worker[w].stage = "idle") <=> (worker[w].event \notin Ids)
        BY <3>1, <3>2, Zenon DEF WorkerInv
      <3> QED
        BY <3>1, <3>3, StageNames, Zenon DEF WorkerInv
    <2>2. \A e \in Ids :
             /\ settled[e] \subseteq {"acked", "dlq"}
             /\ AtMostOne(db.decisions[e]) /\ AtMostOne(db.rows[e]) /\ AtMostOne(db.intents[e])
      BY <1>1, Zenon DEF EventInv
    <2>3. batch \in Batches /\ faults \in 0..MaxFaults
      BY Zenon DEF PipelineInv
    <2> QED
      BY <2>1, <2>2, <2>3, Zenon DEF TypeOK
  <1> QED
    BY <1>2, <1>3, <1>4, <1>5, <1>6, <1>7, Zenon DEF LossExplained, StagesAgree

\* The inductive invariant: each worker relies only on what the tables hold.
THEOREM PipelineInvariance == Spec => []PipelineInv
  <1>1. PipelineInv /\ [Next]_vars => PipelineInv'
    BY StepKeeps, Zenon DEF Keeps
  <1> QED
    BY <1>1, InitKeeps, PTL DEF Spec

\* Nothing is lost without evidence: whatever the retries, redeliveries, crashes
\* and lost answers, the flight recorder has an event before anything removes a
\* part of it, an acknowledged event is persisted and routed unless the audit
\* has the decision that dropped it, and a protected event is never dropped.
THEOREM NoLossUnexplained == Spec => []LossExplained
  <1>1. PipelineInv => LossExplained
    BY InvariantImplies, Zenon
  <1> QED
    BY <1>1, PipelineInvariance, PTL

\* The tables of the stages agree: markers of acknowledged changes, quarantine
\* before an event the firewall marked, rows before envelopes, and one statistic per decision.
THEOREM StagesStayInStep == Spec => []StagesAgree
  <1>1. PipelineInv => StagesAgree
    BY InvariantImplies, Zenon
  <1> QED
    BY <1>1, PipelineInvariance, PTL

\* No later delivery changes the row of an event or its envelope.
THEOREM RowsAreFinal == Spec => FirstWriteWins
  <1>1. PipelineInv /\ [Next]_vars =>
            [\A e \in Ids :
                /\ db.rows[e] # {} => db'.rows[e] = db.rows[e]
                /\ db.intents[e] # {} => db'.intents[e] = db.intents[e]]_vars
    BY StepKeeps, Zenon DEF Keeps, Grows
  <1> QED
    BY <1>1, PipelineInvariance, PTL DEF Spec, FirstWriteWins
=============================================================================
