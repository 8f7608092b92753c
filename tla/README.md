# TelemetryForge: specification and proofs

TLA+ specifications of the parts of TelemetryForge whose correctness depends on
crashes, concurrency, retries and unreliable delivery, the TLC models that check
them on small instances, and TLAPS proofs of the main theorems. Paths are relative
to the repository root (packages without a prefix are under `src/internal`);
`PROJECT.json` maps every definition to the lines it models.

## 1. The system

An event enters at a **gateway** or an **edge**. The edge writes it to a
**write-ahead log**, **replicates** it to peer edges, acknowledges it, and a
**replay loop** delivers it to Kafka, through its own brokers or those of another
edge of the **mesh**. A group of **workers** consumes Kafka, takes each event
through a chain of processors (flight recorder, incident detection, schema, change
markers, shaping, cardinality firewall, storage, routing) and commits offsets. A
**router** drains the planned deliveries from an outbox in PostgreSQL. Beside this
path run services that govern it (configuration lifecycle, autonomy controller)
or explain it (incidents, replay, change analysis, evidence graph, status, live
feed).

| Part | State | What makes it hard | Module |
|---|---|---|---|
| Ingestion endpoints (`api`) | requests in progress | retries of a batch that was partly published | `Ingest` |
| Edge WAL (`wal`) | segments, seals, checkpoint | a crash between any two writes, unsynced but readable frames, budget | `EdgeWAL` |
| Replica store (`replication/store.go`) | a log and a release checkpoint per origin | crashes and I/O errors inside a write, duplicates, conflicts | `ReplicaStore` |
| Edge publisher, replication manager, Kafka producer (`edge`, `replication`, `stream`) | replay loop, calls in progress | timeouts, late requests, quorum over failure domains, restarts | `EdgeDelivery` implements `IngestContract` |
| Mesh (`mesh`) | probe results per node | stale health, failover after a lost answer | `MeshRouting` |
| Consumer and worker pool (`stream`, `worker/pool.go`) | pending offsets, queue, workers | out-of-order completion, rebalance, eviction, failed commits | `ConsumerGroup` |
| Processor chain (`worker`, `shaping`, `policy`, `storage`) | tables, one trace per stage | nine writes with no common transaction, retries, redelivery | `Shaping`, `CardinalityPolicy`, `Pipeline` |
| Router (`router`, `storage/routing.go`) | outbox rows, leases, dead letters | lease expiry during a delivery, several dispatchers | `RoutingPlan`, `RouterOutbox` implements `RoutingContract` |
| Schema registry (`schema`, `storage/schema.go`) | entries, ledger, findings | concurrent observers of one version | `SchemaRegistry` |
| Lifecycle (`lifecycle`, `storage/lifecycle.go`) | artifacts, audit | check and write are separate steps | `Lifecycle` |
| Incident detector, flight recorder (`incident`, `storage/flightrecorder.go`) | windows, cooldowns, incidents | eviction, slow or failed freezes | `IncidentDetector` |
| eBPF agent (`ebpf`) | baselines | deltas across failed publishes and restarts | `EbpfAgent` |
| Fast-path ring and pool (`fastpath`) | slots with sequences | lock-free interleavings | `FastRing` |
| Autonomy controller (`autonomy`) | history, active action, cooldown | failing audit, guardrails, expiry | `Autonomy` |
| Live feed (`storage/dashboard.go`, `api/dashboard.go`) | cursor | rows that become visible late, reconnection | `LiveFeed` |
| Fabric status (`fabric`, `cmd/edge`) | none | parts change while they are read | `FabricStatus` |
| Change intelligence (`changeintel`, `storage/change.go`) | markers, snapshots | reordered change events, unprotected reads | `ChangeIntel` |
| Incident archive and replay (`incidentarchive`, `replay`, `storage`) | files, incidents, runs | damage, repeated import, state carried between runs | `IncidentArchive`, `IncidentReplay` |
| Evidence graph and investigation (`evidence`, `intelligence`) | stored graph, findings | edge bound, map order, ignored read errors | `EvidenceGraph` |

`PROJECT.json` lists all components, with those that are not modelled.

## 2. Modules

Definitions keep the names of the source. A definition that follows a comment
"Mutation:" is a plausible slip in the definition after it; no specification uses
it, and it exists to show that a property can fail. An `MC` module gives the
constants of a component their values for TLC.

### The edge

**EdgeWAL.** `Store` holds its mutex for the whole of every method, so each method
is one action: `Open`, `AppendEvent` (with rotation and sealing), `AppendRejected`,
`Commit` (with checkpoint and compaction), `Close`. What still interleaves is a
crash or an I/O error, and every method that writes has an `*Interrupted` action
that stops it after any prefix of its writes, either with the process dead or
with `store.failed` latched. A file records how much of it is synced: `PowerLoss`
keeps the synced part and any prefix of the rest, `Kill` keeps everything that was
written. Sizes are abstract units chosen so that rotation and disk pressure occur.
A record's hash is the identity of the append attempt, a Merkle root the sequence
of its leaves; signatures always verify, because the directory holds only what the
store wrote. File creation and rename are durable at once.

**ReplicaStore.** One log per origin: header, frames, interrupted frames (`Torn`),
and how many items are synced. `Put` is five actions, one per outcome: released,
duplicate, conflict, written, pressure (with compaction inside), plus its failures.
`Release` writes its checkpoint, forgets fingerprints and compacts when the stride
is reached. An I/O error is not latched in this store, and the model does not latch
it either: the next `Put` appends behind what the failed one left. What the scanner
makes of bytes behind an interrupted frame depends on those bytes, so it may stop
there or fail (`ScanMaySucceed`, `ScanMayFail`).

**EdgeDelivery** composes one origin edge with its peers and Kafka. Clients call
`PublishWithReceipt`; the replay loop has a program counter over the stages of
`run`. A `Replicate` call, of a client or of the loop, has the peers it waits for
and the acknowledgements it has. A call that returns early or dies leaves its
requests behind (`latePuts`, `lateReleases`), and a peer may serve them at any
later time. `evaluate` is the quorum over clouds, regions and zones. Here the WAL
is its sequence of events plus the count of unsynced ones, with the guarantees that
`EdgeWAL` establishes and the weakness it finds (recovered frames are not synced).
A peer keeps what it acknowledged. In local mode `Replicate` returns at once and
there is nothing to compose; only the other modes are modelled.

**IngestContract** is what an edge promises, without WAL, requests or loop: an
event is acknowledged and delivered only from durable copies that satisfy the
policy, is checkpointed after its delivery, and a copy is given up only after the
checkpoint. It is the state machine of the repository's own `internal/formal`
(`durable_ingest.go`, `replication.go`) with the losses that leaves out.
`ImplementsIngest` is `EdgeDelivery` under the mapping that takes an event's copies
to be the origin, when its log holds the event, and the peers that hold its record.

**MeshRouting** is the mesh as one edge sees it. The condition of a node travels in
a probe's answer and is applied later; a state expires; `PublishBatch` checks the
owners, publishes the batch locally when the edge owns all of it, and otherwise item
by item with the next candidate after a failure. A peer can do the work and its
answer get lost.

**Ingest** is the gateway's handlers for events, metrics, changes and OTLP batches.
A handler checks the whole request, then names and publishes record by record; the
client sends the request again after an error or when no answer comes, so handlers
of two attempts may run at once.

### Workers and router

**ConsumerGroup.** Each member is a worker process: poll loop, contexts (`fatal`,
`shutdown`), the acknowledgement coordinator, the bounded queue and its workers. A
processor succeeds, fails transiently or fails for good. Malformed records are
dead-lettered and acknowledged by the poll loop itself. The group coordinator is
external: it assigns and revokes partitions while the rebalance gate is open, evicts
members at any time, accepts commits from the current owner only, and a commit that
fails may have been applied.

**Shaping** and **CardinalityPolicy** are the configuration checks and decisions, as
operators over integer percentages; a glob pattern is the set it matches.

**Pipeline** is the chain that `cmd/worker/main.go` composes, one action per stage,
with the retries of the pool around the whole chain. A database call may fail before
or after its transaction committed; a worker may crash between two stages; the
broker may deliver an event to a second worker while the first still has it. The
firewall reads the clock once for an event (`now`) and counts the values of a
dimension in the row of that hour; `HourPasses` turns the hour under workers that
have read it. A budget, an observation or a shadow report that fails retries the
event (`EvaluateFails`).

**RoutingPlan** is the validation of routing documents and `Config.Plan`.
**RouterOutbox** is the outbox: plans and shadow differences are written, lanes of
two router processes claim, send, mark, retry, dead-letter (with the fallback
intent) and an operator requeues. A lane works on the copy of the row it claimed,
and its updates look neither at the row's status nor at its lease, as in the SQL.
**RoutingContract** is the promise: an intent never disappears, is reported
delivered only when the destination has the event, and is given up only when the
intent for the fallback exists. `ImplementsContract` maps the rows to it.

### Services beside the path

Each of these is a specification of its own, whose actions split an operation
wherever the code lets others in between (outside a transaction or a lock, between
two requests).

- **SchemaRegistry**: `Describe` and `Diff` as operators; `ObserveSchema` as its
  transaction, with concurrent observers, failure and pruning of the ledger. An
  append of a new field may move the array that the counters are reached through
  (`Reallocations`); the known fields after it are then not counted.
- **Lifecycle**: an operation reads the artifact, then decides and writes; an
  activation reads its gates in between. The audit row is a statement after the
  commit, and a call may break off before any of its statements (`CallBreaks`).
- **IncidentDetector**: record, read the clock, take the lock, freeze, annotate, by
  two workers, with the bounded tables and their eviction.
- **EbpfAgent**: kernel counters, polls that publish one signal after another,
  failing snapshots and appends, restarts.
- **FastRing**: every atomic load, compare-and-swap and store of `TryPush` and
  `TryPop` is a step, and so are the plain accesses to a slot.
- **Autonomy**: what the pool reports and `Tick`: forecast, start, guardrails,
  expiry, rollback, audit that may fail. Without a cooldown one tick may end an
  action and start the next.
- **LiveFeed**: inserts whose time is the start of the transaction, pages of the
  stream, reconnection with the last event ID.
- **FabricStatus**: the reads of one status request while the parts change.
- **ChangeIntel**: markers upserted from change events in any order, analyses query
  by query.
- **IncidentArchive**, **IncidentReplay**: freezes of new, existing and imported
  incidents, export, damage to members or manifest, verification, import; runs with
  a policy engine of their own over original and imported evidence.
- **EvidenceGraph**: the passes that add edges, the bound on edges, the order of map
  groups (any), hypotheses, findings and the stored snapshots. Queries whose error
  the handler ignores may return less.

**MCServices** puts them in one specification: the variable `focus`, chosen in the
initial state, says which service runs, and the others stay as they are. They share
no state, so this checks each of them exactly as if it were alone, and shares one
namespace of constants.

## 3. Runs

| Run | Property | What it says |
|---|---|---|
| `edge_wal` | `AcceptedRecoverable` | an accepted event is committed or in the synced part of a segment |
| | `EdgeSequenceUnique`, `SourceSequenceOrdered` | no sequence names two accepted events; a source's sequences follow the edge's |
| | `RecoveryFailsOnlyWhenTorn` | `Open` fails only for a torn header or a checkpoint ahead of the log |
| | `StoreConsistent` | types, exact byte budget, contiguous pending records, what a drained log still holds (and room for the next event if the budget has two segments and one per fault), clean audit |
| | `SealedIsFinal` | a sealed segment never changes and goes only when committed |
| `edge_wal_torn_header` | `AcceptedReplayable` | **violated**, finding 1 |
| `replica_store` | `AckKept` | an acknowledged replica stays readable until released, as long as no kill or I/O error cut a write short |
| | `StoreConsistent` | types, fingerprints match the logs, exact budget, nothing forgotten that is not released |
| | `ReopensUnlessHeaderTorn` | only a torn header keeps the store from opening |
| `replica_store_torn_frame` | `AckReadable` | **violated** by one write error, finding 2 |
| `edge_delivery` | `AcceptedKeepsQuorum` | an acknowledged event keeps its quorum until checkpointed |
| | `ImplementsIngest` | the edge implements `IngestContract` |
| `edge_delivery_live` | `EveryRecordDelivered` | every record in the log is in the end delivered and checkpointed |
| `consumer_group` | `OffsetsSafe` | no committed position passes an unhandled record; the rebalance gate opens with nothing pending |
| | `PositionMonotone`, `AllCommitted` | positions never go back; every record is committed in the end |
| `router_outbox` | `OutboxConsistent` | rows, leases, dead letters, retries and plans agree |
| | `ImplementsContract` | the outbox implements `RoutingContract` |
| | `AllSettled`, `HealthyDelivered` | every intent is settled in the end; one for a healthy destination is delivered while others fail |
| `mesh_routing` | `ProducedAsReported` | a success was produced; failover duplicates only after a lost answer |
| | `StableOwnership`, `FailoverDelivers` | a key moves only with eligibility; all is delivered once some node works for good |
| `pipeline` | `LossExplained` | the recorder has an event before anything is removed from it, a drop is audited, protected events are kept |
| | `StagesAgree` | markers, quarantine, rows, intents and statistics agree, although the stages share no transaction |
| | `FirewallBound` | in one hour fewer distinct values of a removed dimension than the threshold pass, over all workers, and only values that passed are stored and routed |
| | `FirstWriteWins`, `AllSettled` | redelivery changes neither row nor envelope while `event_dedup` is not pruned; every event is acknowledged or dead-lettered in the end |
| `pipeline_shaping_retry` | `SampledOutStaysOut` | **violated**, finding 3 |
| `services` | `IngestHonest` | an answer says what was published; a retry of records with client IDs publishes no second event |
| | `RegistryExact` | observations equal the ledger, no field is counted too often or marked required without support, counts lost are bounded by the paths added, unhealthy entries are explained, the field limit is kept and reported |
| | `ConfigurationGoverned` | one active configuration of a kind, approved by another person, gated, audited unless its call broke off before the audit row; the audit invents nothing |
| | `IncidentsHonest` | an incident has its threshold of errors and its trigger as evidence, one per cooldown, tables bounded |
| | `DeltasExact` | published deltas add up to the baseline, none is lost to deduplication within a run of the process |
| | `RingSafe` | a buffer has one owner, a pop gets what was pushed, the ends stay within the ring |
| | `ReductionGoverned` | a reduction is on record before it takes effect, limited in time and depth, followed by the configured cooldown |
| | `FeedComplete` | the feed skips nothing that was visible when it passed, and repeats nothing |
| | `StatusWitnessed` | each verdict of a status has a witness while it was read |
| | `ChangeAssessed` | a marker keeps what its events told, a worse window is never assessed milder |
| | `EvidenceReproduced` | an import holds what its archive was written with and besides it only what a later freeze took from the recorder; a summary agrees with its rows, equal replays agree, also on a copy |
| | `EvidenceSound` | below the edge bound the graph has exactly the edges their reasons call for, above it none without one; hypotheses claim no more than their edges support, a mixed finding has both sides |
| | `ServicesNeverRegress` | the registry forgets no path, a kind never becomes unconfigured, the copy of an event that an incident shows gives way only to one captured earlier |

**Bounds.** Every bound is a constant: how much happens (`MaxAppends`, `MaxEvents`,
`NumOffsets`, `MaxObservations`, `MaxOperations`, `MaxPosition` ...) and how often
something goes wrong (`MaxFaults` and its like), with the kinds of faults in
`Faults`.

- WAL: six appends rotate the log and compact it; a segment holds one or two frames and
  the budget is reached; it has room for two segments and one more, so the drained log
  is judged up to the first fault. Two faults are what the known failures need: a kill
  that leaves something unsynced, then a power loss that takes it. The initial directory
  is empty or left by a version 1 edge.
- Replicas: two sequences give a release, a retained record and a conflict.
- Edge: two events give a batch, a partial delivery and a reuse; two peers in
  different regions give quorums that are missed for want of a domain.
  `edge_delivery_live` allows one fault, since its property is known to fail with
  a kill followed by a power loss (section 4).
- Workers: two members are the least that can take a partition from each other; two
  partitions have the same offsets, one record is malformed, and the queue of one
  job is filled by two workers' records. One fault of any kind.
- Router: two replicas, two events, documents with a fallback chain, a fan-out and a
  cycle that validation refuses; one destination fails at will, one is healthy.
- Pipeline: events that are sampled, protected, oversized, with a second value of a
  dimension at its threshold of 2, with an invalid marker, and one that arrives with
  the firewall's own tag, which a rule drops. `MaxHour` = 1 lets the hour turn once,
  at any point of a delivery.
- Mesh: three nodes, two keys with different owners, one change and one lost answer.
- Services: two or three actors each; limits of the code (500 rows, 2048 fields, 32
  attempts, 2000 edges) become small numbers that behaviours reach. A limit is
  compared in the same way whatever its value. `MaxArchiveEvents` = 3 truncates the
  export of four events, `MaxFreezes` = 2 freezes an incident again, `MaxBreaks` = 1
  cuts off one call of the lifecycle. The cooldown of the run is positive; the theorem
  has any.

**Deadlock** is checked for the WAL and the replica store. In the others it is not:
when all is delivered, committed or settled, or a bound on calls is used up, the
system is idle.

**Symmetry** is used for the origins of the replica store only, with safety
properties only.

**Fairness.** All of it is weak fairness, and faults are bounded, so each fair
specification says "eventually no more faults"; no fairness forces a fault, a
processor or destination to succeed, or a client to call.

- `EdgeDelivery!FairSpec`: the replay goroutine runs, requests in progress are
  answered or time out (each has a deadline), a process that died is started again.
- `ConsumerGroup!FairSpec`: poll loop and pool of each member run, free partitions
  are assigned, a member notices a lost partition, an ended process is restarted.
- `RouterOutbox!FairSpec`: some step of planner, lanes or time is taken while one is
  possible. Lanes poll in endless loops; the next attempt of a row and its lease come
  due by the clock. Time is not owed to a row that a lane is working on.
- `MeshRouting!FairSpec`: the publishing goroutine runs, probes (on a ticker) are
  answered and recorded.
- `Pipeline!FairSpec`: some worker's step or delivery is taken while one is possible;
  the pool's workers are goroutines that are never blocked on each other here.

## 4. Findings

1. **A torn segment header keeps the WAL from opening.** `createSegment` creates
   the file before its header is written; `scanSegment` repairs a partial frame but
   fails on a partial header, although accepted events are undelivered.
2. **A replica is acknowledged behind a torn frame.** After a failed write the next
   `Put` appends behind the partial frame and cannot be read back.
3. **A retry keeps an event that was recorded as sampled out.**
   `ResolveShapingDecision` stores pressure, time and outcome but not the autonomy
   multiplier, so a decision read back has multiplier 0. A retry re-evaluates with 0,
   gets another effective rate unless the recorded one was the rule's minimum, takes
   that for a changed configuration and keeps the original event
   (`worker/shaping.go:73-88`), with autonomy off as well.

`PROJECT.json` quotes the sentence of the repository that each contradicts.

The passing runs also delimit, rather than assume away, behaviour worth knowing:

- `wal/store.go:430`: recovery adopts a complete frame that was never synced and does
  not sync it. Delivered, committed and then lost with the power, it leaves the
  checkpoint ahead of the log, and `Open` fails (the second exception in
  `RecoveryFailsOnlyWhenTorn`). Replicated and then lost, its sequence is used again;
  the peers answer conflict and the replay loop cannot pass the record
  (`edge/publisher.go:221`). The replica store has the same weakness: such a frame
  is acknowledged as a duplicate (`AckKept` excludes kills).
- `wal/store.go:110` accepts a budget of one segment, as `store_test.go:104` uses it.
  `compact` keeps the active segment (`:628`): once that is full and committed, such a
  store refuses every event for want of room (the condition in `DrainedAccepts`).
- `wal/store.go:197`: an `Append` that fails after its frame is complete answers "not
  persisted" although recovery may find the record.
- `edge/publisher.go`: `PublishBatch` delivers the records of a batch in any order;
  ADR 0052 speaks of edge-sequence order, ADR 0057 accepts the exception.
- `mesh/publisher.go:35-37` says that a failed local batch falls back to delivery item by
  item; lines 57-59 return the errors of the batch, so a local edge that pings its
  brokers and cannot produce keeps failing it (the condition in `FailoverDelivers`).
- `ebpf`: event IDs (signal and total) repeat after a restart, so the store may drop a
  delta of the new run for one of an earlier run.
- `storage/lifecycle.go:157` lets a rollback reactivate a retired artifact that was
  never approved; `:247` stops activating due artifacts at the first that fails. The
  audit row is written after the commit (`:183-190`): a call that fails there reports
  an error for an activation that happened, without a record of it, and `:39` and
  `:134` ignore that error.
- `storage/schema.go:309-344` counts fields through pointers into a slice that it
  appends to; after an append that moves the slice the counts, times and conflicts of
  the known fields that follow are lost. A field may so miss its required flag; it
  never gets one without support (`RequiredSupported`).
- `storage/flightrecorder.go:61-93`: freezing an incident that exists, or was imported,
  moves its window and adds rows. An earlier capture of an event then takes the place
  of the one that replays and exports have read (`EvidenceKept`).
- `storage/cardinality.go:46`: the count of a dimension starts again each hour, so what
  is stored over several hours exceeds the threshold (`FirewallBound` is by the hour).
- `policy/engine.go:263`: an event may arrive with `telemetryforge.quarantined`, or a
  shaping rule rename a tag to it, so the tag alone does not show that the firewall
  quarantined the event (`QuarantineEvidence`).
- `storage/dashboard.go:175`: a limit above the maximum becomes the default, so asking
  for more incident events can return fewer.
- `router/dispatcher.go:242`: the delay is computed before it is clamped; large attempt
  counts exceed what a `Duration` holds.
- `policy/engine.go:186` reserves the report interval before the finding is recorded;
  a failed write loses the report of that interval.
- `storage/change.go:303`: a rollback counts as recovered when the window after it is
  empty.
- `evidence/graph.go:228`: at the edge bound the order of Go maps decides which edges
  survive, and contradicting edges come late; ADR 0049 calls repeated runs
  "structurally reproducible", which holds below the bound. `buildHypotheses` never
  counts contradictions for a recent change while the investigation calls it mixed.
  A captured change event that is also an error gets a "precedes" edge to itself.
- `api/otlp.go`: OTLP records carry no client ID, so a retried batch publishes copies of
  what went through; `handleChange` names a new event at each attempt. A metric that is
  neither gauge nor sum counts as one rejected data point, however many it holds.

## 5. Proofs

Each theorem holds for every value of the constants that the named assumption of its
module allows; TLC evaluates those assumptions on each run. The bounds on events,
faults and operations are constants too, so a theorem covers any number of them.

| Module | Theorem | Statement | Assumption |
|---|---|---|---|
| `EdgeWALProofs` | `TypeCorrect` | `[]TypeOK` | `SizesAssumption`, `InitialDirsAssumption`, `BoundsAssumption` |
| | `Durability` | `[]AcceptedRecoverable` | |
| | `SequencesUnique` | `[]EdgeSequenceUnique` | |
| | `SealsAreFinal` | `SealedIsFinal` | |
| | `SourcesInOrder` | `[]SourceSequenceOrdered` | |
| `EdgeDeliveryProofs` | `ReceiptsHold` | `[]AcceptedKeepsQuorum` | `ConfigAssumption` |
| | `Refinement` | `ImplementsIngest` | |
| `ConsumerGroupProofs` | `Safety` | `[]OffsetsSafe` | `GroupAssumption` |
| | `Monotonicity` | `PositionMonotone` | |
| `RouterOutboxProofs` | `Consistency` | `[]OutboxConsistent` | `OutboxAssumption` |
| | `Refinement` | `ImplementsContract` | |
| `PipelineProofs` | `NoLossUnexplained` | `[]LossExplained` | `PipelineAssumption` |
| | `StagesStayInStep` | `[]StagesAgree` | |
| | `RowsAreFinal` | `FirstWriteWins` | |
| `ServiceProofs` | `RingIsSafe` | `[]RingSafe` | `RingAssumption` |
| | `ConfigurationIsGoverned` | `[]ConfigurationGoverned` | none |
| | `ConfigurationStays` | `[][NeverUnconfigured]` | |
| | `ReductionIsGoverned` | `[]ReductionGoverned` | `AutonomyAssumption` |
| | `StatusIsWitnessed` | `[]StatusWitnessed` | `FabricAssumption` |
| `ApiProofs` | `AnswersAreHonest` | `[]IngestHonest` | `IngestAssumption` |
| | `FeedIsComplete` | `[]FeedComplete` | `FeedAssumption` |

The assumptions are what the code checks when it starts (a valid replication policy, a
batch of at least one, a positive queue, documents with positive attempts), the natural
number types of sizes and counts, and that peers are a finite set. `IngestAssumption` is
what the five endpoints decode: one record, or an OTLP batch whose records have no ID.
`EdgeWAL`'s `InitialDirsAssumption` says that the first `Open` finds an empty directory
or one in the state a version 1 store leaves. `PipelineAssumption` says that no event
has the empty string as its name, which the model uses for a worker without an event.
`AutonomyAssumption` is what `Config.Validate` accepts, a cooldown of zero included.

None of the invariants is inductive as it stands. Every proof has the same form: an
inductive invariant (`IInv`, or the service's own), one lemma per action that it is
preserved, and the property as a consequence. TLC checked each inductive invariant on a
small instance before it was proved.

**EdgeWAL.** That compaction removes only committed records depends on the order of
sequences in and between files, that a power loss removes no accepted record on older
segments being synced, and that a sequence is not used twice on recovery computing the
next one from what is left. `IInv` says this of the directory (`DirInv`: order within
and between files, all but the newest file complete and synced, sealed segments
unchanged or committed, names at most one past a known sequence), of the store in memory
(`MemOK`: a usable store mirrors the directory and owns its newest segment), and of
accepted records (`AcceptedUnique`). `EdgeWALInvariant` has one group of lemmas per kind
of write (sync or truncate, new segment, frame, seal, compaction, power loss), each
stated about an arbitrary directory, and the lemmas of `Open` and `rotate`;
`EdgeWALProofs` has those of the other actions and the theorems. Most steps leave every
sealed segment alone; those that do not are compaction, which removes only what the
checkpoint covers, and a power loss, which cannot shorten a synced file. The order of a
source's sequences needs `SourceInv`: compaction removes the records that recovery would
learn the last source sequence from, so the checkpoint must know that of every committed
record, and a usable store that of every record.

**EdgeDelivery.** A receipt stands on copies, and a copy may be of a record that was
lost with the power and whose sequence was used again. `IInv` says that a record that
is stored or under way belongs to the sequence at which the log has its event, if it
still has it (`Placed`); that the peers a call has heard from hold the record the log
has (`Backed`), and a client's call is for a synced one; that no store has released,
and no request under way asks to release, more than the checkpoint covers
(`StoreInv`, `RequestInv`); that what the loop is about to deliver has its quorum
(`Covered`); and that an acknowledged event is checkpointed or synced with a quorum
(`Kept`). Quorums are kept by adding copies because the policy is monotone, for all
three of its domains. `Refinement` maps every step to a step
of `IngestContract` or to a stutter. `IngestContract`, in turn, has no fairness, so
this is all of `ImplementsIngest`.

**ConsumerGroup.** `OffsetsSafe` says that no committed position passes an unhandled
record, over several workers that own a partition one after another. A commit is
right because the entries of a partition, the records of the batch that are still to
come and the fetch position follow each other without a gap (`Tracks`), because what
is marked done was handled (`Honest`), and because the entries of a member that may
still commit start at or below the committed position, everything below it done
(`Lined`). The gate opens with nothing pending because an unfinished entry of a healthy
member is in the queue, with a worker or with the poll loop, and a finished prefix has
been removed (`Flying`).

**RouterOutbox.** A lane works on a copy of the row it claimed, and its writes look at
neither status nor lease, so two lanes may hold one row once a lease ended under one
of them. `LeaseAt` counts them: the lanes at work on a row, and one more if it could
be claimed, are at most one more than the faults so far. `AttemptsAt` is the same
count for attempts, which may pass the limit only by the number of faults. `DeadAt`
relates status and dead letters, `LanesHonest` says that a lane about to report a
delivery has made it, `PlanInv` that a plan is stored whole.

**Pipeline.** The stages of one delivery share no transaction, and another worker may be
anywhere in the chain with the same event. `PipelineInv` says of each worker what its
stage relies on in the tables (`WorkerInv`: an event past the recorder is recorded, a
marked one has its marker, a tagged one its quarantine entry, a routed one its row, an
acknowledged one an explanation), and of each event what the tables say together
(`EventInv`). Every write of a stage is `Sound`: the tables only grow, and the first
decision, row and envelope of an event stay. That is why a write by one worker cannot
take away what another relies on (`WorkerOutlives`), whichever of them is retried, fails
after its transaction committed, or dies. An event may bring the firewall's mark with
it: `Honest` says that a marked event has a quarantine entry, arrived so, or has it from
its decision, for a worker's copy as for a stored one. The decision to keep a protected
event comes from `evaluateConfig`, whatever the rules are.

**Services.** The ring's invariant says which positions a slot's sequence number can
stand for (`Sequenced`), that a position is taken by one goroutine and its slot waits
for that one (`Claimed`), that a goroutine that has compared a sequence and not yet
swapped knows what that sequence still implies (`Compared`), and that every buffer is in
one place (`Exclusive`). It is the argument of a bounded queue with per-slot sequence
numbers, for any number of slots from two up, goroutines and laps; positions are natural
numbers, the wrap of a 64-bit counter is left out. The lifecycle's says what a call has
established when it read (`CallHonest`: the creator is someone else, the gates were
passed) and that no other call can take it back, since creators never change and
approvals and evidence only grow; an active artifact is audited, about to be by the call
that activated it, or among those whose call broke off. The control loop's says that the
rest still owed and the rest already taken make up the cooldown. The fabric status's
says that what a request has read was true at some moment since it began.

**Ingestion and the live feed.** `IngestInv` says of every attempt which records it has
published so far (`PublishedBelow`) and how many it counts as rejected (`HandlerInv`),
and of its answer what that stood for when it was given (`AnswerInv`); later attempts
publish under their own number, so they take none of it back. `FeedInv` adds to
`FeedComplete` that every event shown has a row that is not ahead of the cursor
(`ShownBehind`) and that the open stream is at the browser's last event. The page of a
query is the next rows in the order of their keys with none left out (`LiveEventsPage`):
the rank of a row counts the rows before it, and ranks are pairwise different and as many
as the rows, so every rank is taken. A page that is cut off leaves the browser
at a row of that page, and the next query starts there.

**Only model-checked.** Liveness under fairness and `ENABLED` are outside what TLAPS
proves: `EveryRecordDelivered`, `AllCommitted`, both `AllSettled`, `HealthyDelivered` and
`FailoverDelivers` stay with TLC. So does what a recursive definition, a fold or a
sorted selection computes for every input, since that needs induction over data: the
byte budget in `StoreConsistent` of both stores and the fingerprints of `ReplicaStore`
(filtered logs, sums), the ranking in `StableOwnership` and the rest of `MeshRouting`
that is stated over it, the sums of `DeltasExact`, and `FirewallBound`, which counts
distinct values. Not proved, and checked on small instances only:
`RecoveryFailsOnlyWhenTorn` and the other parts of `EdgeWAL`'s `StoreConsistent` (its
types are), and the services that neither `ServiceProofs` nor `ApiProofs` names.

## 6. Not modelled

- Contents: JSON, CRC and SHA-256 values, signatures, encryption, compression, HTTP
  and OTLP encoding, tracing, metrics, logging, wording, and delays (a timeout may
  fire at any time). What a digest or signature binds is modelled.
- Loss of a file creation or of a rename at a power loss (the code does not sync the
  directory, `wal/store.go:703`), a tail of zero bytes, and two processes on one WAL
  directory.
- Reports that nothing on a modelled path reads: health rows of destinations, the
  shadow comparisons of shaping and policy, cardinality budgets, the runtime loads of
  the lifecycle, replication and mesh status, lag, ring statistics.
- The cardinality sketch: counts are exact, as they are for the few values of the models.
  `ChangeIntel` compares exact fractions where the code compares floats.
- The mode of the schema inspector that fails closed (an observation that fails then
  retries the event).
- An archive whose member is replaced together with its digest: without encryption it
  is another valid archive, and nothing tells the two apart.
- `telemetryctl dedup prune` and `shaping prune`, which delete old deduplication records
  and shaping decisions: a redelivery after that is a first delivery.
- The rest of `intelligence` (ranking, wording, comparison of incidents) and of
  `storage` and `api`: read-only queries.
- Connectors, WASM plugins, eBPF programs: clients and guests of external systems.
- `security`: authentication and redaction have no protocol state.
- `costsim`, `proof`, `multicloudproof`, `formal`, the `cmd/*check` commands and most of
  `telemetryctl`: offline reports over recorded numbers, checks of this repository,
  flags and printing. Of its commands that change state, `incident freeze`, import
  and replay, `routing dlq requeue`, `schema prune` and the storing of graphs and
  investigations are modelled; the two prunes above, `dlq replay` (one publish of one
  dead letter), `proof record` and the stored result of a cost simulation are not. The
  dashboard is a user interface over the read API.

## 7. Plan

Modelling covers the components whose behaviour depends on more than one step. What
remains is proof, in this order: `RecoveryFailsOnlyWhenTorn` and `AuditPasses` of
`EdgeWAL`, which need the seals' chain as part of the directory's invariant;
`ProducedAsReported` of `MeshRouting`; `IncidentsHonest` among the services; and
`AckKept` of `ReplicaStore`.

## 8. Running

In this directory, `tlc -config <run>.cfg <module>` with the pairs that `PROJECT.json`
lists (each takes less than four minutes on two cores), and `tlapm` for each of
`EdgeWALInvariant`, `EdgeWALProofs`, `EdgeDeliveryProofs`, `ConsumerGroupProofs`,
`RouterOutboxProofs`, `PipelineProofs`, `ServiceProofs` and `ApiProofs` (two to ten
minutes each from nothing).
