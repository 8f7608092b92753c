---------------------------- MODULE EdgeDelivery ----------------------------
(***************************************************************************)
(* One origin edge from acceptance to delivery: PublishWithReceipt and the *)
(* replay loop (internal/edge/publisher.go), synchronous replication and   *)
(* release (internal/replication/manager.go, policy.go, http.go), the      *)
(* replica stores of its peers and the broker downstream.                  *)
(*                                                                         *)
(* The write-ahead log is the sequence of the events it holds: record k is *)
(* log[k], and compaction is not seen (EdgeWAL).  A peer's store keeps its *)
(* promise of durability (ReplicaStore).  Requests, answers and timeouts   *)
(* interleave with the loop, with each other and with crashes; a request   *)
(* nobody waits for any more may still arrive.  Non-local modes only: in   *)
(* local mode Replicate returns at once.                                   *)
(***************************************************************************)
EXTENDS Integers, Sequences, FiniteSets

CONSTANTS
    Local, Peers,         \* this node and its configured peers
    Mode, Quorum,         \* replication.Config
    Cloud, Region, Zone,  \* failure domain of each node
    BatchSize,            \* Config.ReplayBatchSize
    ReleaseStride,        \* 64 in run
    Faults,               \* subset of FaultKinds: what may go wrong
    MaxEvents,            \* bound: append attempts in a behaviour
    MaxFaults             \* bound: faults in a behaviour

VARIABLES
    \* --- the write-ahead log of the origin ---
    log,           \* edge sequence -> event
    committed,     \* delivery checkpoint
    unsynced,      \* how many of its last records are not synced
    attempts,      \* events handed to Append so far
    \* --- the process ---
    up,
    failed,        \* the log has latched an I/O error
    calls,         \* caller -> its Replicate call in progress
    pc,            \* of run: "start", "poll", "replicate", "deliver", "commit", "release"
    at, last,      \* record being replicated, last record of the batch
    ready,         \* last record of the batch that may be delivered
    sent,          \* records the broker has taken of this batch
    ok,            \* records publishBatch reported delivered
    lastReleased,
    releasing,     \* Release call in progress
    \* --- peers, network, broker ---
    store,         \* peer -> unreleased records it holds
    released,      \* peer -> released_through
    latePuts,      \* replicate requests whose caller is gone
    lateReleases,  \* release requests whose caller is gone
    delivered,     \* events the broker has
    \* --- history ---
    accepted,      \* events whose publisher got a receipt without an error
    done,          \* events whose delivery is checkpointed
    faults

wal     == <<log, committed, unsynced, attempts>>
process == <<up, failed, calls, pc, at, last, ready, sent, ok, lastReleased, releasing>>
batch   == <<at, last, ready, sent, ok>>
late    == <<latePuts, lateReleases>>
world   == <<store, released, late, delivered>>
vars    == <<wal, process, world, accepted, done, faults>>

Nodes == Peers \cup {Local}
Loop == 0
Callers == {Loop} \cup 1..MaxEvents
FaultKinds == {"kill", "power", "io", "peer", "timeout", "broker"}

Record == [seq : 1..MaxEvents, event : 1..MaxEvents]
RecordAt(k) == [seq |-> k, event |-> log[k]]

-----------------------------------------------------------------------------
(* The durability policy.                                                  *)

\* evaluate: the local copy counts; regional durability counts only nodes of
\* the local region.
Counted(nodes) ==
    IF Mode = "regional" THEN {n \in nodes : Region[n] = Region[Local]} ELSE nodes

\* Two of the nodes are in different named domains.
Spread(domain, nodes) ==
    \E m, n \in nodes : domain[m] # "" /\ domain[n] # "" /\ domain[m] # domain[n]

evaluate(nodes) ==
    LET counted == Counted(nodes) IN
    /\ \E quorum \in SUBSET counted : Cardinality(quorum) = Quorum
    /\ Mode = "regional" => Spread(Zone, counted)
    /\ Mode = "cross-region" => Spread(Region, counted)
    /\ Mode = "cross-cloud" => Spread(Cloud, counted)

Satisfied(acks) == evaluate(acks \cup {Local})

\* Config.Validate, and the check of NewManager that the topology can satisfy
\* the policy at all.
ConfigValid ==
    /\ Local \notin Peers
    /\ Mode \in {"regional", "cross-region", "cross-cloud"}
    /\ Quorum \in 1..Cardinality(Nodes)
    /\ Satisfied(Peers)

ASSUME ConfigAssumption ==
    /\ ConfigValid
    /\ IsFiniteSet(Peers)
    /\ Faults \subseteq FaultKinds
    /\ BatchSize \in Nat \ {0}
    /\ MaxEvents \in Nat

-----------------------------------------------------------------------------

NoRelease == [through |-> 0, waiting |-> {}, failed |-> FALSE, then |-> "poll"]

Init ==
    /\ log = <<>> /\ committed = 0 /\ unsynced = 0 /\ attempts = 0
    /\ up = TRUE /\ failed = FALSE
    /\ calls = <<>>
    /\ pc = "start" /\ at = 0 /\ last = 0 /\ ready = 0 /\ sent = {} /\ ok = {}
    /\ lastReleased = 0 /\ releasing = NoRelease
    /\ store = [p \in Peers |-> {}] /\ released = [p \in Peers |-> 0]
    /\ latePuts = {} /\ lateReleases = {} /\ delivered = {}
    /\ accepted = {} /\ done = {} /\ faults = 0

Fault(k) == k \in Faults /\ faults < MaxFaults /\ faults' = faults + 1

-----------------------------------------------------------------------------
(* The peers: Put and Release of a replica store.                          *)

\* Mutations: a retained sequence is taken for a duplicate whatever its record
\* is; a duplicate is taken for a conflict.
NeverConflicts(p, r) == FALSE
DuplicateConflicts(p, r) == r.seq > released[p] /\ \E q \in store[p] : q.seq = r.seq

\* A different record of this sequence is retained: ErrReplicaConflict.
Conflicts(p, r) ==
    r.seq > released[p] /\ \E q \in store[p] : q.seq = r.seq /\ q # r

\* The store after Put: a sequence that is released or retained is not written.
AfterPut(p, r) ==
    IF r.seq <= released[p] \/ \E q \in store[p] : q.seq = r.seq THEN store
    ELSE [store EXCEPT ![p] = @ \cup {r}]

ReleaseAt(p, through) ==
    IF through <= released[p] THEN UNCHANGED <<store, released>>
    ELSE /\ released' = [released EXCEPT ![p] = through]
         /\ store' = [store EXCEPT ![p] = {r \in @ : r.seq > through}]

-----------------------------------------------------------------------------
(* Replicate: one call per client and one of the replay loop.              *)

NewCall(k) == [record |-> RecordAt(k), waiting |-> Peers, acks |-> {}]
CallsWith(c, call) == [d \in DOMAIN calls \cup {c} |-> IF d = c THEN call ELSE calls[d]]
CallsWithout(c) == [d \in DOMAIN calls \ {c} |-> calls[d]]

\* The requests of a call that is returned from or dies with the process.
Orphans(call) == {[peer |-> p, record |-> call.record] : p \in call.waiting}

\* PublishWithReceipt returns to its client.
ClientReturns(c, satisfied) ==
    /\ calls' = CallsWithout(c)
    /\ accepted' = IF satisfied THEN accepted \cup {c} ELSE accepted
    /\ UNCHANGED <<pc, at, ready>>

\* Mutation: the record that lacks its quorum is in the batch.
ReadyWithBlocked(satisfied) == IF satisfied THEN last ELSE at

\* readyCount.
ReadyAfter(satisfied) == IF satisfied THEN last ELSE at - 1

\* The replay loop goes on to the next record, or stops at this one.
LoopReturns(satisfied) ==
    /\ IF satisfied /\ at < last
       THEN /\ at' = at + 1
            /\ calls' = CallsWith(Loop, NewCall(at + 1))
            /\ UNCHANGED <<pc, ready>>
       ELSE /\ calls' = CallsWithout(Loop)
            /\ ready' = ReadyAfter(satisfied)
            /\ pc' = IF ready' > committed THEN "deliver" ELSE "poll"
            /\ UNCHANGED at
    /\ UNCHANGED accepted

Returns(c, call, satisfied, lost) ==
    /\ latePuts' = latePuts \cup Orphans(call) \cup lost
    /\ IF c = Loop THEN LoopReturns(satisfied) ELSE ClientReturns(c, satisfied)

\* The call has one answer more, or has lost one.
Answered(c, call, lost) ==
    IF Satisfied(call.acks) THEN Returns(c, call, TRUE, lost)
    ELSE IF call.waiting = {} THEN Returns(c, call, FALSE, lost)
    ELSE /\ calls' = CallsWith(c, call)
         /\ latePuts' = latePuts \cup lost
         /\ UNCHANGED <<accepted, pc, at, ready>>

\* What no step of a Replicate call changes.
Elsewhere == <<wal, up, failed, last, sent, ok, lastReleased, releasing,
               released, lateReleases, delivered, done>>

\* replicateToPeer: the peer stores the record and its answer arrives.
PeerAcks(c, p) ==
    /\ c \in DOMAIN calls
    /\ p \in calls[c].waiting
    /\ ~Conflicts(p, calls[c].record)
    /\ store' = AfterPut(p, calls[c].record)
    /\ Answered(c, [calls[c] EXCEPT !.waiting = @ \ {p}, !.acks = @ \cup {p}], {})
    /\ UNCHANGED <<Elsewhere, faults>>

\* The peer answers 409.
PeerRefuses(c, p) ==
    /\ c \in DOMAIN calls
    /\ p \in calls[c].waiting
    /\ Conflicts(p, calls[c].record)
    /\ Answered(c, [calls[c] EXCEPT !.waiting = @ \ {p}], {})
    /\ UNCHANGED <<Elsewhere, store, faults>>

\* The peer is out of reach or full, or its answer is lost: the request may
\* have been served, or may still be.
PeerFails(c, p) ==
    /\ c \in DOMAIN calls
    /\ p \in calls[c].waiting
    /\ Fault("peer")
    /\ Answered(c, [calls[c] EXCEPT !.waiting = @ \ {p}],
                {[peer |-> p, record |-> calls[c].record]})
    /\ UNCHANGED <<Elsewhere, store>>

\* The timeout of the call, or the client of it is gone.
ReplicateTimeout(c) ==
    /\ c \in DOMAIN calls
    /\ Fault("timeout")
    /\ Returns(c, calls[c], FALSE, {})
    /\ UNCHANGED <<Elsewhere, store>>

\* A request whose caller is gone arrives, or does not.
LatePut(m) ==
    /\ latePuts' = latePuts \ {m}
    /\ store' \in {store, AfterPut(m.peer, m.record)}
    /\ UNCHANGED <<wal, process, released, lateReleases, delivered, accepted, done, faults>>

LateRelease(m) ==
    /\ lateReleases' = lateReleases \ {m}
    /\ UNCHANGED <<store, released>> \/ ReleaseAt(m.peer, m.through)
    /\ UNCHANGED <<wal, process, latePuts, delivered, accepted, done, faults>>

-----------------------------------------------------------------------------
(* PublishWithReceipt.                                                     *)

\* Append, then Replicate; the event is its own caller.
Publish ==
    /\ up /\ ~failed
    /\ attempts < MaxEvents
    /\ LET event == attempts + 1 IN
       /\ attempts' = event
       /\ log' = Append(log, event)
       /\ calls' = CallsWith(event, [record |-> [seq |-> Len(log) + 1, event |-> event],
                                     waiting |-> Peers, acks |-> {}])
    /\ unsynced' = 0
    /\ UNCHANGED <<committed, up, failed, pc, batch, lastReleased, releasing,
                   world, accepted, done, faults>>

\* Append fails in its write or its sync: the log is latched, and the frame may
\* be complete in the file.
PublishFails ==
    /\ up /\ ~failed
    /\ attempts < MaxEvents
    /\ Fault("io")
    /\ failed' = TRUE
    /\ attempts' = attempts + 1
    /\ \/ UNCHANGED <<log, unsynced>>
       \/ log' = Append(log, attempts + 1) /\ unsynced' = unsynced + 1
    /\ UNCHANGED <<committed, up, calls, pc, batch, lastReleased, releasing,
                   world, accepted, done>>

-----------------------------------------------------------------------------
(* The replay loop.                                                        *)

ReleaseThrough(through) == through

\* releaseCommitted: Manager.Release starts its requests.
StartRelease(through, then) ==
    /\ releasing' = [through |-> ReleaseThrough(through), waiting |-> Peers,
                     failed |-> FALSE, then |-> then]
    /\ pc' = "release"

Start ==
    /\ up
    /\ pc = "start"
    /\ IF committed > 0 THEN StartRelease(committed, "poll") ELSE pc' = "poll" /\ UNCHANGED releasing
    /\ UNCHANGED <<wal, up, failed, calls, batch, lastReleased, world, accepted, done, faults>>

BatchEnd == IF Len(log) - committed <= BatchSize THEN Len(log) ELSE committed + BatchSize

\* Pending(batchSize) has records: replicate the first of them.
Poll ==
    /\ up /\ ~failed
    /\ pc = "poll"
    /\ committed < Len(log)
    /\ last' = BatchEnd
    /\ at' = committed + 1
    /\ calls' = CallsWith(Loop, NewCall(committed + 1))
    /\ pc' = "replicate"
    /\ sent' = {} /\ ok' = {} /\ ready' = committed
    /\ UNCHANGED <<wal, up, failed, lastReleased, releasing, world, accepted, done, faults>>

\* Nothing is pending: release what is committed, some seconds later.
Idle ==
    /\ up /\ ~failed
    /\ pc = "poll"
    /\ committed = Len(log)
    /\ committed > lastReleased
    /\ StartRelease(committed, "poll")
    /\ UNCHANGED <<wal, up, failed, calls, batch, lastReleased, world, accepted, done, faults>>

\* publishBatch: the broker takes the records of the batch in any order.
BrokerTakes(k) ==
    /\ up
    /\ pc = "deliver"
    /\ k \in (committed + 1)..ready
    /\ k \notin sent
    /\ sent' = sent \cup {k}
    /\ delivered' = delivered \cup {log[k]}
    /\ UNCHANGED <<wal, up, failed, calls, pc, at, last, ready, ok, lastReleased, releasing,
                   store, released, late, accepted, done, faults>>

\* publishBatch returns a result for each record; an error may be wrong.
PublishReturns ==
    /\ up
    /\ pc = "deliver"
    /\ \/ sent = (committed + 1)..ready /\ ok' = sent /\ UNCHANGED faults
       \/ Fault("broker") /\ ok' \in (SUBSET sent) \ {(committed + 1)..ready}
    /\ pc' = "commit"
    /\ UNCHANGED <<wal, up, failed, calls, at, last, ready, sent, lastReleased, releasing,
                   world, accepted, done>>

NextSucceeded == committed < ready /\ committed + 1 \in ok

\* The records are committed in order up to the first that failed, with a
\* release after every ReleaseStride of them.
CommitNext ==
    /\ up /\ ~failed
    /\ pc = "commit"
    /\ NextSucceeded
    /\ committed' = committed + 1
    /\ done' = done \cup {log[committed + 1]}
    /\ IF committed' - lastReleased >= ReleaseStride
       THEN StartRelease(committed', "commit")
       ELSE UNCHANGED <<releasing, pc>>
    /\ UNCHANGED <<log, unsynced, attempts, up, failed, calls, batch, lastReleased,
                   world, accepted, faults>>

\* writeCheckpoint or compact fails: the log is latched, the checkpoint may be in.
CommitFails ==
    /\ up /\ ~failed
    /\ pc = "commit"
    /\ NextSucceeded
    /\ Fault("io")
    /\ failed' = TRUE
    /\ \/ UNCHANGED <<committed, done>>
       \/ committed' = committed + 1 /\ done' = done \cup {log[committed + 1]}
    /\ pc' = "poll"
    /\ UNCHANGED <<log, unsynced, attempts, up, calls, batch, lastReleased, releasing,
                   world, accepted>>

\* The batch is committed, a record of it was not delivered, or Commit finds the
\* log latched: poll again.
CommitEnds ==
    /\ up
    /\ pc = "commit"
    /\ failed \/ ~NextSucceeded
    /\ pc' = "poll"
    /\ UNCHANGED <<wal, up, failed, calls, batch, lastReleased, releasing,
                   world, accepted, done, faults>>

\* Manager.Release: a peer releases, or its request fails; the requests of a
\* failed release may still arrive.
ReleaseAnswered(p) ==
    /\ up
    /\ pc = "release"
    /\ p \in releasing.waiting
    /\ \/ /\ ReleaseAt(p, releasing.through)
          /\ releasing' = [releasing EXCEPT !.waiting = @ \ {p}]
          /\ UNCHANGED <<lateReleases, faults>>
       \/ /\ Fault("peer")
          /\ releasing' = [releasing EXCEPT !.waiting = @ \ {p}, !.failed = TRUE]
          /\ lateReleases' = lateReleases \cup {[peer |-> p, through |-> releasing.through]}
          /\ UNCHANGED <<store, released>>
    /\ UNCHANGED <<wal, up, failed, calls, pc, batch, lastReleased, latePuts, delivered,
                   accepted, done>>

ReleaseReturns ==
    /\ up
    /\ pc = "release"
    /\ releasing.waiting = {}
    /\ lastReleased' = IF releasing.failed THEN lastReleased ELSE releasing.through
    /\ pc' = releasing.then
    /\ releasing' = NoRelease
    /\ UNCHANGED <<wal, up, failed, calls, batch, world, accepted, done, faults>>

-----------------------------------------------------------------------------
(* Crash and restart.                                                      *)

ProcessGone ==
    /\ up' = FALSE /\ failed' = FALSE
    /\ calls' = <<>>
    /\ pc' = "start" /\ at' = 0 /\ last' = 0 /\ ready' = 0 /\ sent' = {} /\ ok' = {}
    /\ lastReleased' = 0 /\ releasing' = NoRelease
    /\ latePuts' = latePuts \cup UNION {Orphans(calls[c]) : c \in DOMAIN calls}
    /\ lateReleases' = lateReleases \cup
            {[peer |-> p, through |-> releasing.through] : p \in releasing.waiting}

\* The process is killed; in the middle of an Append its frame may be complete
\* and not synced.
Kill ==
    /\ up
    /\ Fault("kill")
    /\ ProcessGone
    /\ \/ UNCHANGED wal
       \/ /\ attempts < MaxEvents
          /\ attempts' = attempts + 1
          /\ log' = Append(log, attempts + 1)
          /\ unsynced' = unsynced + 1
          /\ UNCHANGED committed
    /\ UNCHANGED <<store, released, delivered, accepted, done>>

\* The power fails: records that are not synced may be gone.  (The loss of one
\* that is committed keeps the log from opening: CheckpointAhead of EdgeWAL.)
PowerLoss ==
    /\ Fault("power")
    /\ ProcessGone
    /\ unsynced' = 0
    /\ \E k \in committed..Len(log) :
           k >= Len(log) - unsynced /\ log' = SubSeq(log, 1, k)
    /\ UNCHANGED <<committed, attempts, store, released, delivered, accepted, done>>

\* Publisher.Close after the server has drained: the loop stops at its select
\* and the log is synced and closed.
Close ==
    /\ up
    /\ pc = "poll"
    /\ calls = <<>>
    /\ Fault("kill")
    /\ ProcessGone
    /\ unsynced' = IF failed THEN unsynced ELSE 0
    /\ UNCHANGED <<log, committed, attempts, store, released, delivered, accepted, done>>

Restart ==
    /\ ~up
    /\ up' = TRUE
    /\ UNCHANGED <<wal, failed, calls, pc, batch, lastReleased, releasing, world,
                   accepted, done, faults>>

-----------------------------------------------------------------------------

Next ==
    \/ Publish \/ PublishFails
    \/ \E c \in Callers : \/ ReplicateTimeout(c)
                          \/ \E p \in Peers : PeerAcks(c, p) \/ PeerRefuses(c, p)
                                                \/ PeerFails(c, p)
    \/ \E m \in latePuts : LatePut(m)
    \/ \E m \in lateReleases : LateRelease(m)
    \/ Start \/ Poll \/ Idle
    \/ \E k \in 1..MaxEvents : BrokerTakes(k)
    \/ PublishReturns
    \/ CommitNext \/ CommitFails \/ CommitEnds
    \/ \E p \in Peers : ReleaseAnswered(p)
    \/ ReleaseReturns
    \/ Kill \/ PowerLoss \/ Close \/ Restart

Spec == Init /\ [][Next]_vars

\* The replay loop and the request goroutines run, timers fire and the edge is
\* restarted; faults are bounded, so peers and broker answer in the end.
LoopStep ==
    \/ Start \/ Poll \/ Idle \/ PublishReturns \/ CommitNext \/ CommitEnds \/ ReleaseReturns
    \/ \E k \in 1..MaxEvents : BrokerTakes(k)
    \/ \E p \in Peers : ReleaseAnswered(p)

FairSpec ==
    /\ Spec
    /\ WF_vars(LoopStep)
    /\ WF_vars(Restart)
    /\ \A c \in Callers, p \in Peers : WF_vars(PeerAcks(c, p)) /\ WF_vars(PeerRefuses(c, p))

-----------------------------------------------------------------------------
(* Properties.                                                             *)

\* The peers that hold a record of the log, or were told it is delivered.
Holders(k) == {p \in Peers : released[p] >= k \/ RecordAt(k) \in store[p]}

\* The variables have the types of the fields of Publisher, of the call in
\* progress and of the replica stores.
TypeOK ==
    /\ log \in Seq(1..MaxEvents) /\ committed \in 0..Len(log)
    /\ unsynced \in 0..Len(log) /\ attempts \in 0..MaxEvents
    /\ \A c \in DOMAIN calls : /\ c \in Callers
                               /\ calls[c].record \in Record
                               /\ calls[c].waiting \subseteq Peers
                               /\ calls[c].acks \subseteq Peers
    /\ pc \in {"start", "poll", "replicate", "deliver", "commit", "release"}
    /\ last \in 0..Len(log) /\ ready \in 0..Len(log) /\ at \in 0..Len(log)
    /\ sent \subseteq 1..Len(log) /\ ok \subseteq sent
    /\ store \in [Peers -> SUBSET Record]
    /\ released \in [Peers -> 0..MaxEvents]
    /\ delivered \subseteq 1..MaxEvents

\* An acknowledged event that is not yet delivered keeps its quorum across the
\* required failure domains, whatever crashes, late requests and releases come
\* between: the receipt is never weakened afterwards.
AcceptedKeepsQuorum ==
    /\ TypeOK
    /\ \A e \in accepted \ done :
          \E k \in (committed + 1)..Len(log) : log[k] = e /\ Satisfied(Holders(k))

\* The contract of an edge, seen through the log and the stores of the peers.
Holding(e) ==
    (IF \E k \in 1..Len(log) : log[k] = e THEN {Local} ELSE {})
        \cup {p \in Peers : \E r \in store[p] : r.event = e}

Contract == INSTANCE IngestContract WITH
    Events <- 1..MaxEvents,
    Origin <- Local,
    Durable <- evaluate,
    copies <- [e \in 1..MaxEvents |-> Holding(e)],
    acked <- accepted,
    downstream <- delivered,
    settled <- done

\* The edge implements IngestContract: "Delivery checkpoints are atomically
\* replaced only after downstream acknowledgement", "Kafka replay also
\* re-verifies quorum before downstream delivery", peers release only what is
\* checkpointed, and nothing acknowledged is lost.
ImplementsIngest == Contract!Spec

\* "Once quorum returns, ordered downstream delivery resumes": every event in
\* the log is delivered and checkpointed in the end, or lost with the power
\* before its record was ever synced.
EveryRecordDelivered ==
    \A e \in 1..MaxEvents :
        (\E k \in 1..Len(log) : log[k] = e)
            ~> (e \in done \/ \A k \in 1..Len(log) : log[k] # e)
=============================================================================
