--------------------------- MODULE ConsumerGroup ---------------------------
(***************************************************************************)
(* The workers of one Kafka consumer group: the poll loop and its batch    *)
(* gate (internal/stream/consumer.go), the per-partition acknowledgement   *)
(* coordinator (internal/stream/offset_tracker.go), the bounded worker     *)
(* pool with its retries and dead letters (internal/worker/pool.go), and   *)
(* the group coordinator of the broker, which is external.                 *)
(*                                                                         *)
(* A record is <<partition, offset>>.  What a processor does with it is    *)
(* success, a transient failure or a permanent one.  A member that leaves  *)
(* Run drains its pool, exits and is started again.                        *)
(***************************************************************************)
EXTENDS Integers, Sequences, FiniteSetsExt

CONSTANTS
    Members,        \* worker processes
    NumPartitions,
    NumOffsets,     \* bound: records per partition
    Malformed,      \* records that do not decode
    PollLimit,      \* 100 in Run
    Workers,        \* pool.workers
    QueueCapacity,  \* cap(pool.jobs)
    MaxAttempts,    \* RetryPolicy.MaxAttempts
    Faults,         \* subset of FaultKinds: what may go wrong
    MaxFaults       \* bound: faults in a behaviour

VARIABLES
    position,   \* broker: partition -> committed position
    owner,      \* broker: partition -> member it accepts commits of, or NoMember
    member,     \* the state of each process
    handled,    \* records processed, or acknowledged by the dead-letter topic
    faults

vars == <<position, owner, member, handled, faults>>

Partitions == 1..NumPartitions
Offsets == 0..(NumOffsets - 1)
Records == Partitions \X Offsets
NoMember == "none"
FaultKinds == {"crash", "shutdown", "rebalance", "evict", "poll", "commit", "dlq"}

ASSUME GroupAssumption ==
    /\ NoMember \notin Members
    /\ NumPartitions \in Nat /\ NumOffsets \in Nat
    /\ Malformed \subseteq Records
    /\ PollLimit \in Nat \ {0} /\ Workers \in Nat \ {0}
    /\ QueueCapacity \in Nat \ {0} /\ MaxAttempts \in Nat \ {0}
    /\ Faults \subseteq FaultKinds

\* A process that has just entered Run:
\*   run        "polling", "batch" (the gate is closed) or "stopped"
\*   fatal      fail was called: an error waits in the channel and runCtx is done
\*   shutdown   the context of the process, and with it runCtx, is done
\*   next       partition it believes to own -> offset to fetch
\*   todo       records of the batch not yet handed over
\*   registered the first of them is registered and waits in Submit
\*   aborted    processBatch is returning an error
\*   pending    ackCoordinator.partitions
\*   queue      pool.jobs
\*   jobs       what the workers are at
Started ==
    [run |-> "polling", fatal |-> FALSE, shutdown |-> FALSE, next |-> <<>>, todo |-> <<>>,
     registered |-> FALSE, aborted |-> FALSE, pending |-> [p \in Partitions |-> <<>>],
     queue |-> <<>>, jobs |-> {}]

Stopped == [Started EXCEPT !.run = "stopped"]

Init ==
    /\ position = [p \in Partitions |-> 0]
    /\ owner = [p \in Partitions |-> NoMember]
    /\ member = [m \in Members |-> Started]
    /\ handled = {}
    /\ faults = 0

Fault(k) == k \in Faults /\ faults < MaxFaults /\ faults' = faults + 1

-----------------------------------------------------------------------------
(* The acknowledgement coordinator.                                        *)

\* Register: a record is appended unless its offset is there.
Registered(q, o) ==
    IF \E i \in DOMAIN q : q[i].offset = o THEN q
    ELSE Append(q, [offset |-> o, done |-> FALSE])

MarkDone(q, o) ==
    [i \in DOMAIN q |-> IF q[i].offset = o THEN [q[i] EXCEPT !.done = TRUE] ELSE q[i]]

\* Mutation: every finished record counts, whatever is before it.
AnyDone(q) == Max({0} \cup {n \in DOMAIN q : q[n].done})

CompletedPrefix(q) == Max({0} \cup {n \in DOMAIN q : \A i \in 1..n : q[i].done})

\* CommitRecords through the n-th entry fails when the partition has moved, and
\* may fail when the context is done or at the broker.  A failed commit may have
\* been applied; its entries stay.
Commit(m, p, q, n, good, bad, contextDone) ==
    LET committed == [position EXCEPT ![p] = q[n].offset + 1] IN
    \/ /\ owner[p] = m
       /\ position' = committed
       /\ member' = [member EXCEPT ![m] = [good EXCEPT !.pending[p] = SubSeq(q, n + 1, Len(q))]]
       /\ UNCHANGED faults
    \/ /\ IF owner[p] # m \/ contextDone THEN UNCHANGED faults ELSE Fault("commit")
       /\ position' \in IF owner[p] = m THEN {position, committed} ELSE {position}
       /\ member' = [member EXCEPT ![m] = [bad EXCEPT !.pending[p] = q]]

\* Ack: m becomes good, or bad when the record is not registered or the commit
\* of the completed prefix fails.
Ack(m, r, good, bad, contextDone) ==
    LET p == r[1]
        q == MarkDone(member[m].pending[p], r[2])
        n == CompletedPrefix(q)
    IN IF \A i \in DOMAIN q : q[i].offset # r[2]
       THEN member' = [member EXCEPT ![m] = bad] /\ UNCHANGED <<position, faults>>
       ELSE IF n = 0
       THEN /\ member' = [member EXCEPT ![m] = [good EXCEPT !.pending[p] = q]]
            /\ UNCHANGED <<position, faults>>
       ELSE Commit(m, p, q, n, good, bad, contextDone)

-----------------------------------------------------------------------------
(* The poll loop.                                                          *)

RunContextDone(m) == member[m].fatal \/ member[m].shutdown
CommitContextDone(m) == member[m].shutdown

\* fail: an unresolved record cancels runCtx.
Failing(s) == [s EXCEPT !.fatal = TRUE]

\* processBatch returns before the end of the batch, with an error or without;
\* it waits for the submitted jobs first.
Leaving(s, error) == [s EXCEPT !.aborted = error, !.todo = <<>>, !.registered = FALSE]
Aborting(s) == Leaving(s, TRUE)

\* Fetched records in the order of fetches.Records(): partition by partition.
Batches(records) ==
    {b \in Bijection(1..Cardinality(records), records) : \A i, j \in DOMAIN b :
        i < j => b[i][1] < b[j][1] \/ (b[i][1] = b[j][1] /\ b[i][2] < b[j][2])}

\* PollRecords returns the next records of some partitions and closes the gate,
\* also when runCtx is done and records are buffered.
Poll(m) ==
    /\ member[m].run = "polling"
    /\ \E n \in [DOMAIN member[m].next -> 0..PollLimit] :
          LET next == member[m].next
              fetched == {r \in Records : r[1] \in DOMAIN next /\ r[2] \in next[r[1]]..(next[r[1]] + n[r[1]] - 1)}
          IN /\ \A p \in DOMAIN next : next[p] + n[p] <= NumOffsets
             /\ Cardinality(fetched) \in 1..PollLimit
             /\ \E batch \in Batches(fetched) :
                   member' = [member EXCEPT
                      ![m].run = "batch",
                      ![m].next = [p \in DOMAIN next |-> next[p] + n[p]],
                      ![m].todo = batch]
    /\ UNCHANGED <<position, owner, handled, faults>>

\* The poll returns errors, with or without records: Run returns them.
PollFails(m) ==
    /\ member[m].run = "polling"
    /\ Fault("poll")
    /\ member' = [member EXCEPT ![m].run = "batch", ![m].aborted = TRUE]
    /\ UNCHANGED <<position, owner, handled>>

\* The next record of the batch decodes and is registered.
Register(m) ==
    /\ member[m].todo # <<>>
    /\ ~member[m].registered
    /\ ~RunContextDone(m)
    /\ LET r == Head(member[m].todo) IN
       /\ r \notin Malformed
       /\ member' = [member EXCEPT ![m].pending[r[1]] = Registered(@, r[2]),
                                   ![m].registered = TRUE]
    /\ UNCHANGED <<position, owner, handled, faults>>

\* Mutation: one job too few.
RoomForTwo(m) == Len(member[m].queue) + 1 < QueueCapacity

\* The channel of jobs can take another.
HasRoom(m) == Len(member[m].queue) < QueueCapacity

\* Submit: there is room in the queue.
Submit(m) ==
    /\ member[m].registered
    /\ Head(member[m].todo) \notin Malformed
    /\ HasRoom(m)
    /\ member' = [member EXCEPT ![m].queue = Append(@, Head(member[m].todo)),
                                ![m].todo = Tail(@),
                                ![m].registered = FALSE]
    /\ UNCHANGED <<position, owner, handled, faults>>

\* runCtx is done before the next record or while Submit waits: fatalOrContext
\* returns the fatal error, or nil at a shutdown, after which Run polls again.
SubmitStops(m) ==
    /\ member[m].todo # <<>>
    /\ RunContextDone(m)
    /\ ~(member[m].registered /\ Head(member[m].todo) \in Malformed)
    /\ member' = [member EXCEPT ![m] = Leaving(@, member[m].fatal)]
    /\ UNCHANGED <<position, owner, handled, faults>>

\* The next record does not decode: it is registered, dead-lettered and
\* acknowledged by the poll loop itself.
DeadLetterMalformed(m) ==
    /\ member[m].todo # <<>>
    /\ ~member[m].registered
    /\ ~RunContextDone(m)
    /\ LET r == Head(member[m].todo)
           s == [member[m] EXCEPT !.pending[r[1]] = Registered(@, r[2])]
       IN /\ r \in Malformed
          /\ \/ /\ Fault("dlq")
                /\ member' = [member EXCEPT ![m] = Aborting(s)]
                /\ UNCHANGED <<position, handled>>
             \/ /\ member' = [member EXCEPT ![m] = [s EXCEPT !.registered = TRUE]]
                /\ handled' = handled \cup {r}
                /\ UNCHANGED <<position, faults>>
    /\ UNCHANGED owner

AckMalformed(m) ==
    /\ member[m].registered
    /\ Head(member[m].todo) \in Malformed
    /\ LET s == [member[m] EXCEPT !.todo = Tail(@), !.registered = FALSE]
       IN Ack(m, Head(member[m].todo), s, Aborting(member[m]), CommitContextDone(m))
    /\ UNCHANGED <<owner, handled>>

\* Mutation: the batch ends with the last submission.
BatchSubmitted(m) == member[m].run = "batch" /\ member[m].todo = <<>>

\* jobs.Wait of processBatch.
BatchDone(m) ==
    /\ member[m].run = "batch"
    /\ member[m].todo = <<>> /\ member[m].queue = <<>> /\ member[m].jobs = {}

\* AllowRebalance, then the next poll.
BatchEnds(m) ==
    /\ BatchDone(m)
    /\ ~member[m].aborted
    /\ member' = [member EXCEPT ![m].run = "polling"]
    /\ UNCHANGED <<position, owner, handled, faults>>

\* Run returns: with the error of the batch, or at a poll with runCtx done.
\* main closes the pool and exits, and the member leaves the group.
RunReturns(m) ==
    /\ \/ BatchDone(m) /\ member[m].aborted
       \/ member[m].run = "polling" /\ RunContextDone(m)
    /\ member' = [member EXCEPT ![m] = Stopped]
    /\ owner' = [p \in Partitions |-> IF owner[p] = m THEN NoMember ELSE owner[p]]
    /\ UNCHANGED <<position, handled, faults>>

-----------------------------------------------------------------------------
(* The worker pool.                                                        *)

\* The worker of job j of m goes on with it as k.
JobStep(m, j, k) == [member EXCEPT ![m].jobs = (@ \ {j}) \cup {k}]
JobEnds(s, j) == [s EXCEPT !.jobs = @ \ {j}]

Take(m) ==
    /\ member[m].queue # <<>>
    /\ Cardinality(member[m].jobs) < Workers
    /\ member' = [member EXCEPT
          ![m].jobs = @ \cup {[record |-> Head(member[m].queue), stage |-> "process", attempt |-> 1]},
          ![m].queue = Tail(@)]
    /\ UNCHANGED <<position, owner, handled, faults>>

\* processWithRetry: success, another attempt, or the end of the attempts (a
\* permanent error and a context that is done end them early).
Process(m, j) ==
    /\ j.stage = "process"
    /\ \/ member' = JobStep(m, j, [j EXCEPT !.stage = "ack"]) /\ handled' = handled \cup {j.record}
       \/ /\ j.attempt < MaxAttempts
          /\ member' = JobStep(m, j, [j EXCEPT !.attempt = @ + 1])
          /\ UNCHANGED handled
       \/ member' = JobStep(m, j, [j EXCEPT !.stage = "dlq"]) /\ UNCHANGED handled
    /\ UNCHANGED <<position, owner, faults>>

\* job.Failure: the dead letter is acknowledged by the broker.
DeadLetter(m, j) ==
    /\ j.stage = "dlq"
    /\ member' = JobStep(m, j, [j EXCEPT !.stage = "ack"])
    /\ handled' = handled \cup {j.record}
    /\ UNCHANGED <<position, owner, faults>>

\* job.Nack.
Nacks(m, j) == member' = [member EXCEPT ![m] = Failing(JobEnds(@, j))]

\* job.Failure fails: the record stays uncommitted.
DeadLetterFails(m, j) ==
    /\ j.stage = "dlq"
    /\ IF RunContextDone(m) THEN UNCHANGED faults ELSE Fault("dlq")
    /\ Nacks(m, j)
    /\ UNCHANGED <<position, owner, handled>>

\* pool.ack, with job.Nack when it fails.
AckJob(m, j) ==
    /\ j.stage = "ack"
    /\ Ack(m, j.record, JobEnds(member[m], j), Failing(JobEnds(member[m], j)), RunContextDone(m))
    /\ UNCHANGED <<owner, handled>>

-----------------------------------------------------------------------------
(* The group and the processes.                                            *)

\* BlockRebalanceOnPoll.
GateOpen(m) == member[m].run = "polling"

\* The coordinator assigns a free partition to a member whose gate is open; it
\* fetches from the committed position.
Assign(p, m) ==
    /\ owner[p] = NoMember
    /\ GateOpen(m)
    /\ owner' = [owner EXCEPT ![p] = m]
    /\ member' = [member EXCEPT ![m].next =
          [k \in DOMAIN @ \cup {p} |-> IF k = p THEN position[p] ELSE @[k]]]
    /\ UNCHANGED <<position, handled, faults>>

\* A rebalance takes a partition from its owner.
Revoke(p) ==
    /\ owner[p] # NoMember
    /\ GateOpen(owner[p])
    /\ Fault("rebalance")
    /\ member' = [member EXCEPT ![owner[p]].next = [k \in DOMAIN @ \ {p} |-> @[k]]]
    /\ owner' = [owner EXCEPT ![p] = NoMember]
    /\ UNCHANGED <<position, handled>>

\* The broker gives up on a member that does not rejoin in time; the member
\* goes on with its batch.
Evict(p) ==
    /\ owner[p] # NoMember
    /\ Fault("evict")
    /\ owner' = [owner EXCEPT ![p] = NoMember]
    /\ UNCHANGED <<position, member, handled>>

\* It learns of it when its gate is open.
Lost(p, m) ==
    /\ p \in DOMAIN member[m].next
    /\ owner[p] # m
    /\ GateOpen(m)
    /\ member' = [member EXCEPT ![m].next = [k \in DOMAIN @ \ {p} |-> @[k]]]
    /\ UNCHANGED <<position, owner, handled, faults>>

Shutdown(m) ==
    /\ member[m].run # "stopped"
    /\ ~member[m].shutdown
    /\ Fault("shutdown")
    /\ member' = [member EXCEPT ![m].shutdown = TRUE]
    /\ UNCHANGED <<position, owner, handled>>

Crash(m) ==
    /\ member[m].run # "stopped"
    /\ Fault("crash")
    /\ member' = [member EXCEPT ![m] = Stopped]
    /\ owner' = [p \in Partitions |-> IF owner[p] = m THEN NoMember ELSE owner[p]]
    /\ UNCHANGED <<position, handled>>

Restart(m) ==
    /\ member[m].run = "stopped"
    /\ member' = [member EXCEPT ![m] = Started]
    /\ UNCHANGED <<position, owner, handled, faults>>

-----------------------------------------------------------------------------

PollLoop(m) ==
    \/ Poll(m) \/ Register(m) \/ Submit(m) \/ SubmitStops(m)
    \/ DeadLetterMalformed(m) \/ AckMalformed(m) \/ BatchEnds(m) \/ RunReturns(m)

Pool(m) ==
    \/ Take(m)
    \/ \E j \in member[m].jobs : Process(m, j) \/ DeadLetter(m, j) \/ DeadLetterFails(m, j) \/ AckJob(m, j)

Next ==
    \/ \E m \in Members : PollLoop(m) \/ PollFails(m) \/ Pool(m)
                          \/ Shutdown(m) \/ Crash(m) \/ Restart(m)
    \/ \E p \in Partitions : Revoke(p) \/ Evict(p) \/ \E m \in Members : Assign(p, m) \/ Lost(p, m)

Spec == Init /\ [][Next]_vars

\* The poll loop and the workers run, partitions are assigned and processes
\* that ended are started again; faults are bounded.
FairSpec ==
    /\ Spec
    /\ \A m \in Members : WF_vars(PollLoop(m)) /\ WF_vars(Pool(m)) /\ WF_vars(Restart(m))
    /\ \A p \in Partitions : /\ WF_vars(\E m \in Members : Assign(p, m))
                             /\ \A m \in Members : WF_vars(Lost(p, m))

-----------------------------------------------------------------------------
(* Properties.                                                             *)

\* The variables have the types of the broker's and the processes' state; the
\* queue and the workers keep their bounds.
TypeOK ==
    /\ position \in [Partitions -> 0..NumOffsets]
    /\ owner \in [Partitions -> Members \cup {NoMember}]
    /\ handled \subseteq Records
    /\ \A m \in Members : LET s == member[m] IN
          /\ s.run \in {"polling", "batch", "stopped"}
          /\ {s.fatal, s.shutdown, s.registered, s.aborted} \subseteq BOOLEAN
          /\ DOMAIN s.next \subseteq Partitions
          /\ \A p \in DOMAIN s.next : s.next[p] \in 0..NumOffsets
          /\ s.todo \in Seq(Records) /\ s.queue \in Seq(Records)
          /\ Len(s.queue) <= QueueCapacity
          /\ Cardinality(s.jobs) <= Workers
          /\ \A j \in s.jobs : j.attempt \in 1..MaxAttempts

\* "If offset 11 is committed while offset 10 is still processing, a crash can
\* cause offset 10 to be skipped": every record below the committed position of
\* its partition was processed or is in the dead-letter topic.
NothingSkipped ==
    \A p \in Partitions : \A o \in 0..(position[p] - 1) : <<p, o>> \in handled

\* The committed position of a partition never goes back: no member commits
\* after the partition has moved to another that committed more.
PositionMonotone ==
    [][\A p \in Partitions : position'[p] >= position[p]]_vars

\* The gate of a healthy member opens only when its coordinator is empty, so a
\* partition that comes back to it later starts with no entry of an earlier
\* ownership.
GateOpensClean ==
    \A m \in Members : member[m].run = "polling" /\ ~RunContextDone(m) =>
        \A p \in Partitions : member[m].pending[p] = <<>>

\* Every record is in the end committed, through failing processors, full
\* queues, rebalances, evictions, failed commits, crashes and restarts.
AllCommitted == <>(\A p \in Partitions : position[p] = NumOffsets)

\* What is committed was handled and the coordinator starts clean, in every
\* interleaving of polls, workers, commits, rebalances and crashes.
OffsetsSafe ==
    /\ TypeOK
    /\ NothingSkipped
    /\ GateOpensClean
=============================================================================
