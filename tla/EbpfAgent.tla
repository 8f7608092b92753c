----------------------------- MODULE EbpfAgent -----------------------------
(***************************************************************************)
(* The eBPF collector of the edge (internal/ebpf): kernel counters that    *)
(* only grow, a poll that turns each counter into a delta event through    *)
(* the durable edge publisher, and the process that attaches and detaches  *)
(* the probes.                                                             *)
(*                                                                         *)
(* The WAL replays what it persisted, possibly more than once; the store   *)
(* keeps the first event of each identifier (WriteEvent).  An event's      *)
(* identifier is its signal and total.                                     *)
(***************************************************************************)
EXTENDS Integers, FiniteSets, Sequences, FiniteSetsExt

CONSTANTS
    Probes,         \* the signals, each with its kernel counter
    MaxCount,       \* bound on a counter, in a run of the process
    MaxRestarts,    \* bound on the restarts of the edge process
    MaxPollFailures \* bound on snapshots and publications that fail

VARIABLES
    counter,    \* signal |-> kernel counter, of the probes that are attached
    attached,   \* the signals whose probe is attached
    persisted,  \* signal |-> PersistedTotals, the baseline of the next delta
    poll,       \* {} or the poll in progress: [totals, rest]
    walEvents,  \* events the WAL has persisted: [signal, total, delta, run]
    stored,     \* telemetry_events: the events the store kept
    run,        \* number of restarts
    failures    \* number of failures so far

ebpfVars == <<counter, attached, persisted, poll, walEvents, stored, run, failures>>

EbpfInit ==
    /\ counter = [s \in Probes |-> 0]
    /\ attached = {} /\ persisted = [s \in Probes |-> 0]
    /\ poll = {} /\ walEvents = {} /\ stored = {} /\ run = 0 /\ failures = 0

PollFails == failures < MaxPollFailures /\ failures' = failures + 1

\* KernelBackend.Start: the probes that attach; all counters start at zero, and
\* the start fails when none attaches.
StartProbes(S) ==
    /\ attached = {} /\ S # {}
    /\ attached' = S
    /\ UNCHANGED <<counter, persisted, poll, walEvents, stored, run, failures>>

KernelEvent(s) ==
    /\ s \in attached /\ counter[s] < MaxCount
    /\ counter' = [counter EXCEPT ![s] = @ + 1]
    /\ UNCHANGED <<attached, persisted, poll, walEvents, stored, run, failures>>

\* The counters are independent of each other, so that they are read one after
\* the other makes no difference; a failed read abandons the poll.
TakeSnapshot ==
    /\ attached # {} /\ poll = {}
    /\ poll' = {[totals |-> counter, rest |-> attached]}
    /\ UNCHANGED <<counter, attached, persisted, walEvents, stored, run, failures>>

SnapshotFails ==
    /\ attached # {} /\ poll = {} /\ PollFails
    /\ UNCHANGED <<counter, attached, persisted, poll, walEvents, stored, run>>

\* The baseline of a signal: zero when its counter was reset.
Baseline(s, total) == IF total < persisted[s] THEN 0 ELSE persisted[s]

\* What is left of the poll once signal s is done.
PollGoesOn(p, s) == poll' = IF p.rest = {s} THEN {} ELSE {[p EXCEPT !.rest = @ \ {s}]}

\* Mutation: the baseline advances also when the WAL refused the event.
publishDeltaAlways(s) ==
    \E p \in poll : s \in p.rest /\
        LET total == p.totals[s]
            base == Baseline(s, total)
            event == [signal |-> s, total |-> total, delta |-> total - base, run |-> run]
        IN /\ PollGoesOn(p, s)
           /\ \/ /\ total = base
                 /\ UNCHANGED <<persisted, walEvents, failures>>
              \/ /\ total # base
                 /\ persisted' = [persisted EXCEPT ![s] = total]
                 /\ \/ walEvents' = walEvents \cup {event} /\ UNCHANGED failures
                    \/ PollFails /\ UNCHANGED walEvents
           /\ UNCHANGED <<counter, attached, stored, run>>

\* One signal of a poll.  The baseline advances only when the WAL has the event;
\* a replication error after that is the WAL's to repair.
publishDelta(s) ==
    \E p \in poll : s \in p.rest /\
        LET total == p.totals[s]
            base == Baseline(s, total)
            event == [signal |-> s, total |-> total, delta |-> total - base, run |-> run]
        IN /\ PollGoesOn(p, s)
           /\ \/ /\ total = base
                 /\ UNCHANGED <<persisted, walEvents, failures>>
              \/ /\ total # base
                 /\ walEvents' = walEvents \cup {event}
                 /\ persisted' = [persisted EXCEPT ![s] = total]
                 /\ UNCHANGED failures
              \/ /\ total # base /\ PollFails
                 /\ UNCHANGED <<persisted, walEvents>>
           /\ UNCHANGED <<counter, attached, stored, run>>

EventID(e) == <<e.signal, e.total>>

\* The WAL delivers an event, the first time or again; the store deduplicates.
StoreEvent(e) ==
    /\ \A k \in stored : EventID(k) # EventID(e)
    /\ stored' = stored \cup {e}
    /\ UNCHANGED <<counter, attached, persisted, poll, walEvents, run, failures>>

\* The edge process ends and starts again: probes and baselines are gone.
EdgeRestarts ==
    /\ run < MaxRestarts /\ run' = run + 1
    /\ counter' = [s \in Probes |-> 0] /\ persisted' = [s \in Probes |-> 0]
    /\ attached' = {} /\ poll' = {}
    /\ UNCHANGED <<walEvents, stored, failures>>

EbpfNext ==
    \/ \E S \in SUBSET Probes : StartProbes(S)
    \/ \E s \in Probes : KernelEvent(s) \/ publishDelta(s)
    \/ TakeSnapshot \/ SnapshotFails \/ EdgeRestarts
    \/ \E e \in walEvents : StoreEvent(e)

-----------------------------------------------------------------------------

DeltasOf(S, s, r) ==
    FoldSet(LAMBDA e, sum : sum + e.delta, 0, {e \in S : e.signal = s /\ e.run = r})

\* The deltas that reached the WAL in this run of the process add up to the
\* baseline: however polls, refused appends and new counts interleave, no kernel
\* event is counted twice or left out between two samples.  The store loses none
\* of them to deduplication: only a delta of an earlier run can stand in its way.
DeltasExact ==
    /\ \A s \in Probes : DeltasOf(walEvents, s, run) = persisted[s]
    /\ \A e \in walEvents, k \in stored : EventID(k) = EventID(e) => k = e \/ k.run # e.run
=============================================================================
