--------------------------- MODULE IncidentReplay ---------------------------
(***************************************************************************)
(* Incident replay (internal/replay/replay.go, internal/storage/replay.go) *)
(* over captured and imported incidents: a run reads the incident's        *)
(* events, evaluates the active and the shadow policy on them in a policy  *)
(* engine of its own, at the events' own times, and writes one result row  *)
(* per event and a summary row.                                            *)
(*                                                                         *)
(* Fewer than ten samples fall on a dimension, so that the tracker's       *)
(* projection is what it observed (policy/cardinality.go:187), and the     *)
(* tracker never reaches its 20000 dimensions.                             *)
(***************************************************************************)
EXTENDS IncidentArchive, CardinalityPolicy

CONSTANTS
    ReplayRuns,       \* run IDs
    ReplayPolicy,     \* the active and
    ShadowPolicy,     \* the shadow policy
    DimensionOrder,   \* the tag names, sorted
    ReplayLimits,     \* the --max-events the operators ask for
    MaxQueryEvents,   \* the largest limit IncidentEvents takes, and
    QueryDefault,     \* the one it uses instead of a larger one
    WindowHours,      \* event times per hourly cardinality window
    ReportInterval,   \* a minute
    MaxReplayFaults

VARIABLES
    replayRuns,   \* replay_runs: run |-> {} or its row
    results,      \* replay_event_results: run |-> the rows, in order
    replayer,     \* run |-> {} or the state of the process that runs it
    replayFaults

replayVars == <<archiveVars, replayRuns, results, replayer, replayFaults>>

NoCounters == [events |-> 0, dropped |-> 0, findings |-> 0, diffs |-> 0,
               changed |-> 0, quarantined |-> 0, published |-> 0]

NewEngine == [active |-> {}, shadow |-> {}, reported |-> <<>>]

ReplayInit ==
    /\ ArchiveInit
    /\ replayRuns = [r \in ReplayRuns |-> {}] /\ results = [r \in ReplayRuns |-> <<>>]
    /\ replayer = [r \in ReplayRuns |-> {}] /\ replayFaults = 0

ReplayFault == replayFaults < MaxReplayFaults /\ replayFaults' = replayFaults + 1

-----------------------------------------------------------------------------
(***************************************************************************)
(* Engine.EvaluateAt on one event.  A tracker is the set of what it saw,   *)
(* <<tenant, source, dimension, window, value>>; reported maps a report's  *)
(* key to the time it was last made.                                       *)
(***************************************************************************)

Seen(tracker, event, d) == 
    tracker \cup {<<event.body.tenant, event.body.source, d, event.at \div WindowHours,
                    event.body.tags[d]>>}

Unique(tracker, event, d) ==
    Cardinality({x \in tracker : SubSeq(x, 1, 4) =
        <<event.body.tenant, event.body.source, d, event.at \div WindowHours>>})

ActionOn(policy, tracker, event, d) ==
    LET n == Unique(tracker, event, d)
    IN evaluate(PolicyDecision(policy, event.body, d), n, n)

\* reserveReport: at most one report of a key per interval of event time.
Reportable(reported, key, now) ==
    key \notin DOMAIN reported \/ now - reported[key] >= ReportInterval

Report(st, key, now, counter) ==
    IF Reportable(st.engine.reported, key, now)
    THEN [st EXCEPT !.engine.reported = (key :> now) @@ @, ![counter] = @ + 1]
    ELSE st

Allows(action) == IF action = NoFinding THEN "allow" ELSE action

\* One dimension of the event: observe and report under the active policy,
\* then under the shadow policy, then report their difference.
EvaluateDimension(st, event, d) ==
    LET body == event.body
        key(mode, action) == <<body.tenant, mode, body.source, d, action>>
        active == Seen(st.engine.active, event, d)
        shadow == Seen(st.engine.shadow, event, d)
        does == ActionOn(ReplayPolicy, active, event, d)
        would == ActionOn(ShadowPolicy, shadow, event, d)
        observed == [st EXCEPT !.engine.active = active, !.engine.shadow = shadow,
                               !.dropped = IF does \in {"drop_tag", "quarantine"} THEN @ + 1 ELSE @,
                               !.quarantined = @ \/ does = "quarantine"]
        found == IF does = NoFinding THEN observed
                 ELSE Report(observed, key("active", does), event.at, "findings")
        shadowed == IF would = NoFinding THEN found
                    ELSE Report(found, key("shadow", would), event.at, "findings")
    IN IF Allows(does) = Allows(would) THEN shadowed
       ELSE Report(shadowed, key("diff", Allows(would)), event.at, "diffs")

EvaluateAt(engine, event) ==
    LET present == SelectSeq(DimensionOrder, LAMBDA d : d \in DOMAIN event.body.tags)
        start == [engine |-> engine, dropped |-> 0, quarantined |-> FALSE, findings |-> 0, diffs |-> 0]
    IN FoldLeft(LAMBDA st, d : EvaluateDimension(st, event, d), start, present)

ResultOf(event, st) ==
    [event |-> event.event, dropped |-> st.dropped, quarantined |-> st.quarantined,
     findings |-> st.findings, diffs |-> st.diffs,
     changed |-> st.dropped > 0 \/ st.quarantined]

Counted(c, result) ==
    [c EXCEPT !.events = @ + 1, !.dropped = @ + result.dropped,
              !.findings = @ + result.findings, !.diffs = @ + result.diffs,
              !.changed = @ + (IF result.changed THEN 1 ELSE 0),
              !.quarantined = @ + (IF result.quarantined THEN 1 ELSE 0)]

-----------------------------------------------------------------------------
(***************************************************************************)
(* Runner.Run.                                                             *)
(***************************************************************************)

Running(r, step) == {p \in replayer[r] : p.step = step}

Runs(r, p) == replayer' = [replayer EXCEPT ![r] = {p}]

StartReplay(r) ==
    /\ replayRuns[r] = {}
    /\ \E p \in Places, limit \in ReplayLimits, topic \in BOOLEAN :
          /\ replayRuns' = [replayRuns EXCEPT ![r] =
                {[place |-> p, limit |-> limit, topic |-> topic,
                  status |-> "running", counters |-> NoCounters]}]
          /\ Runs(r, [step |-> "load", place |-> p, limit |-> limit, topic |-> topic,
                      events |-> <<>>, loaded |-> <<>>, engine |-> NewEngine, counters |-> NoCounters,
                      status |-> "completed"])
    /\ UNCHANGED <<archiveVars, results, replayFaults>>

\* IncidentEvents: a limit beyond its maximum is replaced by its default.
QueryLimit(limit) == IF limit < 1 \/ limit > MaxQueryEvents THEN QueryDefault ELSE limit

IncidentEvents(p, limit) ==
    Limited(InEventOrder(FirstCaptured(RowsOf(p))), QueryLimit(limit))

Ends(p, status) == [p EXCEPT !.step = "complete", !.status = status]

\* Mutation: the engine of an earlier run is used again.
EngineOfRunKept(r) ==
    LET earlier == {p \in UNION {replayer[q] : q \in ReplayRuns \ {r}} : p.step = "done"}
    IN IF earlier = {} THEN NewEngine ELSE (CHOOSE p \in earlier : TRUE).engine

\* A run evaluates in a new engine.
EngineOfRun(r) == NewEngine

LoadEvents(r) ==
    \E p \in Running(r, "load") :
        /\ LET events == IncidentEvents(p.place, p.limit)
           IN Runs(r, IF events = <<>> THEN Ends(p, "failed")
                      ELSE [p EXCEPT !.step = "event", !.events = events, !.loaded = events,
                                     !.engine = EngineOfRun(r)])
        /\ UNCHANGED <<archiveVars, replayRuns, results, replayFaults>>

\* After the last event the deferred CompleteReplay follows.
Advance(p) ==
    IF Len(p.events) = 1 THEN [Ends(p, "completed") EXCEPT !.events = <<>>]
    ELSE [p EXCEPT !.step = "event", !.events = Tail(@)]

\* What a run keeps of an event whose result could not be recorded.
Uncounted(p, result) == p

\* One event: evaluate it and record the result.  The write may fail, before or
\* after the database took it.
ReplayEvent(r) ==
    \E p \in Running(r, "event") :
        LET event == Head(p.events)
            st == EvaluateAt(p.engine, event)
            result == ResultOf(event, st)
            counted == [p EXCEPT !.engine = st.engine, !.counters = Counted(@, result)]
        IN /\ UNCHANGED <<archiveVars, replayRuns>>
           /\ \/ /\ results' = [results EXCEPT ![r] = Append(@, result)]
                 /\ Runs(r, IF p.topic THEN [counted EXCEPT !.step = "publish"] ELSE Advance(counted))
                 /\ UNCHANGED replayFaults
              \/ /\ ReplayFault /\ Runs(r, Ends(Uncounted(p, result), "failed"))
                 /\ \E taken \in BOOLEAN :
                       results' = IF taken THEN [results EXCEPT ![r] = Append(@, result)] ELSE results

PublishReplayed(r) ==
    \E p \in Running(r, "publish") :
        /\ \/ Runs(r, Advance([p EXCEPT !.counters.published = @ + 1])) /\ UNCHANGED replayFaults
           \/ Runs(r, Ends(p, "failed")) /\ ReplayFault
        /\ UNCHANGED <<archiveVars, replayRuns, results>>

\* The deferred update, which outlives the cancellation of the command.  When
\* it fails the run stays "running" in the database.
CompleteReplay(r) ==
    \E p \in Running(r, "complete") :
        /\ Runs(r, [p EXCEPT !.step = "done"])
        /\ \/ /\ replayRuns' = [replayRuns EXCEPT ![r] =
                    {[row EXCEPT !.status = p.status, !.counters = p.counters] : row \in @}]
              /\ UNCHANGED replayFaults
           \/ ReplayFault /\ UNCHANGED replayRuns
        /\ UNCHANGED <<archiveVars, results>>

\* The command is killed.
KillReplay(r) ==
    /\ ReplayFault /\ \E p \in replayer[r] : p.step # "done"
    /\ replayer' = [replayer EXCEPT ![r] = {}]
    /\ UNCHANGED <<archiveVars, replayRuns, results>>

ReplayNext ==
    \/ ArchiveNext /\ UNCHANGED <<replayRuns, results, replayer, replayFaults>>
    \/ \E r \in ReplayRuns :
          \/ StartReplay(r) \/ LoadEvents(r) \/ ReplayEvent(r)
          \/ PublishReplayed(r) \/ CompleteReplay(r) \/ KillReplay(r)

-----------------------------------------------------------------------------
RECURSIVE Totals(_)
Totals(rows) ==
    IF rows = <<>> THEN NoCounters ELSE Counted(Totals(Front(rows)), Last(rows))

Completed(r) == {row \in replayRuns[r] : row.status = "completed"}

\* The events a run read, which its process keeps to the end.
Loaded(r) == (CHOOSE p \in replayer[r] : TRUE).loaded

\* The summary of a finished run agrees with its per-event rows: exactly when
\* it completed, and but for the one result whose write was in doubt when it
\* failed.  A run that completed covers every event it read, once, in order.
SummaryAgrees ==
    \A r \in ReplayRuns : \A row \in replayRuns[r] :
        LET counters == [row.counters EXCEPT !.published = 0]
        IN /\ row.status = "completed" =>
                 /\ counters = Totals(results[r])
                 /\ [i \in DOMAIN results[r] |-> results[r][i].event]
                       = [i \in DOMAIN Loaded(r) |-> Loaded(r)[i].event]
                 /\ row.counters.published = IF row.topic THEN Len(Loaded(r)) ELSE 0
           /\ row.status = "failed" /\ results[r] # <<>> =>
                 counters \in {Totals(results[r]), Totals(Front(results[r]))}
           /\ row.status = "failed" /\ results[r] = <<>> => counters = NoCounters

\* What a run read, whichever tenant's copy it was.
Evidence(r) == {[x EXCEPT !.body = [y \in DOMAIN x.body \ {"tenant"} |-> x.body[y]]] :
                  x \in ToSet(Loaded(r))}

\* Replay is reproducible, here or elsewhere: two completed runs that read the
\* same evidence give the same results, whatever else ran in between.
ReplayReproducible ==
    \A r, q \in ReplayRuns :
        Completed(r) # {} /\ Completed(q) # {} /\ Evidence(r) = Evidence(q) =>
            results[r] = results[q]

\* A run of an imported incident that nobody froze again reads what a run of
\* the original would have read when it was exported, up to the events an
\* export with a lower limit left out.
CopiesReplayTheOriginal ==
    \A i \in imports, r \in ReplayRuns : \A row \in Completed(r) :
        (/\ row.place = [tenant |-> i.tenant, name |-> i.name]
         /\ RowsOf(row.place) = Written(i.file, i.tenant)) =>
            Loaded(r) = NormalizeImportedEvents(
                Limited(exported[i.file], QueryLimit(row.limit)), i.tenant)

\* Evidence survives export and import, and replaying it gives the recorded,
\* reproducible result.
EvidenceReproduced ==
    /\ ImportedIntact
    /\ SummaryAgrees
    /\ ReplayReproducible
    /\ CopiesReplayTheOriginal
=============================================================================
