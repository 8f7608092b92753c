----------------------------- MODULE ChangeIntel -----------------------------
(***************************************************************************)
(* Change intelligence (internal/changeintel/model.go and                  *)
(* internal/storage/change.go): the markers that the workers upsert from   *)
(* change events, in whatever order and however often these are delivered, *)
(* and the before/after analyses made of them.  An analysis reads the      *)
(* marker, then the telemetry around it, then the rollback and the         *)
(* telemetry around that, and last overwrites the stored snapshot, all     *)
(* outside a transaction.                                                  *)
(*                                                                         *)
(* A change event is [change, source, kind, status, version, rollbackOf,   *)
(* at]; "" is an attribute it does not carry.  What the aggregate query    *)
(* returns for a window is an input: source |-> [before, after], each      *)
(* [events, errors, p95] as counted around one point in time.              *)
(***************************************************************************)
EXTENDS Integers, FiniteSets

CONSTANTS
    ChangeEvents,    \* event |-> its attributes
    Telemetry,       \* the results the aggregate query may return
    WindowSamples,   \* window statistics to compare an analysis with
    Analysts,        \* the requests that analyse changes
    RollbackHorizon, \* two hours
    MaxAnalyses      \* bound on the analyses begun

VARIABLES
    markers,    \* change_markers: change |-> {} or its row
    applied,    \* change |-> the events applied to it, in order of first use
    analysts,   \* analyst |-> {} or its analysis in progress
    snapshots,  \* change_analysis_snapshots: change |-> {} or {analysis}
    analyses    \* number of analyses begun

changeVars == <<markers, applied, analysts, snapshots, analyses>>

Changes == {ChangeEvents[e].change : e \in DOMAIN ChangeEvents}

Statuses == {"started", "completed", "failed", "rolled_back", "changed"}

Kinds == {"deployment", "rollback", "release", "feature_flag", "configuration", "infrastructure"}

\* MarkerFromEvent: an event without a status is a completed change.
MarkerFromEvent(e) ==
    LET c == ChangeEvents[e]
    IN [change |-> c.change, event |-> e, source |-> c.source, kind |-> c.kind,
        status |-> IF c.status = "" THEN "completed" ELSE c.status,
        version |-> c.version, rollbackOf |-> c.rollbackOf, at |-> c.at]

ValidMarker(m) ==
    m.change # "" /\ m.source # "" /\ m.kind \in Kinds /\ m.status \in Statuses

ChangeInit ==
    /\ markers = [c \in Changes |-> {}] /\ snapshots = [c \in Changes |-> {}]
    /\ applied = [c \in Changes |-> {}]
    /\ analysts = [a \in Analysts |-> {}] /\ analyses = 0

\* COALESCE(EXCLUDED.x, change_markers.x)
Coalesce(new, old) == IF new = "" THEN old ELSE new

\* ON CONFLICT DO UPDATE: status and time always, the optional attributes when
\* the event carries them; event, source and kind stay those of the first.
Merged(row, m) ==
    [row EXCEPT !.status = m.status, !.at = m.at,
                !.version = Coalesce(m.version, @),
                !.rollbackOf = Coalesce(m.rollbackOf, @)]

\* An event whose marker is not valid goes to the dead-letter topic instead.
UpsertMarker(e) ==
    LET m == MarkerFromEvent(e)
        c == m.change
    IN /\ ValidMarker(m)
       /\ markers' = [markers EXCEPT ![c] =
             IF @ = {} THEN {m} ELSE {Merged(row, m) : row \in @}]
       /\ applied' = [applied EXCEPT ![c] = @ \cup {e}]
       /\ UNCHANGED <<analysts, snapshots, analyses>>

-----------------------------------------------------------------------------
(***************************************************************************)
(* The assessment of one source and of the whole change.  An error rate is *)
(* compared as a fraction: a delta of at least 1/20.                       *)
(***************************************************************************)

RateRises(before, after) ==
    20 * (after.errors * before.events - before.errors * after.events)
        >= before.events * after.events

p95Regression(before, after) ==
    before.p95 > 0 /\ after.p95 - before.p95 >= 100 /\ 4 * after.p95 >= 5 * before.p95

errorRegression(before, after) ==
    RateRises(before, after) /\ after.errors >= before.errors + 2

p95Improvement(before, after) ==
    before.p95 > 0 /\ after.p95 - before.p95 <= -100 /\ 4 * after.p95 <= 3 * before.p95

errorImprovement(before, after) == errorRegression(after, before)

AssessImpact(before, after) ==
    IF before.events < 5 \/ after.events < 5 THEN "insufficient"
    ELSE IF p95Regression(before, after) \/ errorRegression(before, after) THEN "regressed"
    ELSE IF p95Improvement(before, after) \/ errorImprovement(before, after) THEN "improved"
    ELSE "unchanged"

changeSourceImpacts(stats) ==
    [s \in DOMAIN stats |-> AssessImpact(stats[s].before, stats[s].after)]

SourcesWith(impacts, verdicts) == {s \in DOMAIN impacts : impacts[s] \in verdicts}

PrimaryIs(impacts, source, verdict) == source \in SourcesWith(impacts, {verdict})

\* Mutation: what the changed source itself shows is looked at first.
FinalizePrimaryFirst(impacts, source) ==
    IF PrimaryIs(impacts, source, "regressed") THEN "regression-associated"
    ELSE IF PrimaryIs(impacts, source, "improved") THEN "improvement-associated"
    ELSE IF SourcesWith(impacts, {"regressed"}) # {} THEN "regression-observed"
    ELSE "no-material-regression"

Finalize(impacts, source) ==
    LET regressed == SourcesWith(impacts, {"regressed"})
        improved == SourcesWith(impacts, {"improved"})
        assessable == SourcesWith(impacts, {"regressed", "improved", "unchanged"})
    IN IF PrimaryIs(impacts, source, "regressed") THEN "regression-associated"
       ELSE IF regressed # {} /\ improved # {} THEN "mixed"
       ELSE IF regressed # {} THEN "regression-observed"
       ELSE IF PrimaryIs(impacts, source, "improved") THEN "improvement-associated"
       ELSE IF assessable = {} THEN "insufficient-evidence"
       ELSE "no-material-regression"

-----------------------------------------------------------------------------
(***************************************************************************)
(* AnalyzeChange.                                                          *)
(***************************************************************************)

At(a, step) == {n \in analysts[a] : n.step = step}

ReadMarker(a) ==
    /\ analysts[a] = {} /\ analyses < MaxAnalyses /\ analyses' = analyses + 1
    /\ \E c \in Changes : \E row \in markers[c] :
          analysts' = [analysts EXCEPT ![a] = {[step |-> "telemetry", marker |-> row]}]
    /\ UNCHANGED <<markers, applied, snapshots>>

ReadTelemetry(a) ==
    \E n \in At(a, "telemetry"), stats \in Telemetry :
        /\ analysts' = [analysts EXCEPT ![a] =
              {[step |-> "recovery", marker |-> n.marker, stats |-> stats,
                impacts |-> changeSourceImpacts(stats),
                assessment |-> Finalize(changeSourceImpacts(stats), n.marker.source)]}]
        /\ UNCHANGED <<markers, applied, snapshots, analyses>>

\* The rollback markers that may explain a recovery of marker m.
Rollbacks(m) ==
    {r \in UNION {markers[c] : c \in Changes} :
        /\ r.kind = "rollback" /\ r.at > m.at /\ r.at <= m.at + RollbackHorizon
        /\ r.rollbackOf = m.change \/ r.source = m.source}

\* ORDER BY CASE WHEN rollback_of = ... THEN 0 ELSE 1 END, changed_at LIMIT 1
BestRollbacks(m) ==
    LET explicit == {r \in Rollbacks(m) : r.rollbackOf = m.change}
        pool == IF explicit = {} THEN Rollbacks(m) ELSE explicit
    IN {r \in pool : \A q \in pool : r.at <= q.at}

Recovered(stats, source) ==
    /\ source \in DOMAIN stats
    /\ LET after == stats[source].after
       IN \/ AssessImpact(stats[source].before, after) = "improved"
          \/ 20 * after.errors < after.events /\ after.p95 < 500
          \/ after.events = 0

\* A failure of the query leaves the analysis without recovery evidence.
ReadRecovery(a) ==
    \E n \in At(a, "recovery") :
        /\ \E evidence \in
                {{}} \cup {{[rollback |-> r, recovered |-> Recovered(stats, n.marker.source)]} :
                              r \in BestRollbacks(n.marker), stats \in Telemetry} :
             analysts' = [analysts EXCEPT ![a] =
                {[step |-> "persist", marker |-> n.marker, stats |-> n.stats,
                  impacts |-> n.impacts, assessment |-> n.assessment, recovery |-> evidence]}]
        /\ UNCHANGED <<markers, applied, snapshots, analyses>>

PersistAnalysis(a) ==
    \E n \in At(a, "persist") :
        /\ snapshots' = [snapshots EXCEPT ![n.marker.change] = {n}]
        /\ analysts' = [analysts EXCEPT ![a] = {}]
        /\ UNCHANGED <<markers, applied, analyses>>

\* Any of the queries fails: nothing is stored.
AnalysisFails(a) ==
    /\ analysts[a] # {} /\ analysts' = [analysts EXCEPT ![a] = {}]
    /\ UNCHANGED <<markers, applied, snapshots, analyses>>

AnalyzeChange(a) ==
    ReadMarker(a) \/ ReadTelemetry(a) \/ ReadRecovery(a) \/ PersistAnalysis(a) \/ AnalysisFails(a)

ChangeNext ==
    \/ \E e \in DOMAIN ChangeEvents : UpsertMarker(e)
    \/ \E a \in Analysts : AnalyzeChange(a)

-----------------------------------------------------------------------------
\* However the events of one change are ordered and repeated, its marker loses
\* nothing: it has a version and a rollback reference as soon as one applied
\* event carried them, each taken from an event of this change, and it keeps
\* the source and kind of the event that created it.
MarkerKeepsEvidence ==
    \A c \in Changes : \A row \in markers[c] :
        LET carried(f) == {ChangeEvents[e][f] : e \in applied[c]} \ {""}
        IN /\ carried("version") # {} => row.version \in carried("version")
           /\ carried("rollbackOf") # {} => row.rollbackOf \in carried("rollbackOf")
           /\ row.event \in applied[c]
           /\ row.source = ChangeEvents[row.event].source
           /\ row.kind = ChangeEvents[row.event].kind

\* A stored analysis reports a regression exactly when one of its sources
\* regressed, and associates it with the change exactly when that source is
\* the one that was changed: neither a primary source that improved nor the
\* sources without enough events hide the others.
RegressionNeverHidden ==
    \A c \in Changes : \A n \in snapshots[c] :
        /\ n.assessment \in {"regression-associated", "mixed", "regression-observed"}
              <=> \E s \in DOMAIN n.impacts : n.impacts[s] = "regressed"
        /\ n.assessment = "regression-associated"
              <=> PrimaryIs(n.impacts, n.marker.source, "regressed")

Severity(verdict) == CASE verdict = "improved" -> 0 [] verdict = "unchanged" -> 1
                       [] verdict = "regressed" -> 2

\* Materiality is monotone: had the window after the change been worse, with as
\* many events but no fewer errors and no lower latency, the assessment of the
\* source would not have been better.
AssessmentMonotone ==
    \A c \in Changes : \A n \in snapshots[c] : \A s \in DOMAIN n.stats :
        LET before == n.stats[s].before
            after == n.stats[s].after
        IN n.impacts[s] # "insufficient" =>
              \A w \in WindowSamples :
                 w.events = after.events /\ w.errors >= after.errors /\ w.p95 >= after.p95
                    => Severity(AssessImpact(before, w)) >= Severity(n.impacts[s])

\* A change keeps what its events told, and its analysis hides no regression.
ChangeAssessed ==
    /\ MarkerKeepsEvidence
    /\ RegressionNeverHidden
    /\ AssessmentMonotone
=============================================================================
