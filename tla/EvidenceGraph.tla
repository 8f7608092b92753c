--------------------------- MODULE EvidenceGraph ---------------------------
(***************************************************************************)
(* The Evidence Graph of a frozen incident (internal/evidence) and the     *)
(* investigation derived from it (internal/intelligence).  A request reads *)
(* the captured events, the replay history and the change markers near the *)
(* incident, builds the graph pass by pass and stores it.  Times are in    *)
(* units of ten seconds.                                                   *)
(***************************************************************************)
EXTENDS Integers, Sequences, FiniteSets, SequencesExt

CONSTANTS
    CapturedEvents,    \* events 1..n an incident may hold: time, source, correlation,
                       \* trace and what highLatency, normalLatency, isError, isChange say
    NearbyChanges,     \* change markers 1..m: event, source, time, rollback, rollbackOf
    EvidenceHistory,   \* the replay runs and cost simulations of the incident
    MaxGraphEdges,
    MaxEvidenceRequests

VARIABLES
    frozenEvents,      \* the events of the incident, {} before it is frozen
    knownChanges,      \* the change markers recorded so far
    graphRow,          \* evidence_graph_snapshots: {} or the last graph
    investigationRow,  \* intelligence_snapshots: {} or the last investigation, with
                       \* the graph it was derived from
    evidenceRequests   \* requests answered so far

evidenceVars == <<frozenEvents, knownChanges, graphRow, investigationRow, evidenceRequests>>

EvidenceInit ==
    /\ frozenEvents = {} /\ knownChanges = {}
    /\ graphRow = {} /\ investigationRow = {} /\ evidenceRequests = 0

-----------------------------------------------------------------------------
(* Nodes and edges.                                                        *)

IncidentNode == <<"incident", 0>>
EventNode(e) == <<"event", e>>

Relates(from, to, relation) == [from |-> from, to |-> to, relation |-> relation]
RelatesEvents(a, b, relation) == Relates(EventNode(a), EventNode(b), relation)

SupportingRelations ==
    {"shared-correlation", "shared-trace", "latency-precedes-error",
     "change-precedes-error", "structured-change-precedes-error"}
ContradictingRelations == {"recovery-signal", "recovery-after-rollback"}

EventTime(e) == CapturedEvents[e].at
IsError(e) == CapturedEvents[e].error
HighLatency(e) == CapturedEvents[e].latency = "high"
NormalLatency(e) == CapturedEvents[e].latency = "normal"

\* sortEvents
EventBefore(a, b) == EventTime(a) < EventTime(b) \/ (EventTime(a) = EventTime(b) /\ a < b)
InTimeOrder(S) == SortSeq(FoldSet(LAMBDA e, events : Append(events, e), <<>>, S), EventBefore)

\* The groups of a Go map, in one of the orders its iteration may take.
Grouped(events, field, order) ==
    [k \in DOMAIN order |-> SelectSeq(events, LAMBDA e : CapturedEvents[e][field] = order[k])]
GroupOrders(S, field) == SetToSeqs({CapturedEvents[e][field] : e \in S} \ {""})

OverGroups(groups, Pass(_)) == FlattenSeq([k \in DOMAIN groups |-> Pass(groups[k])])

-----------------------------------------------------------------------------
(* The passes, each as the sequence of edges it offers to add.             *)

linkConsecutive(group, relation) ==
    [i \in 1..(Len(group) - 1) |-> RelatesEvents(group[i], group[i + 1], relation)]

addCorrelationEdges(groups) ==
    OverGroups(groups, LAMBDA g : linkConsecutive(g, "shared-correlation"))

addTraceEdges(groups) ==
    OverGroups(groups, LAMBDA g : linkConsecutive(g, "shared-trace"))

WithinGap(group, i) == EventTime(group[i + 1]) - EventTime(group[i]) <= 3

\* Mutation: the sequence of a source ends at its first gap.
LinkedUntilGap(group) ==
    FlattenSeq([i \in 1..(Len(group) - 1) |->
        IF \A k \in 1..i : WithinGap(group, k)
        THEN <<RelatesEvents(group[i], group[i + 1], "same-source-sequence")>> ELSE <<>>])

LinkedWithinGap(group) ==
    FlattenSeq([i \in 1..(Len(group) - 1) |->
        IF WithinGap(group, i)
        THEN <<RelatesEvents(group[i], group[i + 1], "same-source-sequence")>> ELSE <<>>])

addSourceSequenceEdges(groups) == OverGroups(groups, LinkedWithinGap)

\* The inner loop of addSymptomEdges: the first event after the left one that
\* passes the test, unless one beyond the limit comes before.
FirstWithin(group, left, limit, Test(_)) ==
    LET hits == {r \in (left + 1)..Len(group) :
                    /\ \A k \in (left + 1)..r : EventTime(group[k]) - EventTime(group[left]) <= limit
                    /\ Test(group[r])}
    IN {r \in hits : \A k \in hits : r <= k}

Symptoms(group) ==
    FlattenSeq([left \in DOMAIN group |->
        LET To(relation, S) ==
                SetToSeq({RelatesEvents(group[left], group[r], relation) : r \in S})
        IN (IF HighLatency(group[left])
            THEN To("latency-precedes-error", FirstWithin(group, left, 6, IsError)) ELSE <<>>)
           \o (IF IsError(group[left])
               THEN To("recovery-signal", FirstWithin(group, left, 12, NormalLatency)) ELSE <<>>)])

addSymptomEdges(groups) == OverGroups(groups, Symptoms)

addChangeEdges(events) ==
    FlattenSeq([left \in DOMAIN events |->
        FlattenSeq([right \in DOMAIN events |->
            IF /\ CapturedEvents[events[left]].change
               /\ left < right /\ EventTime(events[right]) - EventTime(events[left]) <= 30
               /\ CapturedEvents[events[right]].source = CapturedEvents[events[left]].source
               /\ IsError(events[right])
            THEN <<RelatesEvents(events[left], events[right], "change-precedes-error")>>
            ELSE <<>>])])

\* The node of a marker: that of its event when the event was captured.
ChangeNode(c, S) ==
    IF NearbyChanges[c].event \in S THEN EventNode(NearbyChanges[c].event) ELSE <<"change", c>>

AfterChange(c, events) ==
    SelectSeq(events, LAMBDA e : /\ CapturedEvents[e].source = NearbyChanges[c].source
                                 /\ EventTime(e) - NearbyChanges[c].at \in 0..60)

StructuredChange(c, events) ==
    LET node == ChangeNode(c, ToSet(events))
        errors == SelectSeq(AfterChange(c, events), IsError)
    IN (IF node[1] = "change" THEN <<Relates(IncidentNode, node, "change-near-incident")>> ELSE <<>>)
       \o [i \in DOMAIN errors |->
              Relates(node, EventNode(errors[i]), "structured-change-precedes-error")]

StructuredRollback(c, changes, events) ==
    LET node == ChangeNode(c, ToSet(events))
        original == NearbyChanges[c].rollbackOf
        normal == SelectSeq(AfterChange(c, events), NormalLatency)
    IN IF ~NearbyChanges[c].rollback \/ original = 0 THEN <<>>
       ELSE (IF original \in ToSet(changes)
             THEN <<Relates(ChangeNode(original, ToSet(events)), node, "explicit-rollback-of")>>
             ELSE <<>>)
            \o (IF normal = <<>> THEN <<>>
                ELSE <<Relates(node, EventNode(Head(normal)), "recovery-after-rollback")>>)

addStructuredChanges(changes, events) ==
    FlattenSeq([k \in DOMAIN changes |-> StructuredChange(changes[k], events)])
    \o FlattenSeq([k \in DOMAIN changes |-> StructuredRollback(changes[k], changes, events)])

\* relationshipBuilder.add: nothing beyond the bound, nothing twice.
AddEdge(edges, edge) == IF Cardinality(edges) >= MaxGraphEdges THEN edges ELSE edges \cup {edge}

\* The nodes and edges that are appended whatever their number.
FixedNodes(S, history) ==
    {IncidentNode} \cup {EventNode(e) : e \in S} \cup {<<"history", h>> : h \in history}
FixedEdges(S, history) ==
    {Relates(IncidentNode, EventNode(e), "captured-in") : e \in S}
    \cup {Relates(IncidentNode, <<"history", h>>, "evaluated") : h \in history}

BuildWithChanges(S, changes, history, byCorrelation, byTrace, bySource, bySource2) ==
    LET events == InTimeOrder(S)
        offered == addCorrelationEdges(Grouped(events, "correlation", byCorrelation))
                   \o addTraceEdges(Grouped(events, "trace", byTrace))
                   \o addSourceSequenceEdges(Grouped(events, "source", bySource))
                   \o addSymptomEdges(Grouped(events, "source", bySource2))
                   \o addChangeEdges(events)
                   \o addStructuredChanges(changes, events)
    IN [events |-> S, changes |-> ToSet(changes), history |-> history,
        nodes |-> FixedNodes(S, history) \cup {ChangeNode(c, S) : c \in ToSet(changes)},
        edges |-> FoldLeft(AddEdge, FixedEdges(S, history), offered)]

-----------------------------------------------------------------------------
(* Hypotheses and findings.                                                *)

CountOf(graph, relations) == Cardinality({e \in graph.edges : e.relation \in relations})

ChangeSupport == {"change-precedes-error", "structured-change-precedes-error"}

HypothesisStatus(support, contradict) ==
    IF support > 0 /\ contradict > 0 THEN "mixed"
    ELSE IF support > 0 THEN "supported"
    ELSE IF contradict > 0 THEN "contradicted" ELSE "insufficient"

\* The hypotheses of the graph by name; none stands for insufficient-evidence.
buildHypotheses(graph) ==
    LET change == CountOf(graph, ChangeSupport)
        latency == CountOf(graph, {"latency-precedes-error"})
        recovery == CountOf(graph, ContradictingRelations)
        all == [recent_change |-> HypothesisStatus(change, 0),
                latency_before_errors |-> HypothesisStatus(latency, 0),
                sustained_degradation |-> HypothesisStatus(latency, recovery)]
    IN [h \in {x \in DOMAIN all : all[x] # "insufficient"} |-> all[h]]

hypothesisRelations(id) ==
    CASE id = "recent_change" -> ChangeSupport \cup {"recovery-after-rollback"}
      [] id = "latency_before_errors" -> {"latency-precedes-error"}
      [] id = "sustained_degradation" -> {"latency-precedes-error"} \cup ContradictingRelations

confidence(support, contradiction) ==
    IF support = 0 THEN "insufficient" ELSE IF contradiction > 0 THEN "mixed"
    ELSE IF support >= 4 THEN "high" ELSE IF support >= 2 THEN "medium" ELSE "low"

findingFromHypothesis(id, graph) ==
    LET cited == {e \in graph.edges : /\ e.relation \in hypothesisRelations(id)
                                      /\ e.relation \in SupportingRelations \cup ContradictingRelations}
        supporting == {e \in cited : e.relation \in SupportingRelations}
        contradicting == cited \ supporting
    IN [supporting |-> supporting, contradicting |-> contradicting,
        citedNodes |-> {e.from : e \in cited} \cup {e.to : e \in cited},
        confidence |-> confidence(Cardinality(supporting), Cardinality(contradicting)),
        status |-> IF supporting = {} THEN "insufficient"
                   ELSE IF contradicting # {} THEN "mixed" ELSE "supported"]

Investigate(graph) ==
    LET all == [h \in DOMAIN buildHypotheses(graph) |-> findingFromHypothesis(h, graph)]
        findings == [h \in {x \in DOMAIN all : all[x].citedNodes # {}} |-> all[h]]
        statuses == {findings[h].status : h \in DOMAIN findings}
    IN [graph |-> graph, findings |-> findings,
        status |-> IF statuses \cap {"supported", "mixed"} = {} THEN "insufficient_evidence"
                   ELSE IF "mixed" \in statuses THEN "mixed_evidence" ELSE "evidence_supported"]

-----------------------------------------------------------------------------
(* The requests.                                                           *)

\* The incident is frozen once (IncidentDetector); markers come in at any time.
FreezeEvidence(S) ==
    /\ frozenEvents = {} /\ frozenEvents' = S
    /\ UNCHANGED <<knownChanges, graphRow, investigationRow, evidenceRequests>>

RecordChange(c) ==
    /\ c \notin knownChanges /\ knownChanges' = knownChanges \cup {c}
    /\ UNCHANGED <<frozenEvents, graphRow, investigationRow, evidenceRequests>>

\* ChangesBetween: the markers from fifteen minutes before the first event to
\* five after the last, in order.  Its error is ignored, and so the graph gets
\* the markers that were read before it.
ChangesBetween(S, known) ==
    LET from == EventTime(Head(InTimeOrder(S))) - 90
        to == EventTime(Last(InTimeOrder(S))) + 30
        found == SetToSortSeq({c \in known : NearbyChanges[c].at \in from..to},
                              LAMBDA a, b : NearbyChanges[a].at < NearbyChanges[b].at)
    IN {SubSeq(found, 1, n) : n \in 0..Len(found)}

\* What a request may build: the errors of the history and the markers are
\* ignored, and the groups come in any order.
GraphsOf(S, known) ==
    {BuildWithChanges(S, changes, history, byCorrelation, byTrace, bySource, bySource2) :
        changes \in ChangesBetween(S, known), history \in SUBSET EvidenceHistory,
        byCorrelation \in GroupOrders(S, "correlation"), byTrace \in GroupOrders(S, "trace"),
        bySource \in GroupOrders(S, "source"), bySource2 \in GroupOrders(S, "source")}

EvidenceWindows == (SUBSET DOMAIN CapturedEvents) \ {{}}

\* Saving a snapshot may fail; the request is answered all the same.
AnswersRequest ==
    /\ frozenEvents # {}
    /\ evidenceRequests < MaxEvidenceRequests /\ evidenceRequests' = evidenceRequests + 1

handleEvidenceGraph ==
    /\ AnswersRequest
    /\ \E graph \in GraphsOf(frozenEvents, knownChanges) : graphRow' \in {graphRow, {graph}}
    /\ UNCHANGED <<frozenEvents, knownChanges, investigationRow>>

handleInvestigation ==
    /\ AnswersRequest
    /\ \E graph \in GraphsOf(frozenEvents, knownChanges) :
          /\ graphRow' \in {graphRow, {graph}}
          /\ investigationRow' \in {investigationRow, {Investigate(graph)}}
    /\ UNCHANGED <<frozenEvents, knownChanges>>

EvidenceNext ==
    \/ \E S \in EvidenceWindows : FreezeEvidence(S)
    \/ \E c \in DOMAIN NearbyChanges : RecordChange(c)
    \/ handleEvidenceGraph
    \/ handleInvestigation

-----------------------------------------------------------------------------
\* When each relation holds between two captured events, as its reason says it,
\* without reference to any pass.
Preceding(a, b, limit) == EventBefore(a, b) /\ EventTime(b) - EventTime(a) <= limit
SameField(a, b, field) ==
    CapturedEvents[a][field] = CapturedEvents[b][field] /\ CapturedEvents[a][field] # ""
NoneBetween(S, a, b, Test(_)) ==
    ~\E z \in S : EventBefore(a, z) /\ EventBefore(z, b) /\ Test(z)

Holds(relation, S, a, b) ==
    CASE relation = "shared-correlation" ->
            /\ EventBefore(a, b) /\ SameField(a, b, "correlation")
            /\ NoneBetween(S, a, b, LAMBDA z : SameField(a, z, "correlation"))
      [] relation = "shared-trace" ->
            /\ EventBefore(a, b) /\ SameField(a, b, "trace")
            /\ NoneBetween(S, a, b, LAMBDA z : SameField(a, z, "trace"))
      [] relation = "same-source-sequence" ->
            /\ Preceding(a, b, 3) /\ SameField(a, b, "source")
            /\ NoneBetween(S, a, b, LAMBDA z : SameField(a, z, "source"))
      [] relation = "latency-precedes-error" ->
            /\ Preceding(a, b, 6) /\ SameField(a, b, "source") /\ HighLatency(a) /\ IsError(b)
            /\ NoneBetween(S, a, b, LAMBDA z : SameField(a, z, "source") /\ IsError(z))
      [] relation = "recovery-signal" ->
            /\ Preceding(a, b, 12) /\ SameField(a, b, "source") /\ IsError(a) /\ NormalLatency(b)
            /\ NoneBetween(S, a, b, LAMBDA z : SameField(a, z, "source") /\ NormalLatency(z))
      [] relation = "change-precedes-error" ->
            /\ Preceding(a, b, 30) /\ SameField(a, b, "source")
            /\ CapturedEvents[a].change /\ IsError(b)

EventRelations ==
    {"shared-correlation", "shared-trace", "same-source-sequence", "latency-precedes-error",
     "recovery-signal", "change-precedes-error"}

AmongEvents(edges) == {e \in edges : e.relation \in EventRelations}
Warranted(S) ==
    UNION {{RelatesEvents(p[1], p[2], r) : p \in {q \in S \X S : Holds(r, S, q[1], q[2])}} :
              r \in EventRelations}

EdgesCut(graph) == Cardinality(graph.edges) >= MaxGraphEdges

\* "It does not perform an unrestricted all-pairs comparison"
\* (docs/evidence/evidence-graph.md): the single pass over each group still finds
\* every relation of the reasons' texts between captured events, whatever order
\* the Go maps are iterated in, unless the bound cut edges off, and never
\* another; every edge joins two nodes of the graph.
GraphWarranted ==
    \A graph \in graphRow :
        /\ AmongEvents(graph.edges) \subseteq Warranted(graph.events)
        /\ EdgesCut(graph) \/ AmongEvents(graph.edges) = Warranted(graph.events)
        /\ \A e \in graph.edges : e.from \in graph.nodes /\ e.to \in graph.nodes
        /\ Cardinality(graph.edges) <= MaxGraphEdges
              \/ graph.edges = FixedEdges(graph.events, graph.history)

\* "evidence_supported means one or more built-in hypotheses have captured
\* supporting evidence without contradiction": the status of an investigation
\* agrees with what the captured events and markers say, unless the bound cut
\* edges off; and a finding is never more certain than its hypothesis, although
\* Investigate and buildHypotheses each map relations to hypotheses themselves.
InvestigationCautious ==
    \A v \in investigationRow :
        LET warranted == {e.relation : e \in Warranted(v.graph.events)}
            present == {e.relation : e \in v.graph.edges}
            hypotheses == buildHypotheses(v.graph)
        IN /\ \A h \in DOMAIN v.findings :
                 /\ v.findings[h].status = "supported" => hypotheses[h] = "supported"
                 /\ hypotheses[h] = "mixed" => v.findings[h].status = "mixed"
                 /\ v.findings[h].citedNodes \subseteq v.graph.nodes
           /\ DOMAIN v.findings = DOMAIN hypotheses
           /\ ~EdgesCut(v.graph) =>
                 (v.status = "mixed_evidence" <=>
                     \/ /\ "recovery-after-rollback" \in present
                        /\ ("structured-change-precedes-error" \in present
                            \/ warranted \cap {"change-precedes-error", "latency-precedes-error"} # {})
                     \/ {"latency-precedes-error", "recovery-signal"} \subseteq warranted)

EvidenceSound == GraphWarranted /\ InvestigationCautious
=============================================================================
