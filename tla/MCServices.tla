----------------------------- MODULE MCServices -----------------------------
(***************************************************************************)
(* The services beside the event path.  They share no variable, so that    *)
(* one run checks them one at a time: focus is the service that acts, the  *)
(* others stay where they start.                                           *)
(***************************************************************************)
EXTENDS SchemaRegistry, Lifecycle, IncidentDetector, EbpfAgent, FastRing,
        Autonomy, LiveFeed, FabricStatus, ChangeIntel, IncidentReplay,
        EvidenceGraph, Ingest

VARIABLE focus

Services == {"schema", "lifecycle", "incident", "ebpf", "ring", "autonomy",
             "feed", "fabric", "change", "replay", "evidence", "ingest"}

servicesVars == <<schemaVars, lifecycleVars, incidentVars, ebpfVars, ringVars,
                  autonomyVars, feedVars, fabricVars, changeVars, replayVars,
                  evidenceVars, ingestVars>>

\* --- schema registry
F(path, type, depth, key) == [path |-> path, type |-> type, depth |-> depth, key |-> key]

MCSamples ==
    [s1 |-> [version |-> "1", url |-> "u1",
             raw |-> <<F("metric.value", "number", 0, ""), F("tags.host", "string", 0, "")>>],
     s2 |-> [version |-> "1", url |-> "u1",
             raw |-> <<F("tags.host", "string", 0, ""), F("payload", "object", 1, ""),
                       F("payload.code", "string", 2, "http.response.status_code")>>],
     s3 |-> [version |-> "1", url |-> "u2",
             raw |-> <<F("metric.value", "number", 0, ""), F("payload", "string", 1, "")>>],
     s4 |-> [version |-> "2", url |-> "",
             raw |-> <<F("tags.http.method", "string", 0, "http.method")>>]]

MCPaths == <<"metric.value", "payload", "payload.code", "tags.host", "tags.http.method">>

MCExpected == [x \in {"http.response.status_code"} |-> "number"]

\* --- incident detector
MCSignals ==
    [x1 |-> [source |-> "a", category |-> "errors"],
     x2 |-> [source |-> "b", category |-> "latency"],
     x3 |-> [source |-> "b", category |-> "errors"],
     x4 |-> [source |-> "a", category |-> "latency"],
     x5 |-> [source |-> "a", category |-> "none"]]

MCDeliveries ==
    {<<"x1", "x3", "x1", "x1">>, <<"x2", "x2", "x2">>, <<"x4", "x2", "x3">>, <<"x5">>}

\* --- fabric status
MCFabricSetups ==
    {[mode |-> m, lineage |-> TRUE, ebpfEnabled |-> e, ebpfRequired |-> r, batch |-> b] :
        m \in {"local", "quorum"}, e \in BOOLEAN, r \in BOOLEAN, b \in {64, 2048}}

\* --- change intelligence
Change(c, s, k, st, v, r, t) ==
    [change |-> c, source |-> s, kind |-> k, status |-> st, version |-> v, rollbackOf |-> r, at |-> t]

MCChangeEvents ==
    [v1 |-> Change("c1", "api", "deployment", "started", "2.0", "", 1),
     v2 |-> Change("c1", "api", "deployment", "", "", "", 2),
     v3 |-> Change("c1", "api", "release", "done", "2.1", "", 3),
     v4 |-> Change("c2", "web", "rollback", "completed", "1.9", "c1", 3)]

Stats(n, e, p) == [events |-> n, errors |-> e, p95 |-> p]

MCWindowSamples == {Stats(10, e, p) : e \in {0, 2, 4}, p \in {0, 300, 380, 500}}

Around(b, a) == [before |-> b, after |-> a]

MCTelemetry ==
    {[api |-> Around(Stats(10, 0, 500), Stats(10, 2, 300)),
      web |-> Around(Stats(10, 4, 500), Stats(10, 0, 500))],
     [api |-> Around(Stats(10, 4, 500), Stats(10, 0, 300)),
      web |-> Around(Stats(10, 0, 300), Stats(10, 0, 500))],
     [x \in {"web"} |-> Around(Stats(4, 0, 0), Stats(0, 0, 0))]}

\* --- incident archive and replay
MCPlaces == {[tenant |-> "acme", name |-> "inc"], [tenant |-> "beta", name |-> "copy"]}

RecorderRow(tenant, e, c, t, tags) ==
    [event |-> e, captured |-> c, at |-> t,
     body |-> [tenant |-> tenant, source |-> "api", type |-> "error", tags |-> tags]]

MCFlightRecorder ==
    {RecorderRow("acme", 1, 2, 1, [user |-> "u1"]),
     RecorderRow("acme", 1, 1, 1, [user |-> "u1", pod |-> "p1"]),
     RecorderRow("acme", 2, 1, 2, [user |-> "u2", pod |-> "p1"]),
     RecorderRow("acme", 3, 3, 5, [user |-> "u1"]),
     RecorderRow("acme", 4, 4, 6, [user |-> "u3"]),
     RecorderRow("beta", 3, 2, 5, [user |-> "u4"])}

MCCaptureWindows == {<<1, 4>>, <<2, 4>>}

PolicyOf(action) ==
    [threshold |-> 9, action |-> "allow", dangerous |-> {},
     rules |-> <<[source |-> AnyValue, type |-> AnyValue, dimension |-> {"user"},
                  threshold |-> 2, action |-> action]>>]

MCReplayPolicy == PolicyOf("quarantine")

MCShadowPolicy == PolicyOf("drop_tag")

MCDimensionOrder == <<"pod", "user">>

\* --- evidence graph: e1 is a failed deployment, e6 comes too late for it
Captured(t, source, correlation, trace, error, latency, change) ==
    [at |-> t, source |-> source, correlation |-> correlation, trace |-> trace,
     error |-> error, latency |-> latency, change |-> change]

MCCapturedEvents ==
    <<Captured(0, "a", "c1", "", TRUE, "none", TRUE),
      Captured(2, "a", "c1", "t1", FALSE, "high", FALSE),
      Captured(5, "a", "c2", "t1", TRUE, "none", FALSE),
      Captured(8, "a", "c2", "", FALSE, "normal", FALSE),
      Captured(40, "b", "c1", "", FALSE, "normal", FALSE),
      Captured(62, "a", "", "", TRUE, "none", FALSE)>>

MCNearbyChanges ==
    <<[event |-> 1, source |-> "a", at |-> 0, rollback |-> FALSE, rollbackOf |-> 0],
      [event |-> 0, source |-> "b", at |-> 35, rollback |-> TRUE, rollbackOf |-> 1]>>

\* --- ingestion
Sent(endpoint, fails, records) == [endpoint |-> endpoint, fails |-> fails, records |-> records]
Rec(id, supported) == [id |-> id, supported |-> supported]

MCIngestRequests ==
    {Sent("event", {}, <<Rec(id, TRUE)>>) : id \in {0, 1}}
    \cup {Sent("change", fails, <<Rec(id, TRUE)>>) : id \in {0, 1}, fails \in {{}, {"future"}}}
    \cup {Sent("metric", fails, <<Rec(1, TRUE)>>) : fails \in {{}, {"value", "tenant"}}}
    \cup {Sent("logs", {}, <<Rec(0, TRUE), Rec(0, TRUE)>>), Sent("logs", {"media"}, <<Rec(0, TRUE)>>)}
    \cup {Sent("metrics", {}, <<Rec(0, TRUE), Rec(0, b), Rec(0, TRUE)>>) : b \in BOOLEAN}

-----------------------------------------------------------------------------
\* A service that is not in focus has one state to stay in.
Init ==
    /\ focus \in Services
    /\ SchemaInit /\ LifecycleInit /\ IncidentInit /\ EbpfInit /\ RingInit
    /\ AutonomyInit /\ FeedInit /\ FabricInit /\ ChangeInit /\ ReplayInit
    /\ EvidenceInit /\ IngestInit
    /\ focus # "incident" => inbox = <<"x5">>
    /\ focus # "fabric" => setup.mode = "local" /\ ~setup.ebpfEnabled /\ setup.batch = 64
    /\ focus # "ingest" => ingestRequest = Sent("metric", {}, <<Rec(1, TRUE)>>)

Next ==
    \/ /\ focus = "schema" /\ SchemaNext
       /\ UNCHANGED <<focus, lifecycleVars, incidentVars, ebpfVars, ringVars,
                      autonomyVars, feedVars, fabricVars, changeVars, replayVars,
                      evidenceVars, ingestVars>>
    \/ /\ focus = "lifecycle" /\ LifecycleNext
       /\ UNCHANGED <<focus, schemaVars, incidentVars, ebpfVars, ringVars,
                      autonomyVars, feedVars, fabricVars, changeVars, replayVars,
                      evidenceVars, ingestVars>>
    \/ /\ focus = "incident" /\ IncidentNext
       /\ UNCHANGED <<focus, schemaVars, lifecycleVars, ebpfVars, ringVars,
                      autonomyVars, feedVars, fabricVars, changeVars, replayVars,
                      evidenceVars, ingestVars>>
    \/ /\ focus = "ebpf" /\ EbpfNext
       /\ UNCHANGED <<focus, schemaVars, lifecycleVars, incidentVars, ringVars,
                      autonomyVars, feedVars, fabricVars, changeVars, replayVars,
                      evidenceVars, ingestVars>>
    \/ /\ focus = "ring" /\ RingNext
       /\ UNCHANGED <<focus, schemaVars, lifecycleVars, incidentVars, ebpfVars,
                      autonomyVars, feedVars, fabricVars, changeVars, replayVars,
                      evidenceVars, ingestVars>>
    \/ /\ focus = "autonomy" /\ AutonomyNext
       /\ UNCHANGED <<focus, schemaVars, lifecycleVars, incidentVars, ebpfVars,
                      ringVars, feedVars, fabricVars, changeVars, replayVars,
                      evidenceVars, ingestVars>>
    \/ /\ focus = "feed" /\ FeedNext
       /\ UNCHANGED <<focus, schemaVars, lifecycleVars, incidentVars, ebpfVars,
                      ringVars, autonomyVars, fabricVars, changeVars, replayVars,
                      evidenceVars, ingestVars>>
    \/ /\ focus = "fabric" /\ FabricNext
       /\ UNCHANGED <<focus, schemaVars, lifecycleVars, incidentVars, ebpfVars,
                      ringVars, autonomyVars, feedVars, changeVars, replayVars,
                      evidenceVars, ingestVars>>
    \/ /\ focus = "change" /\ ChangeNext
       /\ UNCHANGED <<focus, schemaVars, lifecycleVars, incidentVars, ebpfVars,
                      ringVars, autonomyVars, feedVars, fabricVars, replayVars,
                      evidenceVars, ingestVars>>
    \/ /\ focus = "replay" /\ ReplayNext
       /\ UNCHANGED <<focus, schemaVars, lifecycleVars, incidentVars, ebpfVars,
                      ringVars, autonomyVars, feedVars, fabricVars, changeVars,
                      evidenceVars, ingestVars>>
    \/ /\ focus = "evidence" /\ EvidenceNext
       /\ UNCHANGED <<focus, schemaVars, lifecycleVars, incidentVars, ebpfVars,
                      ringVars, autonomyVars, feedVars, fabricVars, changeVars,
                      replayVars, ingestVars>>
    \/ /\ focus = "ingest" /\ IngestNext
       /\ UNCHANGED <<focus, schemaVars, lifecycleVars, incidentVars, ebpfVars,
                      ringVars, autonomyVars, feedVars, fabricVars, changeVars,
                      replayVars, evidenceVars>>

Spec == Init /\ [][Next]_<<focus, servicesVars>>

\* No step of a service takes back what it has recorded or decided: the schema
\* registry keeps what it learned of a path, a kind with an active configuration
\* keeps having one, and stored incident evidence stays as it is.
ServicesNeverRegress ==
    [][RegistryAccumulates /\ NeverUnconfigured /\ EvidenceKept]_<<focus, servicesVars>>
=============================================================================
