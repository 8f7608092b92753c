---------------------------- MODULE MeshRouting ----------------------------
(***************************************************************************)
(* The routing mesh as one edge sees it (internal/mesh): the manager that  *)
(* probes the peers and ranks candidates (manager.go), the publisher that  *)
(* delivers a replay batch through them (publisher.go) and the handler of  *)
(* the peers (http.go), whose downstream is their own Kafka publisher.     *)
(*                                                                         *)
(* A node is ok, or has no brokers it can ping (not ready), or is at its   *)
(* pressure limit or draining (busy: it still takes what it is sent), or   *)
(* pings its brokers and cannot produce, or is down.  The local edge is    *)
(* never down.  The state of a node travels in a probe's answer and is     *)
(* applied later.                                                          *)
(***************************************************************************)
EXTENDS Integers, FiniteSets, Sequences, SequencesExt

CONSTANTS
    Nodes, Local,   \* edges, and the one that publishes
    Domain,         \* node -> [cloud, region, zone]
    Policy,         \* "locality" or "global"
    Score,          \* key -> node -> the rendezvous score of candidateFor
    Key,            \* the records of the WAL in order: their route keys (routeKey)
    MaxChanges,     \* bound: changes of a node's condition
    MaxLost         \* bound: answers lost after the work was done

VARIABLES
    node,        \* the condition of each node
    view,        \* peer -> PeerStatus: what was advertised, is it fresh, Healthy
    probe,       \* peer -> "none", or the answer on its way to recordProbe
    job,         \* where PublishBatch is
    result,      \* item -> "pending", "ok" or "error"
    produced,    \* pairs <<item, node>>: node's Kafka has the item
    repeated,    \* history: items handed over again after they were delivered
    changes, lost

vars == <<node, view, probe, job, result, produced, repeated, changes, lost>>
world == <<node, changes>>
manager == <<view, probe>>
delivery == <<job, result, produced, repeated, lost>>

Items == DOMAIN Key
Peers == Nodes \ {Local}
Conditions == {"ok", "busy", "notready", "noproduce", "down"}
Produces(n) == node[n] \in {"ok", "busy"}

Idle == [pc |-> "idle", todo |-> <<>>, allLocal |-> TRUE, candidates |-> <<>>]

ASSUME MeshAssumption ==
    /\ Local \in Nodes /\ Policy \in {"locality", "global"}
    /\ \A k \in DOMAIN Score : \A a, b \in Nodes : Score[k][a] = Score[k][b] => a = b

Init ==
    /\ node \in [Nodes -> {"ok", "noproduce"}]
    /\ view = [p \in Peers |-> [advert |-> "none", fresh |-> FALSE, healthy |-> FALSE]]
    /\ probe = [p \in Peers |-> "none"]
    /\ job = Idle
    /\ result = [i \in Items |-> "pending"]
    /\ produced = {} /\ repeated = {} /\ changes = 0 /\ lost = 0

-----------------------------------------------------------------------------
(* The manager: ranking.                                                   *)

localityTier(local, remote) ==
    IF local = remote THEN 0
    ELSE IF local.cloud = remote.cloud /\ local.region # "" /\ local.region = remote.region THEN 1
    ELSE IF local.cloud # "" /\ local.cloud = remote.cloud THEN 2
    ELSE 3

Locality(n) == IF Policy = "locality" THEN localityTier(Domain[Local], Domain[n]) ELSE 0

\* Ready, not draining and below the pressure limit, as far as this edge knows.
eligible(n) ==
    IF n = Local THEN node[n] \in {"ok", "noproduce"}
    ELSE view[n].advert \in {"ok", "noproduce"} /\ view[n].fresh /\ view[n].healthy

Eligible == {n \in Nodes : eligible(n)}

\* Mutation: the owner depends on how many nodes there are.
BeforeModulo(key, a, b) ==
    IF Cardinality(Eligible) = 2 THEN Score[key][a] < Score[key][b] ELSE Score[key][a] > Score[key][b]

Before(key, a, b) ==
    \/ Locality(a) < Locality(b)
    \/ Locality(a) = Locality(b) /\ Score[key][a] > Score[key][b]

\* Manager.Route: the candidates in order; none is ErrNoRoute.
Route(key) == SetToSortSeq(Eligible, LAMBDA a, b : Before(key, a, b))

\* The selected node of a route; Ready of the publisher asks whether one exists.
NoNode == "no route"
Selected(key) == IF Eligible = {} THEN NoNode ELSE Head(Route(key))

(* The manager: probes and reports.                                        *)

\* The peer answers, or does not.
ProbeAnswers(p) ==
    /\ probe[p] = "none"
    /\ probe' = [probe EXCEPT ![p] = IF node[p] = "down" THEN "error" ELSE node[p]]
    /\ UNCHANGED <<world, view, delivery>>

\* Mutation: a peer that failed once stays unhealthy.
ProbedStillUnhealthy(status, answer) ==
    IF answer = "error" THEN [status EXCEPT !.healthy = FALSE]
    ELSE [status EXCEPT !.advert = answer, !.fresh = TRUE]

Probed(status, answer) ==
    IF answer = "error" THEN [status EXCEPT !.healthy = FALSE]
    ELSE [advert |-> answer, fresh |-> TRUE, healthy |-> TRUE]

recordProbe(p) ==
    /\ probe[p] # "none"
    /\ view' = [view EXCEPT ![p] = Probed(@, probe[p])]
    /\ probe' = [probe EXCEPT ![p] = "none"]
    /\ UNCHANGED <<world, delivery>>

\* StaleAfter, several probe intervals, passes without an answer.
GoesStale(p) ==
    /\ view[p].fresh /\ node[p] = "down"
    /\ view' = [view EXCEPT ![p].fresh = FALSE]
    /\ UNCHANGED <<world, probe, delivery>>

\* ReportSuccess and ReportFailure: neither touches the advertised state.
Reported(n, healthy) ==
    IF n = Local THEN UNCHANGED view ELSE view' = [view EXCEPT ![n].healthy = healthy]

-----------------------------------------------------------------------------
(* The publisher.                                                          *)

InOrder(items) == SetToSortSeq(items, <)

\* The replay loop commits the records before the first that failed and hands
\* over the rest again, the delivered ones among them included; a single record
\* does not go through PublishBatch.
StartBatch ==
    LET items == {i \in Items : \E j \in 1..i : result[j] # "ok"} IN
    /\ job.pc = "idle" /\ items # {}
    /\ job' = [Idle EXCEPT !.pc = IF Cardinality(items) > 1 THEN "check" ELSE "publish",
                           !.todo = InOrder(items)]
    /\ result' = [i \in Items |-> IF i \in items THEN "pending" ELSE result[i]]
    /\ repeated' = repeated \cup {i \in items : result[i] = "ok"}
    /\ UNCHANGED <<world, manager, produced, lost>>

\* PublishBatch routes every item before it sends any.
CheckOwner ==
    LET i == Head(job.todo)
        selected == Selected(Key[i])
        allLocal == job.allLocal /\ selected = Local
        last == Len(job.todo) = 1
    IN
    /\ job.pc = "check"
    /\ result' = IF selected = NoNode THEN [result EXCEPT ![i] = "error"] ELSE result
    /\ job' = [job EXCEPT !.allLocal = allLocal,
                  !.pc = IF ~last THEN "check" ELSE IF allLocal THEN "batch" ELSE "publish",
                  !.todo = IF ~last THEN Tail(@)
                           ELSE InOrder({x \in Items : (allLocal \/ result'[x] = "pending") /\ result'[x] # "ok"})]
    /\ UNCHANGED <<world, manager, produced, repeated, lost>>

\* All owners are local: one call of the local Kafka publisher, whose results
\* are the results of the batch.  An answer may get lost.
LocalBatch ==
    /\ job.pc = "batch"
    /\ \E answered \in SUBSET Range(job.todo) :
          /\ Produces(Local) \/ answered = {}
          /\ lost' = IF Produces(Local) THEN lost + Cardinality(Range(job.todo) \ answered) ELSE lost
          /\ lost' <= MaxLost
          /\ result' = [i \in Items |-> IF i \in answered THEN "ok"
                                        ELSE IF i \in Range(job.todo) THEN "error" ELSE result[i]]
    /\ produced' = IF Produces(Local) THEN produced \cup (Range(job.todo) \X {Local}) ELSE produced
    /\ job' = Idle
    /\ UNCHANGED <<world, manager, repeated>>

Finished(j) == IF Len(j.todo) = 1 THEN Idle ELSE [j EXCEPT !.pc = "publish", !.todo = Tail(@), !.candidates = <<>>]

\* Publish asks for the route of the item at the head of the queue.
PublishRoutes ==
    /\ job.pc = "publish"
    /\ LET i == Head(job.todo) IN
       IF job.todo = <<>> THEN job' = Idle /\ UNCHANGED result
       ELSE IF Eligible = {}
       THEN job' = Finished(job) /\ result' = [result EXCEPT ![i] = "error"]
       ELSE /\ job' = [job EXCEPT !.pc = "try", !.candidates = Route(Key[i])]
            /\ UNCHANGED result
    /\ UNCHANGED <<world, manager, produced, repeated, lost>>

\* Mutation: any answer counts as success.
TrySucceedsOnAnyAnswer(i, n) ==
    /\ node[n] # "down"
    /\ result' = [result EXCEPT ![i] = "ok"]
    /\ job' = Finished(job)
    /\ produced' = IF Produces(n) THEN produced \cup {<<i, n>>} ELSE produced
    /\ Reported(n, TRUE)
    /\ UNCHANGED lost

\* The candidate's Kafka takes the item: the local publisher, or the forward
\* handler of the peer, which publishes to its own and never routes again.
TrySucceeds(i, n) ==
    /\ Produces(n)
    /\ result' = [result EXCEPT ![i] = "ok"]
    /\ job' = Finished(job)
    /\ produced' = produced \cup {<<i, n>>}
    /\ Reported(n, TRUE)
    /\ UNCHANGED lost

\* It fails, or it succeeds and the answer is lost: the next candidate is tried.
TryFails(i, n) ==
    /\ \/ ~Produces(n) /\ UNCHANGED <<produced, lost>>
       \/ Produces(n) /\ lost < MaxLost /\ lost' = lost + 1 /\ produced' = produced \cup {<<i, n>>}
    /\ IF Len(job.candidates) = 1
       THEN result' = [result EXCEPT ![i] = "error"] /\ job' = Finished(job)
       ELSE job' = [job EXCEPT !.candidates = Tail(@)] /\ UNCHANGED result
    /\ Reported(n, FALSE)

Try ==
    /\ job.pc = "try"
    /\ LET i == Head(job.todo)
           n == Head(job.candidates)
       IN TrySucceeds(i, n) \/ TryFails(i, n)
    /\ UNCHANGED <<world, probe, repeated>>

-----------------------------------------------------------------------------

\* A node's condition changes.
Change(n) ==
    /\ changes < MaxChanges
    /\ \E c \in Conditions : (n = Local => c # "down") /\ c # node[n] /\ node' = [node EXCEPT ![n] = c]
    /\ changes' = changes + 1
    /\ UNCHANGED <<manager, delivery>>

Publishing == StartBatch \/ CheckOwner \/ LocalBatch \/ PublishRoutes \/ Try

Next ==
    \/ Publishing
    \/ \E p \in Peers : ProbeAnswers(p) \/ recordProbe(p) \/ GoesStale(p)
    \/ \E n \in Nodes : Change(n)

Spec == Init /\ [][Next]_vars

\* The replay loop and the probe loop run for ever.
FairSpec ==
    /\ Spec
    /\ WF_vars(Publishing)
    /\ \A p \in Peers : WF_vars(ProbeAnswers(p)) /\ WF_vars(recordProbe(p))

-----------------------------------------------------------------------------
(* Properties.                                                             *)

\* Nodes, views, answers and results have their shapes, and the local edge does
\* not become its own peer.
TypeOK ==
    /\ node \in [Nodes -> Conditions]
    /\ view \in [Peers -> [advert : Conditions \cup {"none"}, fresh : BOOLEAN, healthy : BOOLEAN]]
    /\ probe \in [Peers -> Conditions \cup {"none", "error"}]
    /\ result \in [Items -> {"pending", "ok", "error"}]
    /\ job.pc \in {"idle", "check", "batch", "publish", "try"}
    /\ produced \subseteq Items \X Nodes

\* What PublishBatch reports delivered (and the edge then removes from its WAL)
\* is in the Kafka of some node.
AckMeansProduced ==
    \A i \in Items : result[i] = "ok" => \E n \in Nodes : <<i, n>> \in produced

\* "No application-level loop": failover produces an item at a second node only
\* when an answer was lost; other duplicates are the records the replay loop hands
\* over again because an earlier record of their batch failed.
DuplicatesExplained ==
    \A i \in Items \ repeated : Cardinality({n \in Nodes : <<i, n>> \in produced}) <= 1 + lost

\* Rendezvous ownership (docs/mesh/global-routing-mesh.md): a step moves the
\* ownership of a key only away from a node that is not eligible any more, or to
\* a node that has just become eligible; the other keys stay where they are.
StableOwnership ==
    [][\A key \in DOMAIN Score :
        Selected(key)' # Selected(key) =>
            Selected(key) \notin Eligible' \/ Selected(key)' \notin Eligible]_vars

\* Once some node works for good, and the local edge is not one that looks ready
\* and cannot produce, every item gets delivered.
FailoverDelivers ==
    <>[](Cardinality({n \in Nodes : node[n] = "ok"}) > 0 /\ node[Local] # "noproduce")
        => <>(\A i \in Items : result[i] = "ok")

\* What PublishBatch answers is what happened: produced when it says so, and
\* at one node unless an answer was lost.
ProducedAsReported ==
    /\ TypeOK
    /\ AckMeansProduced
    /\ DuplicatesExplained
=============================================================================
