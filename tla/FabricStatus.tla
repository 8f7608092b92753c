---------------------------- MODULE FabricStatus ----------------------------
(***************************************************************************)
(* The edge's fabric status (internal/fabric/model.go) as cmd/edge/main.go *)
(* gathers it: a request reads the parts of the edge one after another,    *)
(* with up to 1.5 s for each probe, while the parts change.  The snapshot  *)
(* is therefore no consistent cut of the edge; what it may still promise   *)
(* is stated at the end.                                                   *)
(*                                                                         *)
(* A part is what one read returns:                                        *)
(*   stats        the WAL's bytes, its limit, and the replay batch size    *)
(*   replication  replicationManager.Ready                                 *)
(*   delivery     meshPublisher.Ready                                      *)
(*   ebpf         whether the collector is active                          *)
(*   wal          walStore.Ready                                           *)
(***************************************************************************)
EXTENDS Integers, Sequences

CONSTANTS
    FabricSetups,     \* what the process was started with:
                      \* [mode, lineage, ebpfEnabled, ebpfRequired, batch]
    WALMaxBytes,
    MaxPartChanges    \* bound on the changes of the parts

ASSUME FabricAssumption ==
    /\ WALMaxBytes \in Nat
    /\ \A s \in FabricSetups :
          s.lineage \in BOOLEAN /\ s.ebpfEnabled \in BOOLEAN /\ s.ebpfRequired \in BOOLEAN

VARIABLES
    setup,        \* the configuration of this process
    parts,        \* part |-> its present value
    reading,      \* {} or the request being served: what it has read so far
    status,       \* {} or the last snapshot returned
    during,       \* the values of all parts at some moment of that request
    partChanges   \* number of changes so far

fabricVars == <<setup, parts, reading, status, during, partChanges>>

\* The order in which fabricStatus reads them.
ReadOrder == <<"stats", "replication", "delivery", "ebpf", "wal">>

PartValues == [stats : 0..WALMaxBytes, replication : BOOLEAN, delivery : BOOLEAN,
               ebpf : BOOLEAN, wal : BOOLEAN]

boolState(ok) == IF ok THEN "ready" ELSE "not_ready"

degradedState(ok) == IF ok THEN "ready" ELSE "degraded"

optionalState(disabled, active) == degradedState(disabled \/ active)

WALAccepts(p) == p.wal /\ WALMaxBytes > 0 /\ p.stats < WALMaxBytes

ReplicationReady(p) == setup.mode = "local" \/ p.replication

EBPFReady(p) == setup.ebpfRequired => setup.ebpfEnabled /\ p.ebpf

FastPathReady == setup.batch > 0 /\ setup.batch <= 1024

\* Mutation: a required collector is treated like an optional one.
AcceptanceReadyWithoutEBPF(p) == WALAccepts(p) /\ ReplicationReady(p) /\ setup.lineage

AcceptanceReady(p) ==
    WALAccepts(p) /\ ReplicationReady(p) /\ setup.lineage /\ EBPFReady(p)

\* Evaluate.
EvaluateFabric(p) ==
    [state |-> IF ~AcceptanceReady(p) THEN "not_ready"
               ELSE IF ~p.delivery \/ (setup.ebpfEnabled /\ ~p.ebpf) \/ ~FastPathReady
                    THEN "degraded" ELSE "ready",
     acceptance |-> AcceptanceReady(p), delivery |-> p.delivery, audit |-> setup.lineage,
     capabilities |->
        <<[name |-> "durable-acceptance", state |-> boolState(WALAccepts(p))],
          [name |-> "replicated-durability", state |-> boolState(ReplicationReady(p))],
          [name |-> "global-routing", state |-> degradedState(p.delivery)],
          [name |-> "cryptographic-lineage", state |-> boolState(setup.lineage)],
          [name |-> "fast-path", state |-> degradedState(FastPathReady)],
          [name |-> "ebpf-collection", state |-> optionalState(~setup.ebpfEnabled, p.ebpf)]>>]

\* Snapshot.Validate.
ValidSnapshot(s) ==
    /\ s.state = "ready" => s.acceptance /\ s.delivery /\ s.audit
    /\ s.state = "not_ready" => ~s.acceptance
    /\ Len(s.capabilities) >= 6

\* main refuses a collector that is required but disabled, and one that is
\* required but does not attach.
FabricInit ==
    /\ setup \in {s \in FabricSetups : s.ebpfRequired => s.ebpfEnabled}
    /\ \E active \in BOOLEAN :
          /\ setup.ebpfRequired => active
          /\ active => setup.ebpfEnabled
          /\ parts = [stats |-> 0, replication |-> TRUE, delivery |-> TRUE,
                      ebpf |-> active, wal |-> TRUE]
    /\ reading = {} /\ status = {} /\ during = {} /\ partChanges = 0

\* A part of the edge changes: the WAL fills or drains, a quorum or a path is
\* lost or regained, the collector stops.
PartChanges ==
    /\ partChanges < MaxPartChanges /\ partChanges' = partChanges + 1
    /\ \E part \in DOMAIN parts, p \in PartValues :
          /\ p[part] # parts[part] /\ (part = "ebpf" => parts.ebpf)
          /\ parts' = [parts EXCEPT ![part] = p[part]]
    /\ during' = IF reading = {} THEN during ELSE during \cup {parts'}
    /\ UNCHANGED <<setup, reading, status>>

BeginStatus ==
    /\ reading = {}
    /\ reading' = {<<>>} /\ during' = {parts} /\ status' = {}
    /\ UNCHANGED <<setup, parts, partChanges>>

ReadPart ==
    \E read \in reading :
        /\ Len(read) < Len(ReadOrder)
        /\ reading' = {Append(read, parts[ReadOrder[Len(read) + 1]])}
        /\ UNCHANGED <<setup, parts, status, during, partChanges>>

\* What the request has put together.
Gathered(read) ==
    [part \in DOMAIN parts |-> read[CHOOSE i \in DOMAIN ReadOrder : ReadOrder[i] = part]]

ReturnStatus ==
    \E read \in reading :
        /\ Len(read) = Len(ReadOrder)
        /\ status' = {EvaluateFabric(Gathered(read))} /\ reading' = {}
        /\ UNCHANGED <<setup, parts, during, partChanges>>

FabricNext == PartChanges \/ BeginStatus \/ ReadPart \/ ReturnStatus

-----------------------------------------------------------------------------
\* A snapshot never contradicts itself, and each of its verdicts has a witness
\* among the states the edge was in while the request was served: the edge that
\* is "ready" had a writable WAL, a quorum, a lineage key, a required collector
\* and a delivery path at some moment each, and the edge that is "not_ready"
\* was missing one of those an acknowledgement needs.
StatusWitnessed ==
    \A s \in status :
        /\ ValidSnapshot(s)
        /\ s.state = "ready" =>
              /\ \E p \in during : p.wal
              /\ \E p \in during : p.stats < WALMaxBytes
              /\ setup.mode # "local" => \E p \in during : p.replication
              /\ \E p \in during : p.delivery
              /\ setup.lineage
              /\ setup.ebpfRequired => \E p \in during : p.ebpf
        /\ s.state = "not_ready" =>
              \/ \E p \in during : ~p.wal \/ p.stats = WALMaxBytes
              \/ setup.mode # "local" /\ \E p \in during : ~p.replication
              \/ ~setup.lineage
              \/ setup.ebpfRequired /\ \E p \in during : ~p.ebpf
        /\ s.acceptance /\ setup.ebpfRequired => \E p \in during : p.ebpf
=============================================================================
