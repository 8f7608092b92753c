----------------------------- MODULE Lifecycle -----------------------------
(***************************************************************************)
(* The configuration lifecycle (internal/lifecycle and                     *)
(* internal/storage/lifecycle.go): artifacts of one configuration kind     *)
(* move draft -> shadow -> approved -> scheduled -> active -> retired.      *)
(*                                                                         *)
(* Every operation of the store first reads the artifact outside any       *)
(* transaction, decides, and then writes; operations of different          *)
(* operators interleave between the two.  An activation has two further    *)
(* steps: the evidence gates, and the two statements of its transaction.   *)
(* The audit row of a call is an insert of its own after the commit, and a *)
(* call may end with an error, or with its process, before any step.       *)
(*                                                                         *)
(* due is the artifact's scheduled_for: "none" for NULL, "later" for a     *)
(* time still to come, "now" once it has passed.                           *)
(***************************************************************************)
EXTENDS Integers

CONSTANTS
    Artifacts,     \* the artifacts, all of one kind, with distinct digests
    Operators,     \* the people and services that call the store
    MaxOperations, \* bound on the operations begun
    MaxBreaks      \* bound on the calls that break off

VARIABLES
    artifacts,  \* artifact |-> {} or its row {[state, by, due]}
    approvals,  \* configuration_approvals: artifact |-> {} or {actor}
    evidence,   \* configuration_evidence: artifact |-> the results recorded
    audit,      \* configuration_audit: pairs <<action, artifact>>
    calls,      \* operator |-> {} or its call in progress
    begun,      \* number of operations begun
    rolledBack, \* the artifacts whose last activation was a rollback
    unaudited,  \* activations that were committed and will not be audited
    breaks      \* number of calls that broke off

lifecycleVars == <<artifacts, approvals, evidence, audit, calls, begun, rolledBack, unaudited, breaks>>

\* The row of an artifact that exists.
Row(a) == CHOOSE r \in artifacts[a] : TRUE

InState(a, S) == \E r \in artifacts[a] : r.state \in S

LifecycleActive == {a \in Artifacts : InState(a, {"active"})}

\* The states of the partial unique index on candidates.
Candidate == {"shadow", "approved", "scheduled"}

CanTransition(from, to) ==
    to \in CASE from = "draft" -> {"shadow", "retired"}
             [] from = "shadow" -> {"approved", "retired"}
             [] from = "approved" -> {"scheduled", "active", "retired"}
             [] from = "scheduled" -> {"active", "retired"}
             [] from = "active" -> {"retired"}
             [] from = "retired" -> {"active"}

\* The two partial unique indexes of migration 013 for one kind.
UniqueIndexes(rows) ==
    \A S \in {Candidate, {"active"}} : \A a, b \in Artifacts :
        (\E r \in rows[a] : r.state \in S) /\ (\E r \in rows[b] : r.state \in S) => a = b

\* The operations the audit names.
AuditActions == {"create", "evidence", "shadow", "schedule", "approve", "activate", "rollback", "retire"}

LifecycleInit ==
    /\ artifacts = [a \in Artifacts |-> {}]
    /\ approvals = [a \in Artifacts |-> {}]
    /\ evidence = [a \in Artifacts |-> {}]
    /\ audit = {}
    /\ calls = [o \in Operators |-> {}]
    /\ begun = 0
    /\ rolledBack = {} /\ unaudited = {} /\ breaks = 0

Idling(o) == calls[o] = {}

Begun == begun < MaxOperations /\ begun' = begun + 1

\* The call of operator o, when it is at step s.
CallAt(o, s) == {c \in calls[o] : c.step = s}

\* Operator o reads artifact a and, its checks passed, goes on with step s.
ReadArtifact(o, a, action, s) ==
    /\ Idling(o) /\ Begun
    /\ calls' = [calls EXCEPT ![o] =
                    {[action |-> action, id |-> a, step |-> s, victims |-> {}]}]
    /\ UNCHANGED <<artifacts, approvals, evidence, audit, rolledBack, unaudited, breaks>>

\* A call ends with an error and has changed nothing.
CallFails(o) ==
    /\ calls' = [calls EXCEPT ![o] = {}]
    /\ UNCHANGED <<artifacts, approvals, evidence, audit, begun, rolledBack, unaudited, breaks>>

\* The write of a call is committed; its audit row is written next.
Committed(o, c) ==
    /\ calls' = [calls EXCEPT ![o] = {[c EXCEPT !.step = "audit"]}]
    /\ UNCHANGED <<evidence, audit, begun>>

\* A row that one statement inserts; its audit row is written next.
Inserted(o, a, action) ==
    calls' = [calls EXCEPT ![o] = {[action |-> action, id |-> a, step |-> "audit", victims |-> {}]}]

-----------------------------------------------------------------------------

CreateLifecycleArtifact(o, a) ==
    /\ Idling(o) /\ Begun /\ artifacts[a] = {}
    /\ artifacts' = [artifacts EXCEPT ![a] = {[state |-> "draft", by |-> o, due |-> "none"]}]
    /\ Inserted(o, a, "create")
    /\ UNCHANGED <<approvals, evidence, audit, rolledBack, unaudited, breaks>>

\* transitionLifecycle: a guarded update after the read.
TransitionStates(action) ==
    IF action = "shadow" THEN [from |-> "draft", to |-> "shadow", due |-> "none"]
    ELSE [from |-> "approved", to |-> "scheduled", due |-> "later"]

SetLifecycleShadow(o, a) ==
    /\ InState(a, {"draft"}) /\ CanTransition("draft", "shadow")
    /\ ReadArtifact(o, a, "shadow", "update")

ScheduleLifecycle(o, a) ==
    /\ InState(a, {"approved"}) /\ CanTransition("approved", "scheduled")
    /\ ReadArtifact(o, a, "schedule", "update")

transitionLifecycle(o) ==
    \E c \in CallAt(o, "update") :
        LET t == TransitionStates(c.action)
            rows == [artifacts EXCEPT ![c.id] =
                        {[r EXCEPT !.state = t.to, !.due = t.due] : r \in @}]
        IN IF InState(c.id, {t.from}) /\ UniqueIndexes(rows)
           THEN artifacts' = rows /\ Committed(o, c) /\ UNCHANGED <<approvals, rolledBack, unaudited, breaks>>
           ELSE CallFails(o)

ApproveLifecycle(o, a) ==
    /\ InState(a, {"shadow"}) /\ Row(a).by # o
    /\ ReadArtifact(o, a, "approve", "approve")

\* The approval is recorded also when the artifact has left the shadow state.
RecordApproval(o) ==
    \E c \in CallAt(o, "approve") :
        /\ approvals' = [approvals EXCEPT ![c.id] = {o}]
        /\ artifacts' = [artifacts EXCEPT ![c.id] =
                {IF r.state = "shadow" THEN [r EXCEPT !.state = "approved"] ELSE r : r \in @}]
        /\ Committed(o, c) /\ UNCHANGED <<rolledBack, unaudited, breaks>>

AddLifecycleEvidence(o, a, result) ==
    /\ Idling(o) /\ Begun /\ artifacts[a] # {}
    /\ evidence' = [evidence EXCEPT ![a] = @ \cup {result}]
    /\ Inserted(o, a, "evidence")
    /\ UNCHANGED <<artifacts, approvals, audit, rolledBack, unaudited, breaks>>

-----------------------------------------------------------------------------
(***************************************************************************)
(* Activation, rollback and retirement.                                    *)
(***************************************************************************)

ActivateLifecycle(o, a) ==
    /\ InState(a, {"approved", "scheduled"}) /\ Row(a).due # "later"
    /\ ReadArtifact(o, a, "activate", "gates")

\* The scheduler's form of the same call, for the artifact that is due.
ActivateDueLifecycle(o, a) ==
    /\ InState(a, {"scheduled"}) /\ Row(a).due = "now"
    /\ ReadArtifact(o, a, "activate", "gates")

RollbackLifecycle(o, a) ==
    InState(a, {"retired"}) /\ ReadArtifact(o, a, "rollback", "retire")

GatesPassed(a) == approvals[a] # {} /\ "fail" \notin evidence[a] /\ evidence[a] # {}

\* Mutation: an activation that was approved needs no evidence.
GatesApproval(o) ==
    \E c \in CallAt(o, "gates") :
        IF approvals[c.id] = {} THEN CallFails(o)
        ELSE /\ calls' = [calls EXCEPT ![o] = {[c EXCEPT !.step = "retire"]}]
             /\ UNCHANGED <<artifacts, approvals, evidence, audit, begun, rolledBack, unaudited, breaks>>

lifecycleActivationGates(o) ==
    \E c \in CallAt(o, "gates") :
        IF ~GatesPassed(c.id) THEN CallFails(o)
        ELSE /\ calls' = [calls EXCEPT ![o] = {[c EXCEPT !.step = "retire"]}]
             /\ UNCHANGED <<artifacts, approvals, evidence, audit, begun, rolledBack, unaudited, breaks>>

RetireRows(rows, S) ==
    [a \in Artifacts |-> IF a \in S THEN {[r EXCEPT !.state = "retired"] : r \in rows[a]}
                         ELSE rows[a]]

\* Mutation: the retirement is committed on its own.
RetireActiveAlone(o) ==
    \E c \in CallAt(o, "retire") :
        /\ artifacts' = RetireRows(artifacts, LifecycleActive)
        /\ calls' = [calls EXCEPT ![o] = {[c EXCEPT !.step = "activate"]}]
        /\ UNCHANGED <<approvals, evidence, audit, begun, rolledBack, unaudited, breaks>>

\* First statement of the transaction: it selects the active artifacts.
RetireActive(o) ==
    \E c \in CallAt(o, "retire") :
        /\ calls' = [calls EXCEPT ![o] =
                        {[c EXCEPT !.step = "activate", !.victims = LifecycleActive]}]
        /\ UNCHANGED <<artifacts, approvals, evidence, audit, begun, rolledBack, unaudited, breaks>>

\* Second statement and commit.  An artifact activated in between is not among
\* those retired, and the unique index refuses the transaction.
activateLifecycle(o) ==
    \E c \in CallAt(o, "activate") :
        LET retired == RetireRows(artifacts, c.victims \cap LifecycleActive)
            rows == [retired EXCEPT ![c.id] =
                        {[r EXCEPT !.state = "active", !.due = "none"] : r \in @}]
        IN IF UniqueIndexes(rows)
           THEN /\ artifacts' = rows
                /\ rolledBack' = IF c.action = "rollback" THEN rolledBack \cup {c.id}
                                 ELSE rolledBack \ {c.id}
                /\ unaudited' = unaudited \ {<<c.action, c.id>>}
                /\ Committed(o, c) /\ UNCHANGED <<approvals, breaks>>
           ELSE CallFails(o)

RetireLifecycle(o, a) ==
    /\ artifacts[a] # {} /\ ~InState(a, {"retired"})
    /\ ReadArtifact(o, a, "retire", "retirement")

\* Unconditional: whatever state the artifact has reached by now.
Retirement(o) ==
    \E c \in CallAt(o, "retirement") :
        /\ artifacts' = [artifacts EXCEPT ![c.id] =
                            {[r EXCEPT !.state = "retired", !.due = "none"] : r \in @}]
        /\ Committed(o, c) /\ UNCHANGED <<approvals, rolledBack, unaudited, breaks>>

\* The insert of the audit row, after the commit.
auditLifecycle(o) ==
    \E c \in CallAt(o, "audit") :
        /\ audit' = audit \cup {<<c.action, c.id>>}
        /\ calls' = [calls EXCEPT ![o] = {}]
        /\ UNCHANGED <<artifacts, approvals, evidence, begun, rolledBack, unaudited, breaks>>

\* The next statement of a call fails, or its process ends.  A transaction is
\* rolled back; a commit stays, also when its audit row was still to come, and
\* create and evidence report success without that row.
CallBreaks(o) ==
    \E c \in calls[o] :
        /\ breaks < MaxBreaks /\ breaks' = breaks + 1
        /\ calls' = [calls EXCEPT ![o] = {}]
        /\ unaudited' = IF c.step = "audit" /\ c.action \in {"activate", "rollback"}
                        THEN unaudited \cup {<<c.action, c.id>>} ELSE unaudited
        /\ UNCHANGED <<artifacts, approvals, evidence, audit, begun, rolledBack>>

\* The time of a scheduled activation comes.
TimeComes(a) ==
    /\ \E r \in artifacts[a] : r.due = "later"
    /\ artifacts' = [artifacts EXCEPT ![a] = {[r EXCEPT !.due = "now"] : r \in @}]
    /\ UNCHANGED <<approvals, evidence, audit, calls, begun, rolledBack, unaudited, breaks>>

LifecycleNext ==
    \/ \E o \in Operators, a \in Artifacts :
        \/ CreateLifecycleArtifact(o, a) \/ SetLifecycleShadow(o, a)
        \/ ApproveLifecycle(o, a) \/ ScheduleLifecycle(o, a)
        \/ \E result \in {"pass", "waived", "fail"} : AddLifecycleEvidence(o, a, result)
        \/ ActivateLifecycle(o, a) \/ ActivateDueLifecycle(o, a)
        \/ RollbackLifecycle(o, a) \/ RetireLifecycle(o, a)
    \/ \E o \in Operators :
        \/ transitionLifecycle(o) \/ RecordApproval(o) \/ lifecycleActivationGates(o)
        \/ RetireActive(o) \/ activateLifecycle(o) \/ Retirement(o)
        \/ auditLifecycle(o) \/ CallBreaks(o)
    \/ \E a \in Artifacts : TimeComes(a)

-----------------------------------------------------------------------------

\* At any moment at most one artifact of the kind is active and at most one is
\* a candidate, whatever activations, rollbacks and schedules overlap, so
\* ManagedLifecycleConfig is never ambiguous about what a service must load.
OneConfiguration ==
    \A a, b \in Artifacts :
        /\ InState(a, {"active"}) /\ InState(b, {"active"}) => a = b
        /\ InState(a, Candidate) /\ InState(b, Candidate) => a = b

\* An artifact that waits for activation was approved by someone other than
\* its creator (ApproveLifecycle's refusal of self-approval survives races).
ApprovedByAnother ==
    \A a \in Artifacts : InState(a, {"approved", "scheduled"}) =>
        approvals[a] # {} /\ Row(a).by \notin approvals[a]

\* An artifact made active other than by a rollback has an approval and at
\* least one evidence result that lets it pass.
ActivationGated ==
    \A a \in LifecycleActive \ rolledBack :
        approvals[a] # {} /\ evidence[a] \cap {"pass", "waived"} # {}

\* Once a kind has an active configuration it keeps having one: only an
\* explicit RetireLifecycle of the active artifact leaves the services without.
NeverUnconfigured ==
    LifecycleActive # {} /\ LifecycleActive' = {} =>
        \E o \in Operators : \E c \in CallAt(o, "retirement") :
            c.id \in LifecycleActive /\ calls'[o] # calls[o]

\* Every artifact in use has its activation or rollback in the audit, unless the
\* call that made it active has yet to write the entry, or ended with an error or
\* with its process between the commit and the entry.
ActivationAudited ==
    \A a \in LifecycleActive :
        LET entry == <<IF a \in rolledBack THEN "rollback" ELSE "activate", a>>
        IN \/ entry \in audit \cup unaudited
           \/ \E o \in Operators : \E c \in CallAt(o, "audit") : entry = <<c.action, c.id>>

\* The audit claims nothing that did not happen: what it names exists, an
\* approval and an evidence result it reports are on record, and an activation
\* it reports had its approval and a result that lets it pass.
AuditTrue ==
    \A a \in Artifacts :
        /\ (\E action \in AuditActions : <<action, a>> \in audit) => artifacts[a] # {}
        /\ <<"approve", a>> \in audit => approvals[a] # {}
        /\ <<"evidence", a>> \in audit => evidence[a] # {}
        /\ <<"activate", a>> \in audit =>
              approvals[a] # {} /\ evidence[a] \cap {"pass", "waived"} # {}

\* The configuration in use is one, was approved by another person and passed
\* its gates, and the audit misses an activation only where a call broke off and
\* reports none that did not happen, although checks, transactions and audit
\* entries of overlapping and failing calls are separate steps.
ConfigurationGoverned ==
    /\ OneConfiguration
    /\ ApprovedByAnother
    /\ ActivationGated
    /\ ActivationAudited
    /\ AuditTrue
=============================================================================
