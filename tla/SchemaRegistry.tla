--------------------------- MODULE SchemaRegistry ---------------------------
(***************************************************************************)
(* Schema intelligence: the description of an event (internal/schema) and  *)
(* the registry entry, drift findings and idempotency ledger that          *)
(* PostgresStore.ObserveSchema keeps for one source and event type         *)
(* (internal/storage/schema.go).                                           *)
(*                                                                         *)
(* A sample is an event as [version, url, raw]: raw lists its fields in    *)
(* the order Describe meets them (metric, tags, payload), each a record    *)
(* [path, type, depth, key]; depth is 0 outside the payload and 1 for the  *)
(* payload itself, key the semantic-convention name of the path.           *)
(***************************************************************************)
EXTENDS Integers, FiniteSets, SequencesExt

CONSTANTS
    Observers,            \* the workers that observe schemas
    Samples,              \* event |-> sample
    Paths,                \* the field paths, sorted
    LegacyKeys,           \* semantic names that have a replacement
    ExpectedType,         \* semantic name |-> type of its payload field
    MaxEventFields,       \* 512 in the code
    MaxPayloadDepth,      \* 5 in the code
    MaxRegistryFields,    \* 2048 in the code
    requiredSampleFloor,  \* 20 in the code
    requiredPercent,      \* 95 in the code
    MaxObservations       \* bound on the observations of a behaviour

VARIABLES
    ledger,    \* schema_observations: records [event, at]
    registry,  \* version |-> {} or its row of schema_registry
    drifts,    \* version |-> the drift findings of schema_drift_findings
    opened,    \* observer |-> {} or the transaction it began, [event, at]
    clock,     \* number of transactions begun: their times
    forgotten, \* version |-> observations pruned from the ledger
    present    \* history: version |-> path |-> observations that had the path

schemaVars == <<ledger, registry, drifts, opened, clock, forgotten, present>>

SchemaAssumption ==
    /\ MaxEventFields \in Nat \ {0} /\ MaxEventFields <= MaxRegistryFields
    /\ requiredSampleFloor \in Nat /\ requiredPercent \in 0..100

ASSUME SchemaAssumption

Versions == {Samples[e].version : e \in DOMAIN Samples}

-----------------------------------------------------------------------------
(***************************************************************************)
(* Describe.                                                               *)
(***************************************************************************)

Outermost(s, n) == SubSeq(s, 1, IF Len(s) < n THEN Len(s) ELSE n)

\* Metric fields and tags first, then the payload while there is room.
Described(sample) ==
    LET Flat(f) == f.depth = 0
        Shallow(f) == f.depth \in 1..(MaxPayloadDepth + 1)
        flat == Outermost(SelectSeq(sample.raw, Flat), MaxEventFields)
    IN flat \o Outermost(SelectSeq(sample.raw, Shallow), MaxEventFields - Len(flat))

\* Reaching the limit inside the payload counts as truncation, also when the
\* payload ends there; a payload that found no room at all does not.
Truncated(sample) ==
    LET Flat(f) == f.depth = 0
        flat == Len(SelectSeq(sample.raw, Flat))
    IN \/ flat > MaxEventFields
       \/ /\ flat < MaxEventFields /\ flat < Len(sample.raw)
          /\ \/ Len(Described(sample)) = MaxEventFields
             \/ \E k \in DOMAIN sample.raw : sample.raw[k].depth > MaxPayloadDepth + 1

semanticField(field) ==
    IF field.key \in LegacyKeys THEN {<<"warning", "legacy_semantic_attribute", field.path>>}
    ELSE IF /\ field.key \in DOMAIN ExpectedType /\ field.depth > 1
            /\ ExpectedType[field.key] # field.type
    THEN {<<"warning", "semantic_type_mismatch", field.path>>}
    ELSE {}

Describe(sample) ==
    LET fields == Described(sample)
        At(path) == CHOOSE k \in DOMAIN fields : fields[k].path = path
    IN [fields |-> [path \in {fields[k].path : k \in DOMAIN fields} |-> fields[At(path)].type],
        semantic |-> UNION {semanticField(fields[k]) : k \in DOMAIN fields},
        truncated |-> Truncated(sample), version |-> sample.version, url |-> sample.url]

-----------------------------------------------------------------------------
(***************************************************************************)
(* The registry entry of a version.                                        *)
(***************************************************************************)

Field(type) == [type |-> type, seen |-> 1, required |-> FALSE]

\* The drifts every observation reports from the description itself.
OwnDrifts(description) ==
    description.semantic
        \cup (IF description.truncated THEN {<<"warning", "schema_truncated", "">>} ELSE {})

healthFor(health, found) ==
    IF \E d \in found : d[1] = "breaking" THEN "breaking"
    ELSE IF health = "healthy" /\ \E d \in found : d[1] = "warning" THEN "warning"
    ELSE health

\* schema.Diff between the fields of two versions.
Diff(from, to) ==
    {<<IF from[p].required THEN "breaking" ELSE "warning", "version_field_removed", p>> :
        p \in (DOMAIN from) \ (DOMAIN to)}
    \cup {<<"breaking", "version_type_changed", p>> :
            p \in {q \in (DOMAIN from) \cap (DOMAIN to) : from[q].type # to[q].type}}
    \cup {<<"info", "version_field_added", p>> : p \in (DOMAIN to) \ (DOMAIN from)}

\* loadPreviousSchemaEntryTx: the version seen last.
PreviousVersions(version) ==
    LET others == {v \in Versions \ {version} : registry[v] # {}}
        LastSeen(v) == (CHOOSE entry \in registry[v] : TRUE).lastSeen
    IN {v \in others : \A u \in others : LastSeen(u) <= LastSeen(v)}

NewEntry(description, at) ==
    [fields |-> [p \in DOMAIN description.fields |-> Field(description.fields[p])],
     count |-> 1, url |-> description.url, lastSeen |-> at,
     health |-> IF OwnDrifts(description) = {} THEN "healthy" ELSE "warning"]

\* The new paths that still fit in the registry, in the order of the paths.
Accepted(entry, description) ==
    LET New(p) == p \in (DOMAIN description.fields) \ (DOMAIN entry.fields)
        new == SelectSeq(Paths, New)
        room == MaxRegistryFields - Cardinality(DOMAIN entry.fields)
    IN {new[k] : k \in 1..(IF Len(new) < room THEN Len(new) ELSE room)}

Precedes(p, q) ==
    \E i, j \in DOMAIN Paths : i < j /\ Paths[i] = p /\ Paths[j] = q

\* updateRegistryEntry counts through pointers into entry.Fields.  The first
\* append that has to move the array, here moved = {p} for the path p it
\* appended, leaves the pointers on the old one: the known paths that follow in
\* the same description are not counted.  Which append moves it, if any,
\* depends on the capacity the decoded row happens to have.
Reallocations(entry, description) == {{}} \cup {{p} : p \in Accepted(entry, description)}

Counts(entry, description, moved, p) ==
    p \in (DOMAIN description.fields) \cap (DOMAIN entry.fields) /\ \A q \in moved : Precedes(p, q)

Established(seen, count) ==
    count >= requiredSampleFloor /\ seen * 100 >= count * requiredPercent

\* The drifts of one more observation of a known version.
UpdateDrifts(entry, description) ==
    LET new == (DOMAIN description.fields) \ (DOMAIN entry.fields)
        accepted == Accepted(entry, description)
    IN {<<"info", "field_added", p>> : p \in accepted}
       \cup {<<"warning", "registry_field_limit", "">> : p \in new \ accepted}
       \cup {<<"breaking", "type_changed", p>> :
               p \in {q \in (DOMAIN description.fields) \cap (DOMAIN entry.fields) :
                         entry.fields[q].type # description.fields[q]}}
       \cup {<<"breaking", "required_field_missing", p>> :
               p \in {q \in (DOMAIN entry.fields) \ (DOMAIN description.fields) :
                         Established(entry.fields[q].seen, entry.count)}}
       \cup (IF entry.url # "" /\ description.url # "" /\ entry.url # description.url
             THEN {<<"warning", "schema_url_changed", "">>} ELSE {})
       \cup OwnDrifts(description)

\* The type of a field is the first one seen; its conflicts are drifts.
Updated(entry, description, moved, at) ==
    LET fields == (DOMAIN entry.fields) \cup Accepted(entry, description)
        Seen(p) == IF p \notin DOMAIN entry.fields THEN Field(description.fields[p])
                   ELSE IF Counts(entry, description, moved, p)
                   THEN [entry.fields[p] EXCEPT !.seen = @ + 1]
                   ELSE entry.fields[p]
    IN [fields |-> [p \in fields |->
            [Seen(p) EXCEPT !.required = Established(Seen(p).seen, entry.count + 1)]],
        count |-> entry.count + 1,
        url |-> IF description.url # "" THEN description.url ELSE entry.url,
        lastSeen |-> at,
        health |-> healthFor(entry.health, UpdateDrifts(entry, description))]

-----------------------------------------------------------------------------
(***************************************************************************)
(* Transactions.  The time of an observation is the start of its           *)
(* transaction; the advisory lock of the source and type makes the rest of *)
(* ObserveSchema one step.                                                 *)
(***************************************************************************)

SchemaInit ==
    /\ ledger = {} /\ clock = 0
    /\ registry = [v \in Versions |-> {}]
    /\ drifts = [v \in Versions |-> {}]
    /\ forgotten = [v \in Versions |-> 0]
    /\ present = [v \in Versions |-> [p \in ToSet(Paths) |-> 0]]
    /\ opened = [o \in Observers |-> {}]

BeginObservation(o, e) ==
    /\ opened[o] = {} /\ clock < MaxObservations
    /\ clock' = clock + 1
    /\ opened' = [opened EXCEPT ![o] = {[event |-> e, at |-> clock + 1]}]
    /\ UNCHANGED <<ledger, registry, drifts, forgotten, present>>

\* Mutation: the ledger is not asked.
ObservedNever(e) == FALSE

Observed(e) == \E o \in ledger : o.event = e

\* The first observation of a version.
Introduce(description, at) ==
    LET entry == NewEntry(description, at)
        found == OwnDrifts(description)
            \cup UNION {UNION {Diff(previous.fields, entry.fields) : previous \in registry[v]} :
                          v \in PreviousVersions(description.version)}
    IN /\ registry' = [registry EXCEPT
              ![description.version] = {[entry EXCEPT !.health = healthFor(@, found)]}]
       /\ drifts' = [drifts EXCEPT ![description.version] = @ \cup found]

Accumulate(description, at) ==
    \E entry \in registry[description.version] : \E moved \in Reallocations(entry, description) :
        /\ registry' = [registry EXCEPT
              ![description.version] = {Updated(entry, description, moved, at)}]
        /\ drifts' = [drifts EXCEPT
              ![description.version] = @ \cup UpdateDrifts(entry, description)]

ObserveSchema(o) ==
    \E tx \in opened[o] :
        LET description == Describe(Samples[tx.event]) IN
        /\ \/ /\ Observed(tx.event)
              /\ UNCHANGED <<ledger, registry, drifts, present>>
           \/ /\ ~Observed(tx.event)
              /\ ledger' = ledger \cup {tx}
              /\ present' = [present EXCEPT ![description.version] = [p \in DOMAIN @ |->
                    IF p \in DOMAIN description.fields THEN @[p] + 1 ELSE @[p]]]
              /\ IF registry[description.version] = {} THEN Introduce(description, tx.at)
                 ELSE Accumulate(description, tx.at)
        /\ opened' = [opened EXCEPT ![o] = {}]
        /\ UNCHANGED <<clock, forgotten>>

\* The transaction fails; the inspector fails open.
ObservationFails(o) ==
    /\ opened[o] # {} /\ opened' = [opened EXCEPT ![o] = {}]
    /\ UNCHANGED <<ledger, registry, drifts, clock, forgotten, present>>

PruneSchemaObservations(before) ==
    LET old == {o \in ledger : o.at < before} IN
    /\ old # {} /\ ledger' = ledger \ old
    /\ forgotten' = [v \in Versions |->
          forgotten[v] + Cardinality({o \in old : Samples[o.event].version = v})]
    /\ UNCHANGED <<registry, drifts, opened, clock, present>>

SchemaNext ==
    \/ \E o \in Observers :
          \/ \E e \in DOMAIN Samples : BeginObservation(o, e)
          \/ ObserveSchema(o) \/ ObservationFails(o)
    \/ \E before \in 1..MaxObservations : PruneSchemaObservations(before)

-----------------------------------------------------------------------------
(***************************************************************************)
(* Properties.                                                             *)
(***************************************************************************)

\* Redelivered events do not inflate the counts the required fields are
\* inferred from: a version counts what the ledger holds or held (the insert
\* ON CONFLICT DO NOTHING of ObserveSchema).
CountsExact ==
    \A v \in Versions : \A entry \in registry[v] :
        entry.count = forgotten[v]
            + Cardinality({e \in DOMAIN Samples : Samples[e].version = v /\ \E o \in ledger : o.event = e})

\* The health of a version and its drift findings, two tables, agree: breaking
\* if and only if a breaking finding is on record, healthy only without warnings
\* (healthFor and upsertSchemaDriftTx in one transaction).
HealthExplained ==
    \A v \in Versions : \A entry \in registry[v] :
        /\ (entry.health = "breaking") = (\E d \in drifts[v] : d[1] = "breaking")
        /\ entry.health = "healthy" => \A d \in drifts[v] : d[1] = "info"

\* A field is marked required only if it really was in requiredPercent of at
\* least requiredSampleFloor observations: updateRegistryEntry never counts a
\* field that was not there.  It may count too few, at most one for each path
\* added after the field's own, so that a field of a version whose paths are all
\* known from the start is counted exactly.
RequiredSupported ==
    \A v \in Versions : \A entry \in registry[v] : \A p \in DOMAIN entry.fields :
        LET field == entry.fields[p] IN
        /\ field.seen \in 1..present[v][p]
        /\ present[v][p] - field.seen < Cardinality(DOMAIN entry.fields)
        /\ field.required => Established(present[v][p], entry.count)
        /\ entry.count > 1 => field.required = Established(field.seen, entry.count)

\* What the registry learned stays: a path keeps the type it was first seen
\* with, and the health of a version never improves (updateRegistryEntry).
RegistryAccumulates ==
    \A v \in Versions : \A old \in registry[v], new \in registry'[v] :
        /\ \A p \in DOMAIN old.fields :
              p \in DOMAIN new.fields /\ new.fields[p].type = old.fields[p].type
        /\ old.health = "breaking" => new.health = "breaking"
        /\ new.health = "healthy" => old.health = "healthy"

\* The registry stays within its bound however many paths the events bring, and
\* says so when it refuses one (registry_field_limit).
FieldLimitReported ==
    \A v \in Versions : \A entry \in registry[v] :
        /\ Cardinality(DOMAIN entry.fields) <= MaxRegistryFields
        /\ (\E o \in ledger : /\ Samples[o.event].version = v
                              /\ ~(DOMAIN Describe(Samples[o.event]).fields
                                      \subseteq DOMAIN entry.fields)) =>
              <<"warning", "registry_field_limit", "">> \in drifts[v]

\* Entries, ledger and findings, three tables, agree after every observation:
\* counts, required fields, health and the field limit.
RegistryExact ==
    /\ CountsExact
    /\ RequiredSupported
    /\ HealthExplained
    /\ FieldLimitReported
=============================================================================
