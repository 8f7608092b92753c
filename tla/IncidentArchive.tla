-------------------------- MODULE IncidentArchive --------------------------
(***************************************************************************)
(* Portable incidents (internal/storage/flightrecorder.go,                 *)
(* internal/incidentarchive and internal/storage/incident_archive.go): an  *)
(* incident is frozen out of the flight recorder, and again, exported to a *)
(* file, the file travels, and it is imported, possibly under another name *)
(* or into another tenant.                                                 *)
(*                                                                         *)
(* A row of incident_events is [event, captured, at, body], at the event's *)
(* time and body its tenant, source and tags; one event may have been      *)
(* captured twice.  A file is [manifest, members], members the contents    *)
(* under their names; a digest stands for the content it was taken of.     *)
(* The optional encryption of a whole file is outside the model.           *)
(***************************************************************************)
EXTENDS Integers, SequencesExt

CONSTANTS
    Places,           \* where incidents are kept: records [tenant, name]
    FlightRecorder,   \* flight_recorder_events: the rows still retained
    CaptureWindows,   \* the --from and --to of a freeze, <<from, to>>
    MaxArchiveEvents, \* the --max-events of an export
    MaxFreezes,       \* bound on the freezes
    MaxArchives       \* bound on the files written

VARIABLES
    vault,      \* [tenant, name] |-> {} or {the set of its rows}
    imports,    \* incident_archive_imports: [tenant, archive, name], and the file
    archives,   \* the files, as they were written
    exported,   \* file |-> the records it was written with
    freezes     \* number of freezes

archiveVars == <<vault, imports, archives, exported, freezes>>

ArchiveInit ==
    /\ vault = [p \in Places |-> {}] /\ freezes = 0
    /\ imports = {} /\ archives = <<>> /\ exported = <<>>

RowsOf(p) == UNION vault[p]

\* SELECT DISTINCT ON (event_id) ... ORDER BY event_id, captured_at
FirstCaptured(rows) ==
    {r \in rows : \A q \in rows : q.event = r.event => r.captured <= q.captured}

RecordedBy(tenant) == {r \in FlightRecorder : r.body.tenant = tenant}

\* incident freeze, FreezeIncident: create the incident or take the one that is
\* there, and add the first copy of every event in the window.  ON CONFLICT DO
\* NOTHING leaves a row alone that has the event and the capture time already.
incidentFreeze(p, window) ==
    LET captured == {r \in RecordedBy(p.tenant) : r.captured \in window[1]..window[2]}
        Present(r) == \E q \in RowsOf(p) : q.event = r.event /\ q.captured = r.captured
    IN /\ freezes < MaxFreezes /\ freezes' = freezes + 1
       /\ vault' = [vault EXCEPT
             ![p] = {RowsOf(p) \cup {r \in FirstCaptured(captured) : ~Present(r)}}]
       /\ UNCHANGED <<imports, archives, exported>>

\* ORDER BY event_time, event_id
InEventOrder(rows) ==
    SetToSortSeq(rows, LAMBDA r, q : r.at < q.at \/ (r.at = q.at /\ r.event < q.event))

Limited(s, n) == SubSeq(s, 1, IF n < Len(s) THEN n ELSE Len(s))

IncidentArchiveData(p) == Limited(InEventOrder(FirstCaptured(RowsOf(p))), MaxArchiveEvents)

\* validateBundle
ValidBundle(tenant, records) ==
    records # <<>> /\ \A i \in DOMAIN records : records[i].body.tenant = tenant

buildEntries(p, records) == [metadata |-> p.name, events |-> records]

\* incident export: BuildFromSource and WriteFile.
WriteArchive(p) ==
    LET records == IncidentArchiveData(p)
        entries == buildEntries(p, records)
    IN /\ Len(archives) < MaxArchives
       /\ ValidBundle(p.tenant, records)
       /\ archives' = Append(archives,
             [manifest |-> [archive |-> Len(archives) + 1, tenant |-> p.tenant, name |-> p.name,
                            count |-> Len(records), entries |-> entries],
              members |-> entries])
       /\ exported' = Append(exported, records)
       /\ UNCHANGED <<vault, imports, freezes>>

\* What the members, or their digests, may become on the way: one is lost, the
\* events are cut short, or their last line repeats the first.
Altered(members) ==
    {[m \in DOMAIN members \ {lost} |-> members[m]] : lost \in DOMAIN members}
        \cup {[members EXCEPT !.events = Front(@)]}
        \cup {[members EXCEPT !.events[Len(members.events)] = Head(members.events)]}

\* What the manifest may become; 0 is an ID no archive was written with.
AlteredManifest(manifest) ==
    {[manifest EXCEPT !.archive = 0]}
        \cup {[manifest EXCEPT !.tenant = p.tenant] : p \in Places}
        \cup {[manifest EXCEPT !.name = p.name] : p \in Places}
        \cup {[manifest EXCEPT !.count = @ - 1]}
        \cup {[manifest EXCEPT !.entries = e] : e \in Altered(manifest.entries)}

\* The copies of a file that arrive: intact, or damaged in the members or in the
\* manifest.  A member that is replaced together with its digest makes another
\* valid archive, which only the encryption of the file would tell.
Copies(file) ==
    {file}
        \cup {[file EXCEPT !.members = m] : m \in Altered(file.members)}
        \cup {[file EXCEPT !.manifest = m] : m \in AlteredManifest(file.manifest)}

\* validateManifest: every member listed, with its digest, and none missing.
validateManifest(file) ==
    /\ DOMAIN file.members = DOMAIN file.manifest.entries
    /\ \A m \in DOMAIN file.members : file.members[m] = file.manifest.entries[m]

\* Read.
Readable(file) ==
    /\ validateManifest(file)
    /\ file.members.metadata = file.manifest.name
    /\ Len(file.members.events) = file.manifest.count
    /\ ValidBundle(file.manifest.tenant, file.members.events)

NormalizeImportedEvents(records, tenant) ==
    [i \in DOMAIN records |-> [records[i] EXCEPT !.body.tenant = tenant]]

\* The provenance insert is refused when the archive was imported before.
Recorded(tenant, archive) ==
    \A i \in imports : i.tenant = tenant => i.archive # archive

\* INSERT INTO incidents ... ON CONFLICT DO NOTHING must insert.
Unoccupied(p) == vault[p] = {}

\* incident import of the copy at hand into place p, one transaction.  A tenant
\* other than the archive's needs --allow-tenant-remap, which is p's choice here.
ImportArchive(i, p) ==
    \E file \in Copies(archives[i]) :
        LET archive == file.manifest.archive
            records == NormalizeImportedEvents(file.members.events, p.tenant)
        IN /\ Readable(file) /\ Unoccupied(p) /\ Recorded(p.tenant, archive)
           /\ vault' = [vault EXCEPT ![p] = {ToSet(records)}]
           /\ imports' = imports
                 \cup {[tenant |-> p.tenant, archive |-> archive, name |-> p.name, file |-> i]}
           /\ UNCHANGED <<archives, exported, freezes>>

ArchiveNext ==
    \/ \E p \in Places :
          WriteArchive(p) \/ \E window \in CaptureWindows : incidentFreeze(p, window)
    \/ \E i \in DOMAIN archives, p \in Places : ImportArchive(i, p)

-----------------------------------------------------------------------------
\* The rows of the archive a file was written as, for an importing tenant.
Written(i, tenant) == ToSet(NormalizeImportedEvents(exported[i], tenant))

\* An incident that was imported holds every event its archive was written with,
\* under the importing tenant, also when copies of the file arrive damaged in
\* their members or their manifest, and besides them only what a later freeze
\* took from the tenant's own flight recorder.  Nothing is imported twice into
\* one incident.
ImportedIntact ==
    \A i \in imports :
        LET p == [tenant |-> i.tenant, name |-> i.name]
        IN /\ Written(i.file, i.tenant) \subseteq RowsOf(p)
           /\ RowsOf(p) \ Written(i.file, i.tenant) \subseteq RecordedBy(i.tenant)
           /\ \A j \in imports :
                 j.tenant = i.tenant /\ j.name = i.name => j = i

\* Evidence in the store stays: the copy of an event that replays and exports of
\* an incident read is never lost, and gives way only to a copy captured earlier
\* (FreezeIncident and ImportIncidentArchive on an incident that exists).
EvidenceKept ==
    \A p \in Places : \A r \in FirstCaptured(RowsOf(p)) :
        \E q \in FirstCaptured(UNION vault'[p]) :
            q.event = r.event /\ (q = r \/ q.captured < r.captured)

=============================================================================
