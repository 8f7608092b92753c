------------------------------ MODULE EdgeWAL ------------------------------
(***************************************************************************)
(* The edge write-ahead log (internal/wal/store.go): one Store over one    *)
(* directory of segment files, signed seals and a delivery checkpoint.     *)
(*                                                                         *)
(* Every method of Store holds its mutex from the first to the last line,  *)
(* so each is one action.  What can still interleave with a method is a    *)
(* crash or an I/O error in its middle: the *Interrupted actions stop the  *)
(* method after any prefix of its writes, either with the process dead or  *)
(* with the store latched as failed.                                       *)
(*                                                                         *)
(* A record hash is abstracted to the identity of the append attempt that  *)
(* produced it (hashes do not collide), a Merkle root to the sequence of   *)
(* its leaves, and a signature to nothing: the directory holds only what   *)
(* this store wrote.                                                       *)
(***************************************************************************)
EXTENDS Integers, Sequences, FiniteSetsExt

CONSTANTS
    Sources,             \* tenant/source keys of the events
    FrameSizes,          \* possible sizes of a frame (header and payload)
    SegmentHeaderBytes,  \* size of the magic at the start of a segment
    SegmentBytes,        \* Config.SegmentSizeBytes
    MaxBytes,            \* Config.MaxBytes
    InitialDirs,         \* directories the first Open may find: empty or v1
    Faults,              \* subset of FaultKinds: what may go wrong
    MaxAppends,          \* bound: append attempts in a behaviour
    MaxFaults            \* bound: faults in a behaviour

VARIABLES
    \* --- the directory ---
    files,            \* segment name (its first sequence) -> contents
    seals,            \* segment name -> signed seal
    checkpoint,       \* the checkpoint file
    \* --- Store, in memory ---
    phase,            \* "down" (no process or closed) or "up"
    count,            \* store.segments: segment name -> recordCount
    current,          \* name of the open segment, the last of store.segments, or NoFile
    startHash,        \* startPreviousHash of the last segment
    currentSize,
    totalBytes,
    nextSequence,
    sourceSequence,
    committed,
    failed,
    pressure,
    lastLineageHash,
    lastSegmentRoot,
    \* --- history ---
    accepted,         \* records Append returned without an error
    attempts,         \* append attempts so far, the source of record identities
    faults            \* faults so far

disk == <<files, seals, checkpoint>>
mem  == <<phase, count, current, startHash, currentSize, totalBytes,
          nextSequence, sourceSequence, committed, failed, pressure,
          lastLineageHash, lastSegmentRoot>>
vars == <<disk, mem, accepted, attempts, faults>>

-----------------------------------------------------------------------------
(* Records, segment files and seals. *)

LegacyVersion == 1
Version == 2
NoHash == 0
NoRoot == <<>>

Record == [seq : Nat \ {0}, src : Sources, srcSeq : Nat \ {0}, id : Nat \ {0},
           prev : Nat, end : Nat, version : {LegacyVersion, Version}]

\* hdr: the header is complete; recs: the complete frames; torn: a partial
\* frame follows them; synced: how much survives a power loss (0 nothing,
\* k + 1 the header and the first k frames).
File == [hdr : BOOLEAN, recs : Seq(Record), torn : BOOLEAN, synced : Nat]

Seal == [first : Nat \ {0}, last : Nat \ {0}, root : Seq(Nat \ {0}),
         prevRoot : Seq(Nat \ {0})]

\* kill: the process dies; io: a write or sync fails; power: the machine
\* dies; header: an interrupted createSegment may leave a partial header.
FaultKinds == {"kill", "io", "power", "header"}

LastOf(s) == s[Len(s)]
FileSize(f) == IF f.recs = <<>> THEN SegmentHeaderBytes ELSE LastOf(f.recs).end
Written(f) == IF f.hdr THEN Len(f.recs) + 1 ELSE 0
Synced(f) == [f EXCEPT !.synced = Written(f)]
NewFile == [hdr |-> TRUE, recs |-> <<>>, torn |-> FALSE, synced |-> 1]

\* The states createSegment can leave its file in when it is interrupted: an
\* empty or partial header, or a complete header that is not synced.
PartialNewFiles ==
    {[NewFile EXCEPT !.hdr = h, !.synced = 0] :
        h \in IF "header" \in Faults THEN BOOLEAN ELSE {TRUE}}

With(fcn, n, v) == [m \in DOMAIN fcn \cup {n} |-> IF m = n THEN v ELSE fcn[m]]
NoSegments == [n \in {} |-> 0]
NoFile == 0

\* Merkle leaves; the root is the sequence of the leaves.
Leaves(recs) == [i \in 1..Len(recs) |-> recs[i].id]

VerifyRecordChain(recs, start) ==
    \A i \in 1..Len(recs) : recs[i].version = Version =>
        recs[i].prev = IF i = 1 THEN start ELSE recs[i - 1].id

SealOf(recs, prevRoot) ==
    [first |-> recs[1].seq, last |-> LastOf(recs).seq,
     root |-> Leaves(recs), prevRoot |-> prevRoot]

verifySealAgainstRecords(seal, recs) ==
    /\ recs # <<>>
    /\ seal.first = recs[1].seq
    /\ seal.last = LastOf(recs).seq
    /\ seal.root = Leaves(recs)

-----------------------------------------------------------------------------
(* What the constants must satisfy. *)

\* Open rejects maxBytes < segmentBytes and Append a frame over one segment.
ASSUME SizesAssumption ==
    /\ SegmentHeaderBytes \in Nat \ {0}
    /\ FrameSizes \subseteq Nat \ {0}
    /\ SegmentBytes \in Nat
    /\ MaxBytes \in Nat
    /\ SegmentBytes <= MaxBytes

\* The source sequences rise with the edge sequence, and the checkpoint has
\* those of the committed records.
SourcesRise(fs, c) ==
    \A m, n \in DOMAIN fs :
        \A i \in 1..Len(fs[m].recs), j \in 1..Len(fs[n].recs) :
            LET r == fs[m].recs[i]
                q == fs[n].recs[j]
            IN  /\ r.src = q.src /\ r.seq < q.seq => r.srcSeq < q.srcSeq
                /\ r.seq <= c.committed => r.srcSeq <= c.source[r.src]

\* A directory the first Open finds: empty, or left by a v1 edge, whose
\* records carry no lineage and whose segments are not sealed.  Segments follow
\* each other without a gap, from the first one that is not committed.
IsInitialDir(d) ==
    LET size(n) == Len(d.files[n].recs) IN
    /\ DOMAIN d.files \subseteq Nat \ {0}
    /\ d.files \in [DOMAIN d.files -> File]
    /\ DOMAIN d.files = {} \/ \E n \in DOMAIN d.files : \A m \in DOMAIN d.files : m <= n
    /\ d.checkpoint \in [committed : Nat, source : [Sources -> Nat]]
    /\ d.attempts \in Nat
    /\ \A s \in Sources : d.checkpoint.source[s] <= d.attempts
    /\ \A n \in DOMAIN d.files :
          /\ d.files[n].hdr
          /\ d.files[n].synced = size(n) + 1
          /\ \A i \in 1..size(n) :
                /\ d.files[n].recs[i].version = LegacyVersion
                /\ d.files[n].recs[i].seq = n + i - 1
                /\ d.files[n].recs[i].srcSeq <= d.attempts
          /\ \/ n <= d.checkpoint.committed + 1
             \/ \E m \in DOMAIN d.files : m < n /\ size(m) > 0 /\ m + size(m) = n
          /\ \A m \in DOMAIN d.files : m < n => m + size(m) <= n
    /\ SourcesRise(d.files, d.checkpoint)

ASSUME InitialDirsAssumption ==
    /\ InitialDirs # {}
    /\ \A d \in InitialDirs : IsInitialDir(d)

ASSUME BoundsAssumption ==
    /\ Faults \subseteq FaultKinds
    /\ MaxAppends \in Nat
    /\ MaxFaults \in Nat

-----------------------------------------------------------------------------
(* Initial state: no process yet. *)

MemDown ==
    /\ phase = "down"
    /\ count = NoSegments
    /\ current = NoFile
    /\ startHash = NoHash
    /\ currentSize = 0
    /\ totalBytes = 0
    /\ nextSequence = 1
    /\ sourceSequence = [s \in Sources |-> 0]
    /\ committed = 0
    /\ failed = FALSE
    /\ pressure = FALSE
    /\ lastLineageHash = NoHash
    /\ lastSegmentRoot = NoRoot

Init ==
    /\ \E d \in InitialDirs :
          /\ files = d.files
          /\ checkpoint = d.checkpoint
          /\ attempts = d.attempts
    /\ seals = [n \in {} |-> NoRoot]
    /\ MemDown
    /\ accepted = {}
    /\ faults = 0

\* The process is gone, and with it everything Store held in memory.
Die ==
    /\ phase' = "down"
    /\ count' = NoSegments
    /\ current' = NoFile
    /\ startHash' = NoHash
    /\ currentSize' = 0
    /\ totalBytes' = 0
    /\ nextSequence' = 1
    /\ sourceSequence' = [s \in Sources |-> 0]
    /\ committed' = 0
    /\ failed' = FALSE
    /\ pressure' = FALSE
    /\ lastLineageHash' = NoHash
    /\ lastSegmentRoot' = NoRoot

\* A fault of kind k strikes.
Fault(k) == k \in Faults /\ faults < MaxFaults /\ faults' = faults + 1

-----------------------------------------------------------------------------
(* Open: loadSealChain, the scan of recover, and its verdict.              *)

Names == DOMAIN files
Newest == Max(Names)

\* loadSealChain: in name order, each seal continues the one before it.
SealChainOK ==
    \A n \in DOMAIN seals :
        LET before == {m \in DOMAIN seals : m < n} IN
        IF before = {} THEN seals[n].prevRoot = NoRoot
        ELSE /\ seals[n].prevRoot = seals[Max(before)].root
             /\ seals[n].first = seals[Max(before)].last + 1

\* The seals of compacted segments; the latest one anchors the scan.
Anchors ==
    {m \in DOMAIN seals : \A n \in Names : seals[m].last < n}

\* The nonempty segments scanned before a segment of name n.
Scanned(n) == {m \in Names : m < n /\ files[m].recs # <<>>}

PreviousSequence(n) ==
    IF Scanned(n) # {} THEN LastOf(files[Max(Scanned(n))].recs).seq
    ELSE IF Anchors # {} THEN seals[Max(Anchors)].last ELSE 0

PreviousHash(n) ==
    IF Scanned(n) # {} THEN LastOf(files[Max(Scanned(n))].recs).id
    ELSE IF Anchors # {} THEN LastOf(seals[Max(Anchors)].root) ELSE NoHash

PreviousRoot(n) ==
    LET sealed == {m \in Names : m < n /\ m \in DOMAIN seals} IN
    IF sealed # {} THEN seals[Max(sealed)].root
    ELSE IF Anchors # {} THEN seals[Max(Anchors)].root ELSE NoRoot

\* One past the newest segment name: the end of the scan.
ScanEnd == IF Names = {} THEN 1 ELSE Newest + 1

\* scanSegment fails on a partial header; a partial frame is tolerated, and
\* truncated, in the last segment only.
HeadersComplete == \A n \in Names : files[n].hdr
TornOnlyAtTail == \A n \in Names : files[n].torn => n = Newest

\* The sequence, lineage and seal checks of the scan.
SegmentOK(n) ==
    LET recs == files[n].recs IN
    /\ \A i \in 1..Len(recs) :
          LET previous == IF i = 1 THEN PreviousSequence(n) ELSE recs[i - 1].seq
          IN  previous # 0 => recs[i].seq = previous + 1
    /\ VerifyRecordChain(recs, PreviousHash(n))
    /\ n \in DOMAIN seals =>
          /\ seals[n].prevRoot = PreviousRoot(n)
          /\ verifySealAgainstRecords(seals[n], recs)

ScanOK ==
    /\ SealChainOK
    /\ HeadersComplete
    /\ TornOnlyAtTail
    /\ \A n \in Names : SegmentOK(n)

RecoveredSequence == PreviousSequence(ScanEnd)
CheckpointAhead ==
    /\ checkpoint.committed > RecoveredSequence
    /\ RecoveredSequence # 0
    /\ Names # {}

\* Mutation of RecoveredNext: recovery trusts the checkpoint alone.
RecoveredNextFromCheckpoint == checkpoint.committed + 1

RecoveredNext ==
    IF checkpoint.committed >= RecoveredSequence + 1
    THEN checkpoint.committed + 1 ELSE RecoveredSequence + 1

\* The last segment is closed for good: sealed, or holding legacy records.
LegacyTail == \E i \in 1..Len(files[Newest].recs) : files[Newest].recs[i].version = LegacyVersion
\* Mutation of StartsSegment: a sealed last segment is reopened for appending.
ReopensSealedSegment == IF Names = {} THEN TRUE ELSE LegacyTail

StartsSegment == IF Names = {} THEN TRUE ELSE Newest \in DOMAIN seals \/ LegacyTail

\* Mutation of ToSeal: complete predecessors are left unsealed.
ToSealTailOnly == {n \in Names \ DOMAIN seals : n = Newest /\ LegacyTail}

\* Complete segments that recover seals: predecessors, and a legacy tail.
ToSeal ==
    {n \in Names \ DOMAIN seals : files[n].recs # <<>> /\ (n = Newest => LegacyTail)}

\* The seals of the directory once the segments of S (a lower part of ToSeal)
\* have been sealed in name order, each chained to the one before.
SealedWith(S) ==
    [n \in DOMAIN seals \cup S |->
        IF n \in DOMAIN seals THEN seals[n]
        ELSE LET before == {m \in S : m < n} IN
             SealOf(files[n].recs,
                    IF before = {} THEN PreviousRoot(ScanEnd)
                    ELSE Leaves(files[Max(before)].recs))]

\* The root of the last segment sealed when recover is done.
RecoveredRoot ==
    IF ToSeal = {} THEN PreviousRoot(ScanEnd) ELSE Leaves(files[Max(ToSeal)].recs)

\* scanSegment(last, true): drop a partial frame, and sync what is left.
Truncated(f) ==
    IF f.torn THEN [f EXCEPT !.torn = FALSE, !.synced = Len(f.recs) + 1] ELSE f
TruncatedFiles ==
    [n \in Names |-> IF n = Newest THEN Truncated(files[n]) ELSE files[n]]

\* The largest source sequence a key has in the checkpoint or in a record.
RecoveredSource(s) ==
    LET found(recs) == {recs[i].srcSeq : i \in {j \in 1..Len(recs) : recs[j].src = s}}
    IN  Max({checkpoint.source[s]} \cup UNION {found(files[n].recs) : n \in Names})

OpenOK ==
    /\ ScanOK
    /\ ~CheckpointAhead
    /\ StartsSegment => RecoveredNext \notin Names

DirBytes(fs) == MapThenSumSet(LAMBDA n : FileSize(fs[n]), DOMAIN fs)

Open ==
    /\ phase = "down"
    /\ OpenOK
    /\ LET dir == IF StartsSegment THEN With(TruncatedFiles, RecoveredNext, NewFile)
                  ELSE TruncatedFiles
           tail == IF StartsSegment THEN RecoveredNext ELSE Newest
       IN  /\ files' = dir
           /\ current' = tail
           /\ count' = [n \in DOMAIN dir |-> Len(dir[n].recs)]
           /\ currentSize' = FileSize(dir[tail])
           /\ totalBytes' = DirBytes(dir)
           /\ startHash' = IF StartsSegment THEN PreviousHash(ScanEnd)
                           ELSE PreviousHash(tail)
    /\ seals' = SealedWith(ToSeal)
    /\ phase' = "up"
    /\ nextSequence' = RecoveredNext
    /\ sourceSequence' = [s \in Sources |-> RecoveredSource(s)]
    /\ committed' = checkpoint.committed
    /\ failed' = FALSE
    /\ pressure' = FALSE
    /\ lastLineageHash' = PreviousHash(ScanEnd)
    /\ lastSegmentRoot' = RecoveredRoot
    /\ UNCHANGED <<checkpoint, accepted, attempts, faults>>

\* Open returns an error and the edge does not start.  The scan may already
\* have truncated the tail.
OpenFails ==
    /\ phase = "down"
    /\ ~OpenOK
    /\ files' = IF ScanOK THEN TruncatedFiles ELSE files
    /\ UNCHANGED <<seals, checkpoint, mem, accepted, attempts, faults>>

\* Open is killed, or fails to write, after truncating the tail: while it
\* seals (in name order), or while it creates its first segment.
OpenInterrupted ==
    /\ phase = "down"
    /\ OpenOK
    /\ \E k \in {"kill", "io"} : Fault(k)
    /\ \/ \E b \in ToSeal \cup {ScanEnd} :
             /\ seals' = SealedWith({n \in ToSeal : n < b})
             /\ files' = TruncatedFiles
       \/ /\ StartsSegment
          /\ seals' = SealedWith(ToSeal)
          /\ \E f \in PartialNewFiles : files' = With(TruncatedFiles, RecoveredNext, f)
    /\ UNCHANGED <<checkpoint, mem, accepted, attempts>>

-----------------------------------------------------------------------------
(* Append.                                                                 *)

Usable == phase = "up" /\ ~failed

NeedsRotation(size) ==
    /\ currentSize + size > SegmentBytes
    /\ currentSize > SegmentHeaderBytes

HasRoom(size) ==
    /\ totalBytes + size <= MaxBytes
    /\ NeedsRotation(size) => totalBytes + SegmentHeaderBytes + size <= MaxBytes

\* The record Append builds; its frame ends at offset end of its segment.
NewRecord(src, end) ==
    [seq |-> nextSequence, src |-> src, srcSeq |-> sourceSequence[src] + 1,
     id |-> attempts + 1, prev |-> lastLineageHash, end |-> end,
     version |-> Version]

\* sealSegment on the last segment, as rotate and Close call it.
MustSeal == count[current] > 0 /\ current \notin DOMAIN seals
SealFails ==
    /\ MustSeal
    /\ \/ files[current].torn
       \/ ~VerifyRecordChain(files[current].recs, startHash)
CurrentSealed ==
    IF MustSeal
    THEN With(seals, current, SealOf(files[current].recs, lastSegmentRoot))
    ELSE seals
\* Mutation of RootAfterSeal: sealing forgets to remember the new root.
RootBeforeSeal == lastSegmentRoot

RootAfterSeal ==
    IF MustSeal THEN Leaves(files[current].recs) ELSE lastSegmentRoot
CurrentSynced == [files EXCEPT ![current] = Synced(@)]

\* The directory, the segment and the offset a frame of this size goes to,
\* once rotate has run if it must.
TargetFiles(size) ==
    IF NeedsRotation(size) THEN With(CurrentSynced, nextSequence, NewFile) ELSE files
TargetSegment(size) == IF NeedsRotation(size) THEN nextSequence ELSE current
TargetOffset(size) == IF NeedsRotation(size) THEN SegmentHeaderBytes ELSE currentSize

\* rotate can succeed: the old segment seals and the new name is free.
RotationOK(size) == NeedsRotation(size) => ~SealFails /\ nextSequence \notin Names

\* What a completed rotate leaves in memory: seal, new segment, header bytes.
RotateMemory(size) ==
    IF NeedsRotation(size)
    THEN /\ seals' = CurrentSealed
         /\ lastSegmentRoot' = RootAfterSeal
         /\ startHash' = lastLineageHash
    ELSE UNCHANGED <<seals, lastSegmentRoot, startHash>>
CountAfterRotate(size) ==
    IF NeedsRotation(size) THEN With(count, nextSequence, 0) ELSE count
BytesAfterRotate(size) ==
    IF NeedsRotation(size) THEN totalBytes + SegmentHeaderBytes ELSE totalBytes

AppendEnabled(size) ==
    /\ Usable
    /\ attempts < MaxAppends
    /\ SegmentHeaderBytes + size <= SegmentBytes

AppendEvent(src, size) ==
    /\ AppendEnabled(size)
    /\ HasRoom(size)
    /\ RotationOK(size)
    /\ LET n == TargetSegment(size)
           end == TargetOffset(size) + size
           record == NewRecord(src, end)
           f == TargetFiles(size)[n]
       IN  /\ files' = [TargetFiles(size) EXCEPT
                          ![n] = Synced([f EXCEPT !.recs = Append(@, record)])]
           /\ currentSize' = end
           /\ totalBytes' = BytesAfterRotate(size) + size
           /\ count' = [CountAfterRotate(size) EXCEPT ![n] = @ + 1]
           /\ sourceSequence' = [sourceSequence EXCEPT ![src] = record.srcSeq]
           /\ lastLineageHash' = record.id
           /\ accepted' = accepted \cup {record}
    /\ RotateMemory(size)
    /\ nextSequence' = nextSequence + 1
    /\ attempts' = attempts + 1
    /\ current' = TargetSegment(size)
    /\ UNCHANGED <<checkpoint, phase, committed, failed, pressure, faults>>

AppendRejected(size) ==
    /\ AppendEnabled(size)
    /\ ~HasRoom(size)
    /\ pressure' = TRUE
    /\ UNCHANGED <<disk, phase, count, current, startHash, currentSize, totalBytes,
                   nextSequence, sourceSequence, committed, failed,
                   lastLineageHash, lastSegmentRoot, accepted, attempts, faults>>
\* The write of the frame is interrupted (after rotate, if there was one):
\* nothing, a partial frame, or the whole frame is in the file, synced or not.
AppendInterrupted(src, size) ==
    /\ AppendEnabled(size)
    /\ HasRoom(size)
    /\ RotationOK(size)
    /\ LET n == TargetSegment(size)
           record == NewRecord(src, TargetOffset(size) + size)
           f == TargetFiles(size)[n]
           full == [f EXCEPT !.recs = Append(@, record)]
       IN  \E g \in {f, [f EXCEPT !.torn = TRUE], full, Synced(full)} :
              files' = [TargetFiles(size) EXCEPT ![n] = g]
    /\ attempts' = attempts + 1
    /\ \/ /\ Fault("kill")
          /\ seals' = IF NeedsRotation(size) THEN CurrentSealed ELSE seals
          /\ Die
       \/ /\ Fault("io")
          /\ RotateMemory(size)
          /\ count' = CountAfterRotate(size)
          /\ currentSize' = TargetOffset(size)
          /\ totalBytes' = BytesAfterRotate(size)
          /\ failed' = TRUE
          /\ current' = TargetSegment(size)
          /\ UNCHANGED <<phase, nextSequence, sourceSequence, committed,
                         pressure, lastLineageHash>>
    /\ UNCHANGED <<checkpoint, accepted>>

\* rotate is interrupted: before or after the sync of the old segment, after
\* it is sealed, or while createSegment writes the new one.
RotateInterrupted(size) ==
    /\ AppendEnabled(size)
    /\ HasRoom(size)
    /\ NeedsRotation(size)
    /\ \E sealed \in BOOLEAN :
          /\ sealed => ~SealFails
          /\ seals' = IF sealed THEN CurrentSealed ELSE seals
          /\ \/ files' = CurrentSynced
             \/ ~sealed /\ files' = files
             \/ /\ sealed
                /\ nextSequence \notin Names
                /\ \E f \in PartialNewFiles : files' = With(CurrentSynced, nextSequence, f)
          /\ \/ Fault("kill") /\ Die
             \/ /\ Fault("io")
                /\ failed' = TRUE
                /\ lastSegmentRoot' = IF sealed THEN RootAfterSeal ELSE lastSegmentRoot
                /\ current' \in IF sealed THEN {NoFile} ELSE {current, NoFile}
                /\ UNCHANGED <<phase, count, startHash, currentSize, totalBytes,
                               nextSequence, sourceSequence, committed, pressure,
                               lastLineageHash>>
    /\ UNCHANGED <<checkpoint, accepted, attempts>>

-----------------------------------------------------------------------------
(* Commit and compact.                                                     *)

CommitEnabled == Usable /\ committed + 1 < nextSequence

\* Mutation of NextCheckpoint: the source sequences are not saved.
NextCheckpointStaleSource == [committed |-> committed + 1, source |-> checkpoint.source]

NextCheckpoint == [committed |-> committed + 1, source |-> sourceSequence]

\* Mutation of Removable: the first record of a segment decides.
RemovableByFirst ==
    {n \in DOMAIN count \ {current} : count[n] > 0 /\ files[n].recs[1].seq <= committed + 1}

\* The segments compact removes once the commit is in: complete ones whose
\* last record is committed, never the current one.
Removable ==
    {n \in DOMAIN count \ {current} :
        count[n] > 0 /\ files[n].recs[count[n]].seq <= committed + 1}

BytesOf(S) == MapThenSumSet(LAMBDA n : FileSize(files[n]), S)

Commit ==
    /\ CommitEnabled
    /\ checkpoint' = NextCheckpoint
    /\ committed' = committed + 1
    /\ files' = Restrict(files, Names \ Removable)
    /\ count' = Restrict(count, DOMAIN count \ Removable)
    /\ totalBytes' = totalBytes - BytesOf(Removable)
    /\ pressure' = (pressure /\ (DOMAIN count = {current} \/ totalBytes' >= MaxBytes))
    /\ UNCHANGED <<seals, phase, current, startHash, currentSize, nextSequence,
                   sourceSequence, failed, lastLineageHash, lastSegmentRoot,
                   accepted, attempts, faults>>

\* Commit is interrupted before the checkpoint is renamed into place, or after
\* that with only the removable segments below b gone (an I/O error: at b).
CommitInterrupted ==
    /\ CommitEnabled
    /\ \E renamed \in BOOLEAN, b \in Removable \cup {nextSequence} :
          LET removed == {n \in Removable : renamed /\ n < b} IN
          /\ checkpoint' = IF renamed THEN NextCheckpoint ELSE checkpoint
          /\ files' = Restrict(files, Names \ removed)
          /\ \/ Fault("kill") /\ Die
             \/ /\ Fault("io")
                /\ renamed => b \in Removable
                /\ failed' = TRUE
                /\ committed' = IF renamed THEN committed + 1 ELSE committed
                /\ totalBytes' = totalBytes - BytesOf(removed)
                /\ UNCHANGED <<phase, count, current, startHash, currentSize,
                               nextSequence, sourceSequence, pressure,
                               lastLineageHash, lastSegmentRoot>>
    /\ UNCHANGED <<seals, accepted, attempts>>

-----------------------------------------------------------------------------
(* Close, and the end of the process at rest.                              *)

\* Sync and seal the current segment; without one (a failed rotate) return.
Close ==
    /\ phase = "up"
    /\ IF current = NoFile THEN UNCHANGED <<files, seals>>
       ELSE /\ files' = CurrentSynced
            /\ seals' = IF SealFails THEN seals ELSE CurrentSealed
    /\ Die
    /\ UNCHANGED <<checkpoint, accepted, attempts, faults>>

\* Close is killed, or its sync or seal fails, before the seal is in place.
CloseInterrupted ==
    /\ phase = "up"
    /\ current # NoFile
    /\ \E k \in {"kill", "io"} : Fault(k)
    /\ files' = CurrentSynced
    /\ Die
    /\ UNCHANGED <<seals, checkpoint, accepted, attempts>>

Kill ==
    /\ phase = "up"
    /\ Fault("kill")
    /\ Die
    /\ UNCHANGED <<disk, accepted, attempts>>

\* What a power loss may leave of a file: its synced part and any more of what
\* was written, then possibly part of the next frame; a file never synced may
\* also vanish.  Renames, unlinks and synced creations are taken as durable in
\* the order they were made.
Survivor(f, u, torn) ==
    [hdr |-> u > 0, recs |-> SubSeq(f.recs, 1, u - 1), torn |-> torn, synced |-> u]

PowerLoss ==
    /\ Fault("power")
    /\ Names # {}
    /\ LET f == files[Newest] IN
       \/ \E u \in f.synced..Written(f), torn \in BOOLEAN :
             /\ u > 0 \/ "header" \in Faults
             /\ torn => u > 0 /\ (f.torn \/ u < Written(f))
             /\ files' = [files EXCEPT ![Newest] = Survivor(f, u, torn)]
       \/ f.synced = 0 /\ files' = Restrict(files, Names \ {Newest})
    /\ Die
    /\ UNCHANGED <<seals, checkpoint, accepted, attempts>>

-----------------------------------------------------------------------------

Next ==
    \/ Open
    \/ OpenFails
    \/ OpenInterrupted
    \/ \E src \in Sources, size \in FrameSizes :
          AppendEvent(src, size) \/ AppendInterrupted(src, size)
    \/ \E size \in FrameSizes : AppendRejected(size) \/ RotateInterrupted(size)
    \/ Commit
    \/ CommitInterrupted
    \/ Close
    \/ CloseInterrupted
    \/ Kill
    \/ PowerLoss

Spec == Init /\ [][Next]_vars

-----------------------------------------------------------------------------
(* Queries.                                                                *)

Retained == UNION {{files[n].recs[i] : i \in 1..Len(files[n].recs)} : n \in Names}

\* Pending(0): the retained records past the committed one, in name order and
\* within a segment in file order; as a set, the order is that of seq.
Pending == {r \in Retained : r.seq > committed}

\* Ready() = nil
Ready == Usable /\ ~pressure /\ totalBytes < MaxBytes

\* AuditDirectory: the seals chain; the retained part of a sealed segment is
\* what was sealed; at most one segment is unsealed, and it continues the last
\* seal.  Every segment is read with scanSegment(path, false).
AuditHash(n) ==
    LET before == {m \in DOMAIN seals : m < n} IN
    IF before = {} THEN NoHash ELSE LastOf(seals[Max(before)].root)

AuditDirectory ==
    /\ SealChainOK
    /\ \A n \in Names : files[n].hdr /\ ~files[n].torn
    /\ \A n \in Names \cap DOMAIN seals :
          /\ VerifyRecordChain(files[n].recs, AuditHash(n))
          /\ verifySealAgainstRecords(seals[n], files[n].recs)
    /\ Cardinality(Names \ DOMAIN seals) <= 1
    /\ \A n \in Names \ DOMAIN seals :
          VerifyRecordChain(files[n].recs,
              IF seals = <<>> THEN NoHash ELSE LastOf(seals[Max(DOMAIN seals)].root))

-----------------------------------------------------------------------------
(* Properties.                                                             *)

\* The variables have the types of the fields of Store, of a segment file, of
\* a seal and of the checkpoint file.
TypeOK ==
    /\ Names \subseteq Nat \ {0}
    /\ files \in [Names -> File]
    /\ DOMAIN seals \subseteq Nat \ {0}
    /\ seals \in [DOMAIN seals -> Seal]
    /\ checkpoint \in [committed : Nat, source : [Sources -> Nat]]
    /\ phase \in {"down", "up"}
    /\ DOMAIN count \subseteq Nat \ {0}
    /\ count \in [DOMAIN count -> Nat]
    /\ current \in Nat
    /\ startHash \in Nat
    /\ currentSize \in Nat
    /\ nextSequence \in Nat \ {0}
    /\ sourceSequence \in [Sources -> Nat]
    /\ committed \in Nat
    /\ failed \in BOOLEAN
    /\ pressure \in BOOLEAN
    /\ lastLineageHash \in Nat
    /\ lastSegmentRoot \in Seq(Nat \ {0})
    /\ accepted \subseteq Record
    /\ attempts \in Nat
    /\ faults \in Nat

\* "Once the edge returns successful acceptance, the event remains recoverable
\* from the configured WAL until downstream delivery is checkpointed": the
\* accepted record is in a segment, inside its synced part, or is committed.
\* Append must not return before the sync, compact must not remove a segment
\* with an uncommitted record, recover must not truncate a complete frame.
AcceptedRecoverable ==
    \A r \in accepted :
        \/ r.seq <= checkpoint.committed
        \/ \E n \in Names : \E i \in 1..Len(files[n].recs) :
              files[n].recs[i] = r /\ i < files[n].synced

\* "Globally monotonic edge_sequence": over all accepted and retained records
\* one edge sequence names one record, across rotation, compaction, crashes and
\* restarts.  Append takes the sequence from memory, recover must restore it
\* from what compaction and the crash left.
EdgeSequenceUnique ==
    \A r, q \in accepted \cup Retained : r.seq = q.seq => r = q

\* "Monotonic tenant/source source_sequence": a later record of a source has a
\* larger source sequence.  Compaction removes the records recover would learn
\* the maximum from; the checkpoint must remember it.
SourceSequenceOrdered ==
    \A r, q \in accepted \cup Retained :
        r.src = q.src /\ r.seq < q.seq => r.srcSeq < q.srcSeq

\* After any crash Open succeeds, unless createSegment was interrupted inside
\* the header or the checkpoint covers a record that a power loss took back:
\* the seal, lineage and sequence checks of recover never fail on a directory
\* this store wrote, and a new segment never collides with an existing name.
RecoveryFailsOnlyWhenTorn ==
    phase = "down" => OpenOK \/ ~HeadersComplete \/ CheckpointAhead

\* The guarantee of the documentation, read as the operator of the edge reads
\* it: an accepted, undelivered event is replayed by the next start.
AcceptedReplayable ==
    phase = "down" /\ (\E r \in accepted : r.seq > checkpoint.committed) => OpenOK

\* The store's byte accounting is that of the directory, through rotation,
\* compaction and recovery, and the budget is exceeded by at most the header
\* of the segment that recover creates without a capacity check.
BudgetExact ==
    Usable =>
        /\ totalBytes = DirBytes(files)
        /\ currentSize = FileSize(files[current])
        /\ current = Newest
        /\ currentSize <= SegmentBytes
        /\ totalBytes <= MaxBytes + SegmentHeaderBytes

\* The replay loop sees every undelivered record: Pending returns exactly the
\* sequences after the committed one up to the last assigned, so that the
\* next Commit of the loop is never a gap or an unknown sequence.
PendingContiguous ==
    Usable => {r.seq : r \in Pending} = (committed + 1)..(nextSequence - 1)

\* A store with nothing left to deliver holds one segment and the header of the
\* next, and one more segment for each fault that kept Commit from compacting
\* (recover does not compact).  It takes every frame that fits a segment once
\* the budget has room for one segment more than that.  Open accepts less, down
\* to one segment: then a full active segment, which compact keeps although it
\* is committed, leaves no room for any frame.
DrainedAccepts ==
    Usable /\ committed + 1 = nextSequence =>
        /\ totalBytes <= (1 + faults) * SegmentBytes + SegmentHeaderBytes
        /\ MaxBytes >= (2 + faults) * SegmentBytes =>
              \A size \in FrameSizes : SegmentHeaderBytes + size <= SegmentBytes => HasRoom(size)

\* A usable store's directory passes the audit at every moment, whatever crash
\* it recovered from: one active segment, anchored to the last seal.
AuditPasses == Usable => AuditDirectory

\* A sealed segment is final: no step changes its records, takes its seal back
\* or signs another one for it, and it goes only when all of it is committed.
SealedIsFinal ==
    [][\A n \in DOMAIN seals :
          /\ n \in DOMAIN seals' /\ seals'[n] = seals[n]
          /\ n \in Names =>
                IF n \in DOMAIN files' THEN files'[n].recs = files[n].recs
                ELSE LastOf(files[n].recs).seq <= checkpoint'.committed]_vars

\* Memory and directory agree at every moment of a usable store, whatever crash
\* it recovered from: the byte budget, the pending records, what is left of a
\* drained log and the audit of the directory (Append, Commit, compact and
\* recover each keep their own part of it up to date).
StoreConsistent ==
    /\ TypeOK
    /\ BudgetExact
    /\ PendingContiguous
    /\ DrainedAccepts
    /\ AuditPasses
=============================================================================
