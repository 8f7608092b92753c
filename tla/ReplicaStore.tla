---------------------------- MODULE ReplicaStore ----------------------------
(***************************************************************************)
(* The receiver side of edge replication (internal/replication/store.go):  *)
(* a peer keeps one append-only log and one release checkpoint per origin  *)
(* edge, and acknowledges a record once it is in the log.                  *)
(*                                                                         *)
(* Every method of Store holds its mutex throughout, so each is one        *)
(* action; a fault stops it after any prefix of its writes.  Unlike the    *)
(* edge log, this store does not latch an I/O error: the next Put appends  *)
(* behind whatever the failed one left.                                    *)
(***************************************************************************)
EXTENDS Integers, Sequences, FiniteSetsExt, SequencesExt

CONSTANTS
    Origins,         \* origin edge IDs
    EdgeSequences,      \* edge sequences an origin may send
    Prints,          \* record fingerprints: two of them if an origin may reuse a sequence
    HeaderBytes,     \* size of replicaHeader
    FrameBytes,      \* size of a frame
    TornBytes,       \* size of an interrupted frame
    MaxBytes,        \* StoreConfig.MaxBytes
    compactReleaseStride,
    Faults,          \* subset of FaultKinds: what may go wrong
    MaxFaults        \* bound: faults in a behaviour

VARIABLES
    \* --- the directory ---
    log,             \* origin -> its replica log
    checkpoint,      \* origin -> released_through of its release checkpoint, or 0
    \* --- Store, in memory ---
    up,
    fingerprints,    \* origin -> sequence -> fingerprint
    released,
    compacted,
    totalBytes,
    \* --- history ---
    acked,           \* records Put returned without an error
    faults           \* how many faults happened, and of which kinds

disk == <<log, checkpoint>>
mem  == <<up, fingerprints, released, compacted, totalBytes>>
vars == <<disk, mem, acked, faults>>

FaultKinds == {"kill", "power", "io", "header"}

Min2(a, b) == IF a <= b THEN a ELSE b

-----------------------------------------------------------------------------
(* A replica log.                                                          *)

\* The marker of an interrupted frame.
Torn == [seq |-> 0, print |-> 0]
Frame == [seq : EdgeSequences, print : Prints]

\* exists: the file is there; hdr: its header is complete; items: its frames
\* and interrupted frames; synced: how many items survive a power loss.
Log == [exists : BOOLEAN, hdr : BOOLEAN, items : Seq(Frame \cup {Torn}), synced : Nat]

NoLog == [exists |-> FALSE, hdr |-> FALSE, items |-> <<>>, synced |-> 0]
EmptyLog == [exists |-> TRUE, hdr |-> TRUE, items |-> <<>>, synced |-> 0]

SizeOf(l) ==
    IF ~l.exists THEN 0
    ELSE (IF l.hdr THEN HeaderBytes ELSE 0)
         + FoldLeft(LAMBDA n, i : n + IF i = Torn THEN TornBytes ELSE FrameBytes, 0, l.items)

\* The frames in front of the first interrupted one.
Readable(l) ==
    LET torn == {i \in DOMAIN l.items : l.items[i] = Torn}
    IN  IF torn = {} THEN l.items ELSE SubSeq(l.items, 1, Min(torn) - 1)

\* What follows an interrupted frame is read as the rest of it: if the file
\* ends inside that frame the scan stops there, otherwise it fails.
TornInside(l) == Len(Readable(l)) + 1 < Len(l.items)

\* scanReplicaFile can succeed, can fail.
ScanMaySucceed(l) == l.hdr
ScanMayFail(l) == ~l.hdr \/ TornInside(l)

\* recoverFile: an interrupted frame is cut off, with all that follows it; its
\* mutation leaves the tail.
NotRepaired(l) == l
Repaired(l) ==
    [l EXCEPT !.items = Readable(l), !.synced = Min2(@, Len(Readable(l)))]

\* The frames above a release; compactEdge writes them to a new, synced file.
\* Its mutation drops one frame too many.
Above(items, through) == SelectSeq(items, LAMBDA i : i.seq > through)
CompactedTooFar(l, through) ==
    LET retained == Above(Readable(l), through + 1) IN
    IF retained = <<>> THEN NoLog
    ELSE [EmptyLog EXCEPT !.items = retained, !.synced = Len(retained)]
Compacted(l, through) ==
    LET retained == Above(Readable(l), through) IN
    IF retained = <<>> THEN NoLog
    ELSE [EmptyLog EXCEPT !.items = retained, !.synced = Len(retained)]

-----------------------------------------------------------------------------

\* The process is gone, and what Store held in memory.
Die ==
    /\ up' = FALSE
    /\ fingerprints' = [o \in Origins |-> <<>>]
    /\ released' = [o \in Origins |-> 0]
    /\ compacted' = [o \in Origins |-> 0]
    /\ totalBytes' = 0

Init ==
    /\ log = [o \in Origins |-> NoLog]
    /\ checkpoint = [o \in Origins |-> 0]
    /\ up = FALSE
    /\ fingerprints = [o \in Origins |-> <<>>]
    /\ released = [o \in Origins |-> 0]
    /\ compacted = [o \in Origins |-> 0]
    /\ totalBytes = 0
    /\ acked = {}
    /\ faults = [count |-> 0, kinds |-> {}]

\* At most one of the faults is an I/O error: after one only the types and the
\* releases are claimed.
Fault(k) ==
    /\ k \in Faults /\ faults.count < MaxFaults /\ (k = "io" => k \notin faults.kinds)
    /\ faults' = [count |-> faults.count + 1, kinds |-> faults.kinds \cup {k}]

-----------------------------------------------------------------------------
(* OpenStore.                                                              *)

\* The records of a log that are not released, by sequence.
Recovered(l, through) ==
    LET frames == Range(Above(Readable(l), through)) IN
    [s \in {f.seq : f \in frames} |-> (CHOOSE f \in frames : f.seq = s).print]

\* recoverFile refuses two different records of one sequence.
Conflicting(l, through) ==
    \E f, g \in Range(Above(Readable(l), through)) : f.seq = g.seq /\ f.print # g.print

Existing == {o \in Origins : log[o].exists}

OpenMaySucceed ==
    \A o \in Existing : ScanMaySucceed(log[o]) /\ ~Conflicting(log[o], checkpoint[o])
OpenMayFail ==
    \E o \in Existing : ScanMayFail(log[o]) \/ Conflicting(log[o], checkpoint[o])

OpenStore ==
    /\ ~up
    /\ OpenMaySucceed
    /\ log' = [o \in Origins |-> IF log[o].exists THEN Repaired(log[o]) ELSE log[o]]
    /\ up' = TRUE
    /\ released' = checkpoint
    /\ compacted' = [o \in Origins |-> 0]
    /\ fingerprints' = [o \in Origins |-> Recovered(log[o], checkpoint[o])]
    /\ totalBytes' = MapThenSumSet(LAMBDA o : SizeOf(Repaired(log[o])), Existing)
    /\ UNCHANGED <<checkpoint, acked, faults>>

\* OpenStore returns an error, after repairing any part of the other logs.
OpenFails ==
    /\ ~up
    /\ OpenMayFail
    /\ \E repaired \in SUBSET {o \in Existing : ScanMaySucceed(log[o])} :
          log' = [o \in Origins |-> IF o \in repaired THEN Repaired(log[o]) ELSE log[o]]
    /\ UNCHANGED <<checkpoint, mem, acked, faults>>

-----------------------------------------------------------------------------
(* Put.                                                                    *)

Entry(o, s, v) == [origin |-> o, seq |-> s, print |-> v]
Acknowledged(o, s, v) == acked' = acked \cup {Entry(o, s, v)}

Known(o, s) == s \in DOMAIN fingerprints[o]
IsNew(o, s) == up /\ s > released[o] /\ ~Known(o, s)

\* compactEdge on the origins of S, in the log and in the byte count.
CompactLogs(S) ==
    [o \in Origins |-> IF o \in S THEN Compacted(log[o], released[o]) ELSE log[o]]
CompactBytes(S) ==
    LET step(o, total) ==
            LET left == total - SizeOf(log[o]) IN
            IF Compacted(log[o], released[o]) = NoLog THEN Max({left, 0})
            ELSE left + SizeOf(Compacted(log[o], released[o]))
    IN  FoldSet(step, totalBytes, S)
CompactMarks(S) == [o \in Origins |-> IF o \in S THEN released[o] ELSE compacted[o]]

\* compactReleased: the origins with something released since their last
\* compaction, when the frame does not fit.
Additional(l) == FrameBytes + IF l.exists THEN 0 ELSE HeaderBytes
Tight(o) == totalBytes + Additional(log[o]) > MaxBytes
ToCompact(o) == IF Tight(o) THEN {x \in Origins : released[x] > compacted[x]} ELSE {}
Compactable(o) == \A x \in ToCompact(o) : log[x].exists => ScanMaySucceed(log[x])

LogsForPut(o) == CompactLogs(ToCompact(o))
BytesForPut(o) == CompactBytes(ToCompact(o))
Fits(o) == BytesForPut(o) + Additional(LogsForPut(o)[o]) <= MaxBytes

\* The log with the frame written and not yet synced.
Written(l, s, v) ==
    [(IF l.exists THEN l ELSE EmptyLog) EXCEPT !.items = Append(@, [seq |-> s, print |-> v])]
Synced(l) == [l EXCEPT !.synced = Len(l.items)]

\* Released already: acknowledged without looking at the record.
PutReleased(o, s, v) ==
    /\ up
    /\ s <= released[o]
    /\ Acknowledged(o, s, v)
    /\ UNCHANGED <<disk, mem, faults>>

PutDuplicate(o, s, v) ==
    /\ up
    /\ s > released[o]
    /\ Known(o, s)
    /\ fingerprints[o][s] = v
    /\ Acknowledged(o, s, v)
    /\ UNCHANGED <<disk, mem, faults>>

PutConflict(o, s, v) ==
    /\ up
    /\ s > released[o]
    /\ Known(o, s)
    /\ fingerprints[o][s] # v
    /\ UNCHANGED vars

PutNew(o, s, v) ==
    /\ IsNew(o, s)
    /\ Compactable(o)
    /\ Fits(o)
    /\ log' = [LogsForPut(o) EXCEPT ![o] = Synced(Written(@, s, v))]
    /\ totalBytes' = BytesForPut(o) + Additional(LogsForPut(o)[o])
    /\ compacted' = CompactMarks(ToCompact(o))
    /\ fingerprints' = [fingerprints EXCEPT ![o] =
                           [t \in DOMAIN @ \cup {s} |-> IF t = s THEN v ELSE @[t]]]
    /\ Acknowledged(o, s, v)
    /\ UNCHANGED <<checkpoint, up, released, faults>>

\* ErrReplicaPressure; what was compacted stays compacted.
PutPressure(o, s) ==
    /\ IsNew(o, s)
    /\ Compactable(o)
    /\ ~Fits(o)
    /\ log' = LogsForPut(o)
    /\ totalBytes' = BytesForPut(o)
    /\ compacted' = CompactMarks(ToCompact(o))
    /\ UNCHANGED <<checkpoint, up, fingerprints, released, acked, faults>>

\* compactReleased stops at origin x, whose log cannot be scanned or written;
\* an error after the rename leaves the log compacted and the count as it was.
PutCompactFails(o, s) ==
    /\ IsNew(o, s)
    /\ \E x \in ToCompact(o) : \E done \in SUBSET (ToCompact(o) \ {x}) :
          /\ log[x].exists
          /\ \A y \in done : log[y].exists => ScanMaySucceed(log[y])
          /\ \/ ScanMayFail(log[x]) /\ log' = CompactLogs(done) /\ UNCHANGED faults
             \/ /\ Fault("io")
                /\ log' \in {CompactLogs(done)}
                             \cup IF log[x].hdr THEN {CompactLogs(done \cup {x})} ELSE {}
          /\ totalBytes' = CompactBytes(done)
          /\ compacted' = CompactMarks(done)
    /\ UNCHANGED <<checkpoint, up, fingerprints, released, acked>>

\* The states an interrupted write leaves a log in: as it was, created with or
\* without its header, with part of the frame, or with all of it.
PartialPuts(l, s, v) ==
    LET full == Written(l, s, v) IN
    {l, full, Synced(full), [full EXCEPT !.items = Append(Front(@), Torn)]}
    \cup IF l.exists THEN {} ELSE
         {[EmptyLog EXCEPT !.hdr = h] : h \in IF "header" \in Faults THEN BOOLEAN ELSE {TRUE}}

\* The write fails or the process dies in it.  An error is not latched: the
\* record is unknown to the store, and the bytes are not counted.
PutInterrupted(o, s, v) ==
    /\ IsNew(o, s)
    /\ Compactable(o)
    /\ Fits(o)
    /\ \E l \in PartialPuts(LogsForPut(o)[o], s, v) : log' = [LogsForPut(o) EXCEPT ![o] = l]
    /\ \/ Fault("kill") /\ Die
       \/ /\ Fault("io")
          /\ totalBytes' = BytesForPut(o)
          /\ compacted' = CompactMarks(ToCompact(o))
          /\ UNCHANGED <<up, fingerprints, released>>
    /\ UNCHANGED <<checkpoint, acked>>

-----------------------------------------------------------------------------
(* Release.                                                                *)

\* What Release does to the memory before it compacts.
Forget(o, t) ==
    /\ released' = [released EXCEPT ![o] = t]
    /\ fingerprints' = [fingerprints EXCEPT ![o] = Restrict(@, {s \in DOMAIN @ : s > t})]

ReleaseCompacts(o, t) ==
    \/ t - compacted[o] >= compactReleaseStride
    \/ totalBytes >= (MaxBytes * 3) \div 4

\* The log and the byte count after compactEdge.
ReleasedLog(o, t) == Compacted(log[o], t)
ReleasedBytes(o, t) ==
    LET left == totalBytes - SizeOf(log[o]) IN
    IF ~log[o].exists THEN totalBytes
    ELSE IF ReleasedLog(o, t) = NoLog THEN Max({left, 0})
    ELSE left + SizeOf(ReleasedLog(o, t))

Release(o, t) ==
    /\ up
    /\ t > released[o]
    /\ checkpoint' = [checkpoint EXCEPT ![o] = t]
    /\ Forget(o, t)
    /\ IF ReleaseCompacts(o, t)
       THEN /\ log[o].exists => ScanMaySucceed(log[o])
            /\ log' = [log EXCEPT ![o] = ReleasedLog(o, t)]
            /\ totalBytes' = ReleasedBytes(o, t)
            /\ compacted' = [compacted EXCEPT ![o] = t]
       ELSE UNCHANGED <<log, totalBytes, compacted>>
    /\ UNCHANGED <<up, acked, faults>>

\* The checkpoint is written and the compaction after it fails: the log cannot
\* be scanned, or an I/O error strikes before or after the rename.
ReleaseCompactFails(o, t) ==
    /\ up
    /\ t > released[o]
    /\ ReleaseCompacts(o, t)
    /\ log[o].exists
    /\ checkpoint' = [checkpoint EXCEPT ![o] = t]
    /\ Forget(o, t)
    /\ \/ ScanMayFail(log[o]) /\ UNCHANGED <<log, faults>>
       \/ /\ Fault("io")
          /\ \/ UNCHANGED log
             \/ log[o].hdr /\ log' = [log EXCEPT ![o] = ReleasedLog(o, t)]
    /\ UNCHANGED <<up, totalBytes, compacted, acked>>

\* writeReleaseCheckpoint returned an error: nothing is forgotten.  Its
\* mutation forgets all the same.
CheckpointFailureIgnored(o, t) == Forget(o, t) /\ UNCHANGED <<up, compacted, totalBytes>>
CheckpointFailed(o, t) == UNCHANGED mem

\* Release stops while it writes the checkpoint, or dies in the compaction.
ReleaseInterrupted(o, t) ==
    /\ up
    /\ t > released[o]
    /\ \E renamed \in BOOLEAN :
          /\ checkpoint' = IF renamed THEN [checkpoint EXCEPT ![o] = t] ELSE checkpoint
          /\ \/ Fault("io") /\ UNCHANGED log /\ CheckpointFailed(o, t)
             \/ /\ \E k \in {"kill", "power"} : Fault(k)
                /\ \/ UNCHANGED log
                   \/ /\ renamed
                      /\ ReleaseCompacts(o, t)
                      /\ log[o].hdr
                      /\ log' = [log EXCEPT ![o] = ReleasedLog(o, t)]
                /\ Die
    /\ UNCHANGED acked

-----------------------------------------------------------------------------
(* The end of the process.                                                 *)

Close ==
    /\ up
    /\ Die
    /\ UNCHANGED <<disk, acked, faults>>

Kill ==
    /\ up
    /\ Fault("kill")
    /\ Die
    /\ UNCHANGED <<disk, acked>>

\* What a power loss may leave of a log: the synced items, any more of those
\* written, part of the next; a log never synced may vanish or lose its header.
Survivors(l) ==
    {[l EXCEPT !.items = SubSeq(l.items, 1, u), !.synced = u] : u \in l.synced..Len(l.items)}
    \cup {[l EXCEPT !.items = SubSeq(l.items, 1, u) \o <<Torn>>, !.synced = u + 1] :
        u \in l.synced..(Len(l.items) - 1)}
    \cup IF l.synced > 0 THEN {} ELSE {NoLog}
    \cup IF l.synced > 0 \/ "header" \notin Faults THEN {} ELSE {[EmptyLog EXCEPT !.hdr = FALSE]}

\* A power loss at rest, or in the write of a Put.
PowerLoss ==
    /\ Fault("power")
    /\ \E o \in Origins :
          \/ log[o].exists /\ \E l \in Survivors(log[o]) : log' = [log EXCEPT ![o] = l]
          \/ \E s \in EdgeSequences, v \in Prints :
                /\ IsNew(o, s)
                /\ Compactable(o)
                /\ Fits(o)
                /\ \E l \in Survivors(Written(LogsForPut(o)[o], s, v)) :
                      log' = [LogsForPut(o) EXCEPT ![o] = l]
    /\ Die
    /\ UNCHANGED <<checkpoint, acked>>

-----------------------------------------------------------------------------

Next ==
    \/ OpenStore
    \/ OpenFails
    \/ \E o \in Origins, s \in EdgeSequences :
          \/ \E v \in Prints : \/ PutReleased(o, s, v)
                               \/ PutDuplicate(o, s, v)
                               \/ PutConflict(o, s, v)
                               \/ PutNew(o, s, v)
                               \/ PutInterrupted(o, s, v)
          \/ PutPressure(o, s)
          \/ PutCompactFails(o, s)
          \/ Release(o, s)
          \/ ReleaseCompactFails(o, s)
          \/ ReleaseInterrupted(o, s)
    \/ Close
    \/ Kill
    \/ PowerLoss

Spec == Init /\ [][Next]_vars

-----------------------------------------------------------------------------
(* Properties.                                                             *)

\* The variables have the types of the fields of Store, of a replica log and
\* of a release checkpoint.  The byte count can fall below zero only after a
\* failed write, whose bytes are taken off when compaction drops them.
TypeOK ==
    /\ log \in [Origins -> Log]
    /\ checkpoint \in [Origins -> EdgeSequences \cup {0}]
    /\ up \in BOOLEAN
    /\ \A o \in Origins : \A s \in DOMAIN fingerprints[o] :
          s \in EdgeSequences /\ fingerprints[o][s] \in Prints
    /\ released \in [Origins -> EdgeSequences \cup {0}]
    /\ compacted \in [Origins -> EdgeSequences \cup {0}]
    /\ totalBytes \in Int /\ ("io" \notin faults.kinds => totalBytes >= 0)
    /\ acked \subseteq [origin : Origins, seq : EdgeSequences, print : Prints]
    /\ faults \in [count : 0..MaxFaults, kinds : SUBSET Faults]

\* An acknowledged record that is not released can be read back from its log
\* (docs/edge/replicated-durability.md): false once a write was cut short.
AckReadable ==
    \A a \in acked :
        \/ a.seq <= checkpoint[a.origin]
        \/ /\ log[a.origin].hdr
           /\ [seq |-> a.seq, print |-> a.print] \in Range(Readable(log[a.origin]))

\* It holds through compaction, power losses and restarts as long as no kill or
\* I/O error cut a write of the store short: what compactEdge, recoverFile and
\* the truncation of a tail must never drop.
AckKept == faults.kinds \cap {"kill", "io"} = {} => AckReadable

\* The fingerprints that decide between a duplicate and a conflict are those of
\* the unreleased records in the logs, after any compaction, crash and recovery,
\* unless a write failed (Put does not take its frame back).
MemoryMatchesLogs ==
    up /\ "io" \notin faults.kinds =>
        \A o \in Origins : fingerprints[o] = Recovered(log[o], released[o])

\* The byte count is that of the files and stays within the budget, "Replica
\* storage is bounded", unless a write failed.
BudgetExact ==
    up /\ "io" \notin faults.kinds =>
        /\ totalBytes = MapThenSumSet(LAMBDA o : SizeOf(log[o]), Origins)
        /\ totalBytes <= MaxBytes

\* After a crash OpenStore succeeds, unless the first Put of an origin was
\* interrupted inside the file header or a write failed: two different records of
\* one sequence are never both in a log.
ReopensUnlessHeaderTorn ==
    ~up /\ "io" \notin faults.kinds => ~OpenMayFail \/ \E o \in Existing : ~log[o].hdr

\* A record is forgotten only under a durable release: the release the store
\* acts on never runs ahead of the checkpoint file, and compaction never ahead
\* of the release, whatever fails in writeReleaseCheckpoint or compactEdge.
ForgetsOnlyReleased ==
    up => \A o \in Origins :
             /\ compacted[o] <= released[o]
             /\ released[o] <= checkpoint[o]
             /\ \A s \in DOMAIN fingerprints[o] : s > released[o]

\* Memory, logs and checkpoints agree after every operation and every failure
\* of one: Put, Release, compactEdge and OpenStore each change only some of them.
StoreConsistent ==
    /\ TypeOK
    /\ MemoryMatchesLogs
    /\ BudgetExact
    /\ ForgetsOnlyReleased
=============================================================================
