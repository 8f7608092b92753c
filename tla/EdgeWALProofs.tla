--------------------------- MODULE EdgeWALProofs ----------------------------
(***************************************************************************)
(* The invariant of EdgeWALInvariant is inductive, and what follows from   *)
(* it for every number of sources, every sizes and every number of faults: *)
(* an accepted record is never lost and an edge sequence never reused.     *)
(* From the invariant, and from what a step may do to the records of the   *)
(* directory, also what the log keeps over its history: sealed segments    *)
(* are final, and the sequences of a source rise with the edge sequence.   *)
(***************************************************************************)
EXTENDS EdgeWALInvariant

-----------------------------------------------------------------------------
(* Append.                                                                 *)

\* The seals once rotate has run, if it must.
TargetSeals(size) == IF NeedsRotation(size) THEN CurrentSealed ELSE seals

\* The directory, the segment and the counters the frame is written to.
LEMMA TargetFacts ==
    ASSUME IInv, Usable, NEW size, RotationOK(size)
    PROVE  LET T == TargetFiles(size)
               n == TargetSegment(size)
           IN  /\ DirInv(T, TargetSeals(size), checkpoint.committed, accepted, attempts)
               /\ n \in DOMAIN T /\ n \in Nat \ {0}
               /\ T[n] \in File /\ T[n].hdr
               /\ \A m \in DOMAIN T : m <= n
               /\ n \notin DOMAIN TargetSeals(size)
               /\ \A i \in 1..Len(T[n].recs) : T[n].recs[i].version = Version
               /\ Above(T, nextSequence)
               /\ TargetOffset(size) = FileSize(T[n])
               /\ DOMAIN CountAfterRotate(size) = DOMAIN T
               /\ CountAfterRotate(size) \in [DOMAIN T -> Nat]
               /\ \A m \in DOMAIN T : CountAfterRotate(size)[m] = Len(T[m].recs)
<1>1. UsableOK /\ CurrentOK /\ current \in Names /\ current # NoFile
  BY Zenon DEF IInv, MemOK, Usable, UsableOK, CurrentOK
<1>2. CASE ~NeedsRotation(size)
  <2>1. /\ TargetFiles(size) = files /\ TargetSegment(size) = current
        /\ TargetSeals(size) = seals /\ TargetOffset(size) = currentSize
        /\ CountAfterRotate(size) = count
    BY <1>2 DEF TargetFiles, TargetSegment, TargetSeals, TargetOffset, CountAfterRotate
  <2>2. /\ DirInv(files, seals, checkpoint.committed, accepted, attempts)
        /\ files \in [Names -> File] /\ count \in [DOMAIN count -> Nat]
        /\ Names \subseteq Nat \ {0}
    BY Zenon DEF IInv, TypeOK
  <2> QED
    BY Zenon, <1>1, <2>1, <2>2 DEF UsableOK, CurrentOK, Names
<1>3. CASE NeedsRotation(size)
  <2> DEFINE x == nextSequence
             T == With(CurrentSynced, x, NewFile)
  <2>1. /\ TargetFiles(size) = T /\ TargetSegment(size) = x
        /\ TargetSeals(size) = CurrentSealed /\ TargetOffset(size) = SegmentHeaderBytes
        /\ CountAfterRotate(size) = With(count, x, 0)
    BY <1>3, Zenon DEF TargetFiles, TargetSegment, TargetSeals, TargetOffset, CountAfterRotate
  <2>2. x \notin Names
    BY <1>3, Zenon DEF RotationOK
  <2>3. /\ DirInv(T, CurrentSealed, checkpoint.committed, accepted, attempts)
        /\ x \notin DOMAIN CurrentSealed
        /\ Above(T, x)
    BY Zenon, <1>3, <2>2, RotateDir, NewFileFacts
  <2>4. DOMAIN CurrentSynced = Names /\ \A m \in Names : CurrentSynced[m].recs = files[m].recs
    BY Zenon, <1>1, SyncFacts DEF Usable
  <2>5. DOMAIN T = Names \cup {x} /\ T[x] = NewFile /\ \A m \in Names : T[m] = CurrentSynced[m]
    BY Zenon, <2>2, <2>4 DEF With
  <2>6. x \in Nat \ {0} /\ \A m \in DOMAIN T : m <= x
    BY <2>3, Zenon DEF Above, IInv, TypeOK
  <2>7. T[x] \in File /\ T[x].hdr /\ T[x].recs = <<>> /\ Len(T[x].recs) = 0
    <3>1. T[x] \in File /\ T[x].hdr /\ T[x].recs = <<>>
      BY Zenon, <2>5, NewFileFacts
    <3> HIDE DEF T, x
    <3> QED
      BY Zenon, <3>1
  <2>8. FileSize(T[x]) = SegmentHeaderBytes
    BY Zenon, <2>7 DEF FileSize
  <2> HIDE DEF T
  <2>9. DOMAIN count = Names /\ \A m \in Names : count[m] = Len(files[m].recs)
    BY Zenon, <1>1 DEF UsableOK
  <2>10. /\ DOMAIN With(count, x, 0) = DOMAIN T
         /\ With(count, x, 0)[x] = 0
         /\ \A m \in Names : With(count, x, 0)[m] = count[m]
         /\ With(count, x, 0) = [m \in DOMAIN T |-> With(count, x, 0)[m]]
    BY Zenon, <2>2, <2>5, <2>9 DEF With
  <2>11. \A m \in DOMAIN T : With(count, x, 0)[m] = Len(T[m].recs) /\ With(count, x, 0)[m] \in Nat
    <3>1. \A m \in Names : count[m] \in Nat
      BY <2>9, Zenon DEF IInv, TypeOK
    <3> QED
      BY <3>1, <2>4, <2>5, <2>7, <2>9, <2>10
  <2>12. With(count, x, 0) \in [DOMAIN T -> Nat]
    BY <2>10, <2>11, Zenon
  <2> QED
    BY <2>1, <2>3, <2>5, <2>6, <2>7, <2>8, <2>10, <2>11, <2>12
<1> QED
  BY Zenon, <1>2, <1>3

\* The record Append builds.
LEMMA NewRecordFacts ==
    ASSUME IInv, NEW src \in Sources, NEW end \in Nat
    PROVE  /\ NewRecord(src, end) \in Record
           /\ NewRecord(src, end).seq = nextSequence
           /\ NewRecord(src, end).srcSeq = sourceSequence[src] + 1
           /\ NewRecord(src, end).srcSeq <= attempts + 1
           /\ NewRecord(src, end).version = Version
           /\ NewRecord(src, end).end = end
<1>1. /\ nextSequence \in Nat \ {0} /\ sourceSequence[src] \in Nat /\ attempts \in Nat
      /\ lastLineageHash \in Nat /\ sourceSequence[src] <= attempts
  BY Zenon DEF IInv, TypeOK, SourceOK
<1>2. Version \in {LegacyVersion, Version}
  BY Zenon
<1> QED
  BY <1>1, <1>2 DEF NewRecord, Record

\* The file with the frame in it, synced or not.
LEMMA FrameFacts ==
    ASSUME NEW f \in File, f.hdr, NEW r \in Record
    PROVE  LET full == [f EXCEPT !.recs = Append(@, r)] IN
           /\ full \in File /\ full.recs = Append(f.recs, r)
           /\ full.hdr = f.hdr /\ full.synced = f.synced
           /\ Synced(full) \in File /\ Synced(full).recs = Append(f.recs, r)
           /\ Synced(full).hdr = f.hdr /\ Synced(full).synced = Len(f.recs) + 2
           /\ Append(f.recs, r) \in Seq(Record)
           /\ Len(Append(f.recs, r)) = Len(f.recs) + 1
           /\ LastOf(Append(f.recs, r)) = r
           /\ Append(f.recs, r) # <<>>
<1> DEFINE s == Append(f.recs, r)
           full == [f EXCEPT !.recs = s]
<1>1. f.recs \in Seq(Record) /\ Len(f.recs) \in Nat
  BY DEF File
<1>2. s \in Seq(Record) /\ Len(s) = Len(f.recs) + 1 /\ s[Len(f.recs) + 1] = r /\ s # <<>>
  BY <1>1
<1>3. LastOf(s) = r
  BY <1>2, Zenon DEF LastOf
<1> HIDE DEF s
<1>4. full \in File /\ full.recs = s /\ full.hdr = f.hdr /\ full.synced = f.synced
  BY Zenon, <1>2 DEF File
<1>5. Written(full) = Len(f.recs) + 2 /\ Written(full) \in Nat
  BY <1>1, <1>2, <1>4 DEF Written
<1> HIDE DEF full
<1>6. /\ Synced(full) \in File /\ Synced(full).recs = s
      /\ Synced(full).hdr = f.hdr /\ Synced(full).synced = Len(f.recs) + 2
  BY Zenon, <1>4, <1>5 DEF Synced, File
<1> QED
  BY Zenon, <1>2, <1>3, <1>4, <1>6 DEF s, full

\* A frame at the end of the target segment, with the bound on source
\* sequences raised by the attempt.
LEMMA FrameDir ==
    ASSUME IInv, Usable, NEW src \in Sources, NEW size, RotationOK(size), NEW end \in Nat,
           NEW g, g \in File, g.hdr,
           g.recs = Append(TargetFiles(size)[TargetSegment(size)].recs, NewRecord(src, end)),
           \/ g.synced = TargetFiles(size)[TargetSegment(size)].synced
           \/ g.synced = Len(TargetFiles(size)[TargetSegment(size)].recs) + 2
    PROVE  LET T == TargetFiles(size)
               n == TargetSegment(size)
               gs == [T EXCEPT ![n] = g]
           IN  /\ Appended(T, gs, n, NewRecord(src, end))
               /\ DirInv(gs, TargetSeals(size), checkpoint.committed, accepted, attempts + 1)
               /\ Above(gs, nextSequence + 1)
<1> DEFINE T == TargetFiles(size)
           n == TargetSegment(size)
           r == NewRecord(src, end)
           gs == [T EXCEPT ![n] = g]
           sl == TargetSeals(size)
           c == checkpoint.committed
<1>1. /\ DirInv(T, sl, c, accepted, attempts)
      /\ n \in DOMAIN T /\ T[n] \in File /\ T[n].hdr
      /\ \A m \in DOMAIN T : m <= n
      /\ n \notin DOMAIN sl
      /\ \A i \in 1..Len(T[n].recs) : T[n].recs[i].version = Version
      /\ Above(T, nextSequence)
  BY Zenon, TargetFacts
<1>2. r \in Record /\ r.seq = nextSequence /\ r.version = Version /\ r.srcSeq <= attempts + 1
  BY Zenon, NewRecordFacts
<1>3. \A q \in accepted : q.seq < r.seq
  BY <1>2, Zenon DEF IInv, AcceptedUnique
<1>4. /\ g.recs = Append(T[n].recs, r)
      /\ g.synced = T[n].synced \/ g.synced = Len(T[n].recs) + 2
  BY Zenon
<1>5. attempts \in Nat
  BY KeptTypes, Zenon
<1> HIDE DEF T, n, r, sl, c
<1>6. T \in [DOMAIN T -> File]
  BY Zenon, <1>1 DEF DirInv, FilesOK
<1>7. gs[n] = g /\ gs = [T EXCEPT ![n] = gs[n]] /\ g.hdr = T[n].hdr
  BY <1>1, <1>6, Zenon DEF File
<1> HIDE DEF gs
<1>8. Appended(T, gs, n, r)
  BY Zenon, <1>1, <1>2, <1>4, <1>7 DEF Appended
<1>9. DirInv(T, sl, c, accepted, attempts + 1)
  BY <1>1, <1>5, MoreAttempts
<1>10. DirInv(gs, sl, c, accepted, attempts + 1)
  BY Zenon, <1>1, <1>2, <1>3, <1>8, <1>9, AppendDir
<1>11. Above(gs, nextSequence + 1)
  BY Zenon, <1>1, <1>2, <1>8, AppendRest DEF DirInv
<1> QED
  BY <1>8, <1>10, <1>11, Zenon DEF T, n, r, gs, sl, c

\* The offset of the target segment.
LEMMA OffsetType ==
    ASSUME IInv, NEW size \in FrameSizes
    PROVE  TargetOffset(size) + size \in Nat /\ TargetOffset(size) \in Nat
<1>1. currentSize \in Nat
  BY Zenon DEF IInv, TypeOK
<1> QED
  BY <1>1, SizesAssumption DEF TargetOffset

\* What rotate leaves in memory has its type.
LEMMA RotateMemoryTypes ==
    ASSUME IInv, Usable, NEW size, RotateMemory(size)
    PROVE  /\ seals' = TargetSeals(size)
           /\ lastSegmentRoot' \in Seq(Nat \ {0})
           /\ startHash' \in Nat
<1>1. /\ startHash \in Nat /\ lastLineageHash \in Nat
      /\ lastSegmentRoot \in Seq(Nat \ {0})
  BY Zenon DEF IInv, TypeOK
<1>2. current # NoFile
  BY Zenon DEF IInv, MemOK, Usable, UsableOK
<1>3. RootAfterSeal \in Seq(Nat \ {0})
  BY <1>2, SealCurrent DEF Usable
<1> QED
  BY <1>1, <1>3, Zenon DEF RotateMemory, TargetSeals

\* The directory after an append: the record is accepted and durable.
LEMMA AppendEventDir ==
    ASSUME IInv, NEW src \in Sources, NEW size \in FrameSizes, AppendEvent(src, size)
    PROVE  LET T == TargetFiles(size)
               n == TargetSegment(size)
               r == NewRecord(src, TargetOffset(size) + size)
           IN  /\ DirInv(files', seals', checkpoint.committed, accepted', attempts + 1)
               /\ Appended(T, files', n, r)
               /\ Above(files', nextSequence + 1)
               /\ FileSize(files'[n]) = TargetOffset(size) + size
               /\ accepted' = accepted \cup {r}
               /\ LastOf(files'[n].recs) = r
<1> DEFINE T == TargetFiles(size)
           n == TargetSegment(size)
           end == TargetOffset(size) + size
           r == NewRecord(src, end)
           f == T[n]
           full == [f EXCEPT !.recs = Append(@, r)]
           g == Synced(full)
           c == checkpoint.committed
<1>1. Usable /\ RotationOK(size)
  BY Zenon DEF AppendEvent, AppendEnabled
<1>2. /\ files' = [T EXCEPT ![n] = g]
      /\ accepted' = accepted \cup {r}
      /\ RotateMemory(size)
  BY Zenon DEF AppendEvent
<1>3. end \in Nat
  BY OffsetType, Zenon
<1>4. n \in DOMAIN T /\ f \in File /\ f.hdr
  BY Zenon, <1>1, TargetFacts
<1>5. r \in Record /\ r.end = end /\ r.seq = nextSequence
  BY <1>3, NewRecordFacts, Zenon
<1> HIDE DEF f, r, end
<1>6. /\ g \in File /\ g.recs = Append(f.recs, r) /\ g.hdr /\ g.synced = Len(f.recs) + 2
      /\ g.recs # <<>> /\ LastOf(g.recs) = r
  <2>1. /\ g \in File /\ g.recs = Append(f.recs, r) /\ g.hdr = f.hdr /\ g.synced = Len(f.recs) + 2
        /\ Append(f.recs, r) # <<>> /\ LastOf(Append(f.recs, r)) = r
    BY ZenonT(30), <1>4, <1>5, FrameFacts
  <2> HIDE DEF g, full
  <2> QED
    BY Zenon, <1>4, <2>1
<1> HIDE DEF g, full
<1>7. /\ Appended(T, files', n, r)
      /\ DirInv(files', TargetSeals(size), c, accepted, attempts + 1)
      /\ Above(files', nextSequence + 1)
  BY Zenon, <1>1, <1>2, <1>3, <1>6, FrameDir DEF f, r
<1>8. seals' = TargetSeals(size)
  BY Zenon, <1>1, <1>2, RotateMemoryTypes
<1> HIDE DEF T, n
<1> USE DEF f
<1>9. FilesOK(T) /\ T \in [DOMAIN T -> File]
  BY Zenon, <1>1, TargetFacts DEF DirInv, FilesOK, T
<1>10. files'[n] = g
  BY <1>2, <1>4, <1>9
<1>11. FileSize(files'[n]) = end
  BY Zenon, <1>5, <1>6, <1>10 DEF FileSize
<1> DEFINE k == Len(f.recs) + 1
<1>12. /\ DOMAIN files' = DOMAIN T /\ Len(files'[n].recs) = k /\ k \in Nat
       /\ k \in 1..Len(files'[n].recs)
       /\ files'[n].recs[k] = r /\ k < files'[n].synced
  <2>1. DOMAIN files' = DOMAIN T /\ Len(files'[n].recs) = k /\ files'[n].recs[k] = r
    BY <1>7, <1>9, AppendFacts
  <2>2. Len(f.recs) \in Nat
    BY <1>4, <1>9, FileFacts, Zenon
  <2> QED
    BY <2>1, <2>2, <1>6, <1>10
<1>13. DurableIn(accepted', files', c)
  <2>1. DurableIn(accepted, files', c)
    BY <1>7, Zenon DEF DirInv
  <2>2. \E m \in DOMAIN files' : \E i \in 1..Len(files'[m].recs) :
            files'[m].recs[i] = r /\ i < files'[m].synced
    BY <1>4, <1>12, Zenon
  <2> QED
    BY <1>2, <2>1, <2>2 DEF DurableIn
<1>14. UniqueIn(accepted', files')
  <2>1. UniqueIn(accepted, files')
    BY <1>7, Zenon DEF DirInv
  <2>2. ASSUME NEW m \in DOMAIN files', NEW i \in 1..Len(files'[m].recs),
               files'[m].recs[i].seq = r.seq
        PROVE  files'[m].recs[i] = r
    <3>1. Above(T, nextSequence)
      BY Zenon, <1>1, TargetFacts DEF T
    <3>2. nextSequence \in Nat
      BY DEF IInv, TypeOK
    <3>3. ~(m \in DOMAIN T /\ i \in 1..Len(T[m].recs) /\ files'[m].recs[i] = T[m].recs[i])
      BY <2>2, <3>1, <3>2, <1>5 DEF Above
    <3>4. CASE m # n
      BY <3>3, <3>4, <1>7, <1>9, <1>12, AppendFacts
    <3>5. CASE m = n
      <4>1. \A j \in 1..Len(T[n].recs) : files'[n].recs[j] = T[n].recs[j]
        BY <1>7, <1>9, AppendFacts
      <4>2. i \notin 1..Len(T[n].recs)
        BY <3>3, <3>5, <4>1, <1>4, Zenon
      <4>3. i = k
        BY <4>2, <3>5, <1>12, <1>4, <1>9, FileFacts
      <4> QED
        BY <4>3, <3>5, <1>12, Zenon
    <3> QED
      BY Zenon, <3>4, <3>5
  <2> QED
    BY <1>2, <2>1, <2>2 DEF UniqueIn
<1>15. DirInv(files', seals', c, accepted', attempts + 1)
  BY <1>7, <1>8, <1>13, <1>14 DEF DirInv
<1> QED
  BY Zenon, <1>2, <1>6, <1>7, <1>10, <1>11, <1>15 DEF T, n, r, end

\* Append that accepts an event keeps the invariant, with or without rotation.
LEMMA AppendEventInv ==
    ASSUME IInv, NEW src \in Sources, NEW size \in FrameSizes, AppendEvent(src, size)
    PROVE  IInv'
<1> DEFINE T == TargetFiles(size)
           n == TargetSegment(size)
           end == TargetOffset(size) + size
           r == NewRecord(src, end)
           x == nextSequence
           cnt == CountAfterRotate(size)
<1>1. Usable /\ RotationOK(size) /\ UsableOK
  BY Zenon DEF AppendEvent, AppendEnabled, IInv, MemOK
<1>2. /\ currentSize' = end /\ current' = n /\ nextSequence' = x + 1 /\ attempts' = attempts + 1
      /\ count' = [cnt EXCEPT ![n] = @ + 1]
      /\ sourceSequence' = [sourceSequence EXCEPT ![src] = r.srcSeq]
      /\ lastLineageHash' = r.id
      /\ RotateMemory(size)
      /\ UNCHANGED <<checkpoint, phase, committed, failed, pressure, faults>>
  BY Zenon DEF AppendEvent
<1>3. /\ DirInv(files', seals', checkpoint.committed, accepted', attempts + 1)
      /\ Appended(T, files', n, r)
      /\ Above(files', x + 1)
      /\ FileSize(files'[n]) = end
      /\ accepted' = accepted \cup {r}
      /\ LastOf(files'[n].recs) = r
  BY AppendEventDir, Zenon
<1>4. end \in Nat
  BY OffsetType, Zenon
<1>5. /\ r \in Record /\ r.seq = x /\ r.srcSeq = sourceSequence[src] + 1
      /\ r.srcSeq <= attempts + 1 /\ r.version = Version
  BY <1>4, NewRecordFacts, Zenon
<1>6. /\ FilesOK(T) /\ n \in DOMAIN T /\ n \in Nat \ {0} /\ T[n].hdr
      /\ \A m \in DOMAIN T : m <= n
      /\ n \notin DOMAIN TargetSeals(size)
      /\ \A i \in 1..Len(T[n].recs) : T[n].recs[i].version = Version
      /\ DOMAIN cnt = DOMAIN T /\ cnt \in [DOMAIN T -> Nat]
      /\ \A m \in DOMAIN T : cnt[m] = Len(T[m].recs)
  BY Zenon, <1>1, TargetFacts DEF DirInv
<1>7. /\ seals' = TargetSeals(size)
      /\ lastSegmentRoot' \in Seq(Nat \ {0})
      /\ startHash' \in Nat
  BY <1>1, <1>2, RotateMemoryTypes, Zenon
<1> HIDE DEF T, n, end, r, cnt
<1>8. /\ DOMAIN files' = DOMAIN T
      /\ \A m \in DOMAIN T : m # n => files'[m] = T[m]
      /\ Len(files'[n].recs) = Len(T[n].recs) + 1
      /\ \A i \in 1..Len(T[n].recs) : files'[n].recs[i] = T[n].recs[i]
      /\ files'[n].recs[Len(T[n].recs) + 1] = r
      /\ files'[n].hdr = T[n].hdr
  <2>1. Appended(T, files', n, r) /\ FilesOK(T)
    BY Zenon, <1>3, <1>6
  <2>2. files'[n].hdr = T[n].hdr
    BY Zenon, <2>1 DEF Appended
  <2> QED
    BY SMTT(30), <2>1, <2>2, AppendFacts
<1>9. /\ DOMAIN count' = DOMAIN files' /\ count' \in [DOMAIN count' -> Nat]
      /\ \A m \in DOMAIN files' : count'[m] = Len(files'[m].recs)
  <2>1. count' = [cnt EXCEPT ![n] = @ + 1] /\ cnt \in [DOMAIN T -> Nat] /\ n \in DOMAIN T
    BY Zenon, <1>2, <1>6
  <2>2. /\ DOMAIN count' = DOMAIN T /\ count' \in [DOMAIN T -> Nat]
        /\ count'[n] = cnt[n] + 1
        /\ \A m \in DOMAIN T : m # n => count'[m] = cnt[m]
    BY <2>1
  <2>3. count'[n] = Len(files'[n].recs)
    BY Zenon, <1>6, <1>8, <2>2
  <2>4. \A m \in DOMAIN T : m # n => count'[m] = Len(files'[m].recs)
    BY Zenon, <1>6, <1>8, <2>2
  <2> QED
    BY Zenon, <1>8, <2>2, <2>3, <2>4
<1>10. /\ DOMAIN files' \subseteq Nat \ {0} /\ files' \in [DOMAIN files' -> File]
       /\ DOMAIN seals' \subseteq Nat \ {0} /\ seals' \in [DOMAIN seals' -> Seal]
  BY Zenon, <1>3 DEF DirInv, FilesOK, SealsOK
<1>11. /\ attempts \in Nat /\ x \in Nat \ {0} /\ sourceSequence \in [Sources -> Nat]
       /\ \A s \in Sources : sourceSequence[s] <= attempts /\ checkpoint.source[s] <= attempts
       /\ checkpoint \in [committed : Nat, source : [Sources -> Nat]] /\ committed \in Nat
  BY Zenon DEF IInv, TypeOK, SourceOK
<1>12. TypeOK'
  <2>1. sourceSequence' \in [Sources -> Nat] /\ lastLineageHash' \in Nat
    BY <1>2, <1>5, <1>11, Zenon DEF Record
  <2>2. accepted' \subseteq Record
    BY Zenon, <1>3, <1>5 DEF IInv, TypeOK
  <2>3. failed' \in BOOLEAN /\ pressure' \in BOOLEAN /\ phase' \in {"down", "up"} /\ faults' \in Nat
    BY <1>2, Zenon DEF IInv, TypeOK
  <2>4. current' \in Nat /\ currentSize' \in Nat /\ nextSequence' \in Nat \ {0} /\ attempts' \in Nat
    <3>1. current' = n /\ currentSize' = end /\ nextSequence' = x + 1 /\ attempts' = attempts + 1
      BY Zenon, <1>2
    <3>2. n \in Nat \ {0} /\ end \in Nat /\ x \in Nat \ {0} /\ attempts \in Nat
      BY Zenon, <1>4, <1>6, <1>11
    <3> QED
      BY <3>1, <3>2
  <2>5. DOMAIN count' \subseteq Nat \ {0} /\ count' \in [DOMAIN count' -> Nat]
    BY <1>9, <1>10, Zenon
  <2>6. checkpoint' \in [committed : Nat, source : [Sources -> Nat]] /\ committed' \in Nat
    BY <1>2, <1>11, Zenon
  <2> QED
    BY Zenon, <1>7, <1>10, <2>1, <2>2, <2>3, <2>4, <2>5, <2>6 DEF TypeOK, Names
<1>13. DirInv(files, seals, checkpoint.committed, accepted, attempts)'
  BY Zenon, <1>2, <1>3
<1>14. SourceOK'
  <2> SUFFICES ASSUME NEW s \in Sources
               PROVE  checkpoint'.source[s] <= attempts' /\ sourceSequence'[s] <= attempts'
    BY Zenon DEF SourceOK
  <2>1. checkpoint.source[s] \in Nat /\ sourceSequence[s] \in Nat
    BY <1>11, Zenon
  <2>2. sourceSequence'[s] = IF s = src THEN r.srcSeq ELSE sourceSequence[s]
    BY <1>2, <1>11, Zenon
  <2> QED
    BY <2>1, <2>2, <1>2, <1>5, <1>11
<1>15. CurrentOK'
  <2>1. current' = n /\ n \in DOMAIN files' /\ n \in DOMAIN count' /\ files'[n].hdr
    BY Zenon, <1>2, <1>6, <1>8, <1>9
  <2>2. count'[n] = Len(files'[n].recs) /\ count'[n] \in Nat
    BY Zenon, <1>9, <2>1
  <2>3. count'[n] <= Len(files'[n].recs)
    BY <2>2
  <2> QED
    BY Zenon, <2>1, <2>3 DEF CurrentOK, Names
<1>16. UsableOK'
  <2>1. current' # NoFile
    BY Zenon, <1>2, <1>6 DEF NoFile
  <2>2. \A i \in 1..Len(files'[n].recs) : files'[n].recs[i].version = Version
    <3>1. Len(T[n].recs) \in Nat
      BY Zenon, <1>6, FileFacts
    <3> SUFFICES ASSUME NEW i \in 1..Len(files'[n].recs)
                 PROVE  files'[n].recs[i].version = Version
      BY Zenon
    <3>2. Len(files'[n].recs) = Len(T[n].recs) + 1
      BY Zenon, <1>8
    <3>3. i \in 1..Len(T[n].recs) \/ i = Len(T[n].recs) + 1
      BY <3>1, <3>2
    <3>4. CASE i \in 1..Len(T[n].recs)
      BY Zenon, <1>6, <1>8, <3>4
    <3>5. CASE i = Len(T[n].recs) + 1
      BY Zenon, <1>5, <1>8, <3>5
    <3> QED
      BY <3>3, <3>4, <3>5, Zenon
  <2>3. committed' = checkpoint'.committed /\ committed' < nextSequence'
    <3>1. /\ committed' = committed /\ checkpoint' = checkpoint /\ nextSequence' = x + 1
          /\ committed = checkpoint.committed /\ committed < x
      BY Zenon, <1>1, <1>2 DEF UsableOK
    <3>2. committed \in Nat /\ x \in Nat
      BY <1>11, Zenon
    <3> QED
      BY <3>1, <3>2
  <2>4. LastOf(files'[n].recs).seq = nextSequence' - 1
    <3>1. LastOf(files'[n].recs) = r /\ r.seq = x /\ nextSequence' = x + 1 /\ x \in Nat \ {0}
      BY Zenon, <1>2, <1>3, <1>5, <1>11
    <3> QED
      BY <3>1
  <2>5. n \notin DOMAIN seals' /\ \A m \in DOMAIN files' : m <= n
    BY Zenon, <1>6, <1>7, <1>8
  <2> QED
    BY Zenon, <1>2, <1>3, <1>9, <2>1, <2>2, <2>3, <2>4, <2>5 DEF UsableOK, Names
<1>17. AcceptedUnique'
  <2>1. \A q \in accepted : q.seq < x /\ q.seq \in Nat
    BY Zenon, <1>1 DEF IInv, AcceptedUnique, TypeOK, Record
  <2>2. \A q \in accepted' : q.seq < x + 1
    BY <2>1, <1>3, <1>5, <1>11
  <2>3. \A p, q \in accepted' : p.seq = q.seq => p = q
    <3>1. \A p, q \in accepted : p.seq = q.seq => p = q
      BY Zenon DEF IInv, AcceptedUnique
    <3>2. \A q \in accepted : q.seq # r.seq
      BY <2>1, <1>5, <1>11
    <3> QED
      BY <3>1, <3>2, <1>3, Zenon
  <2> QED
    BY <2>2, <2>3, <1>2, Zenon DEF AcceptedUnique
<1> QED
  BY Zenon, <1>12, <1>13, <1>14, <1>15, <1>16, <1>17 DEF IInv, MemOK

\* Append that reports disk pressure keeps the invariant.
LEMMA AppendRejectedInv ==
    ASSUME IInv, NEW size \in FrameSizes, AppendRejected(size)
    PROVE  IInv'
<1>1. /\ UNCHANGED <<files, seals, checkpoint, phase, count, current, startHash, currentSize,
                     nextSequence, sourceSequence, committed, failed, lastLineageHash,
                     lastSegmentRoot, accepted, attempts, faults>>
      /\ pressure' = TRUE
  BY Zenon DEF AppendRejected, disk
<1>2. TypeOK'
  BY Zenon, <1>1 DEF IInv, TypeOK, Names
<1>3. DirInv(files, seals, checkpoint.committed, accepted, attempts)'
  BY <1>1, Zenon DEF IInv
<1>4. SourceOK' /\ AcceptedUnique'
  BY Zenon, <1>1 DEF IInv, SourceOK, AcceptedUnique, Usable
<1>5. MemOK'
  BY Zenon, <1>1 DEF IInv, MemOK, Usable, CurrentOK, UsableOK, Names
<1> QED
  BY Zenon, <1>2, <1>3, <1>4, <1>5 DEF IInv

\* A write fails: the store latches as failed.
LEMMA FailedInv ==
    ASSUME IInv, phase' = "up", failed' = TRUE, accepted' = accepted, faults' \in Nat,
           attempts' \in Nat, attempts <= attempts',
           checkpoint' \in [committed : Nat, source : [Sources -> Nat]],
           \A s \in Sources : checkpoint'.source[s] <= attempts',
           DirInv(files', seals', checkpoint'.committed, accepted, attempts'),
           DOMAIN count' \subseteq Nat \ {0}, count' \in [DOMAIN count' -> Nat],
           current' \in Nat, currentSize' \in Nat, startHash' \in Nat,
           committed' \in Nat, lastSegmentRoot' \in Seq(Nat \ {0}),
           UNCHANGED <<nextSequence, sourceSequence, pressure, lastLineageHash>>,
           CurrentOK'
    PROVE  IInv'
<1>1. /\ DOMAIN files' \subseteq Nat \ {0}
      /\ files' \in [DOMAIN files' -> File]
      /\ DOMAIN seals' \subseteq Nat \ {0}
      /\ seals' \in [DOMAIN seals' -> Seal]
  BY Zenon DEF DirInv, FilesOK, SealsOK
<1>2. /\ nextSequence' \in Nat \ {0} /\ sourceSequence' \in [Sources -> Nat]
      /\ lastLineageHash' \in Nat /\ accepted' \subseteq Record
  BY Zenon DEF IInv, TypeOK
<1>3. failed' \in BOOLEAN /\ pressure' \in BOOLEAN /\ phase' \in {"down", "up"}
  <2>1. pressure \in BOOLEAN
    BY Zenon DEF IInv, TypeOK
  <2> QED
    BY <2>1, Zenon
<1>4. TypeOK'
  BY Zenon, <1>1, <1>2, <1>3 DEF TypeOK, Names
<1>5. DirInv(files, seals, checkpoint.committed, accepted, attempts)'
  BY Zenon
<1>6. SourceOK'
  <2>1. \A s \in Sources : sourceSequence[s] \in Nat /\ sourceSequence[s] <= attempts
    BY Zenon DEF IInv, TypeOK, SourceOK
  <2>2. attempts \in Nat
    BY Zenon DEF IInv, TypeOK
  <2> QED
    BY <2>1, <2>2 DEF SourceOK
<1>7. ~Usable'
  BY Zenon DEF Usable
<1>8. MemOK' /\ AcceptedUnique'
  BY <1>7, Zenon DEF IInv, MemOK, AcceptedUnique
<1> QED
  BY <1>4, <1>5, <1>6, <1>8, Zenon DEF IInv

\* What an interrupted write of the frame may leave in the target segment.
LEMMA AppendInterruptedDir ==
    ASSUME IInv, NEW src \in Sources, NEW size \in FrameSizes, AppendInterrupted(src, size)
    PROVE  LET T == TargetFiles(size)
               n == TargetSegment(size)
           IN  /\ DirInv(files', TargetSeals(size), checkpoint.committed, accepted, attempts + 1)
               /\ DOMAIN files' = DOMAIN T
               /\ files'[n].hdr
               /\ Len(T[n].recs) <= Len(files'[n].recs)
               /\ \/ Touched(T, files')
                  \/ Appended(T, files', n, NewRecord(src, TargetOffset(size) + size))
<1> DEFINE T == TargetFiles(size)
           n == TargetSegment(size)
           end == TargetOffset(size) + size
           r == NewRecord(src, end)
           f == T[n]
           full == [f EXCEPT !.recs = Append(@, r)]
           c == checkpoint.committed
           sl == TargetSeals(size)
<1>1. Usable /\ RotationOK(size)
  BY Zenon DEF AppendInterrupted, AppendEnabled
<1>2. PICK g \in {f, [f EXCEPT !.torn = TRUE], full, Synced(full)} : files' = [T EXCEPT ![n] = g]
  BY Zenon DEF AppendInterrupted
<1>3. end \in Nat
  BY OffsetType, Zenon
<1>4. n \in DOMAIN T /\ f \in File /\ f.hdr /\ DirInv(T, sl, c, accepted, attempts)
  BY <1>1, TargetFacts, Zenon
<1>5. r \in Record
  BY <1>3, NewRecordFacts, Zenon
<1>6. attempts \in Nat
  BY KeptTypes, Zenon
<1> HIDE DEF f, r, end
<1>7. CASE g \in {full, Synced(full)}
  <2>1. /\ g \in File /\ g.recs = Append(f.recs, r) /\ g.hdr
        /\ g.synced = f.synced \/ g.synced = Len(f.recs) + 2
        /\ Len(g.recs) = Len(f.recs) + 1
    <3>1. /\ full \in File /\ full.recs = Append(f.recs, r)
          /\ full.hdr = f.hdr /\ full.synced = f.synced
          /\ Synced(full) \in File /\ Synced(full).recs = Append(f.recs, r)
          /\ Synced(full).hdr = f.hdr /\ Synced(full).synced = Len(f.recs) + 2
          /\ Len(Append(f.recs, r)) = Len(f.recs) + 1
      BY Zenon, <1>4, <1>5, FrameFacts
    <3> HIDE DEF full
    <3> QED
      BY Zenon, <3>1, <1>4, <1>7
  <2> HIDE DEF full
  <2>2. /\ DirInv([T EXCEPT ![n] = g], sl, c, accepted, attempts + 1)
        /\ Appended(T, [T EXCEPT ![n] = g], n, r)
    BY Zenon, <1>1, <1>3, <2>1, FrameDir DEF f, r
  <2> HIDE DEF T, n
  <2>3. T \in [DOMAIN T -> File] /\ Len(f.recs) \in Nat
    BY <1>4, FileFacts, Zenon DEF DirInv, FilesOK, f
  <2>4. files'[n] = g /\ DOMAIN files' = DOMAIN T
    BY <1>2, <1>4, <2>3, Zenon
  <2>5. Len(f.recs) <= Len(g.recs)
    BY <2>1, <2>3
  <2> QED
    BY Zenon, <1>2, <2>1, <2>2, <2>4, <2>5 DEF T, n, f, r, end
<1>8. CASE g \in {f, [f EXCEPT !.torn = TRUE]}
  <2>1. g \in File /\ g.recs = f.recs /\ g.hdr /\ g.synced = f.synced
    BY Zenon, <1>4, <1>8 DEF File
  <2> HIDE DEF T, n
  <2>2. T \in [DOMAIN T -> File] /\ Len(f.recs) \in Nat
    BY <1>4, FileFacts, Zenon DEF DirInv, FilesOK, f
  <2>3. /\ files'[n] = g /\ DOMAIN files' = DOMAIN T
        /\ \A m \in DOMAIN T : m # n => files'[m] = T[m]
        /\ files' \in [DOMAIN T -> File]
    BY <1>2, <1>4, <2>1, <2>2, Zenon
  <2>4. Touched(T, files')
    BY <2>1, <2>3, Zenon DEF Touched, f
  <2>5. DirInv(files', sl, c, accepted, attempts)
    BY <1>4, <2>4, TouchDir, Zenon
  <2>6. DirInv(files', sl, c, accepted, attempts + 1)
    BY <1>6, <2>5, MoreAttempts
  <2> QED
    <3>1. Len(f.recs) <= Len(g.recs)
      BY <2>1, <2>2
    <3> QED
      BY Zenon, <2>1, <2>3, <2>4, <2>6, <3>1 DEF T, n, f
<1> QED
  BY <1>2, <1>7, <1>8, Zenon

\* Append that fails or dies between its writes keeps the invariant.
LEMMA AppendInterruptedInv ==
    ASSUME IInv, NEW src \in Sources, NEW size \in FrameSizes, AppendInterrupted(src, size)
    PROVE  IInv'
<1> DEFINE T == TargetFiles(size)
           n == TargetSegment(size)
           c == checkpoint.committed
<1>1. /\ Usable /\ RotationOK(size) /\ attempts' = attempts + 1
      /\ checkpoint' = checkpoint /\ accepted' = accepted
  BY Zenon DEF AppendInterrupted, AppendEnabled
<1>2. /\ DirInv(files', TargetSeals(size), c, accepted, attempts + 1)
      /\ DOMAIN files' = DOMAIN T /\ files'[n].hdr
      /\ Len(T[n].recs) <= Len(files'[n].recs)
  BY Zenon, AppendInterruptedDir
<1>3. /\ attempts \in Nat /\ attempts' \in Nat /\ attempts <= attempts'
      /\ checkpoint' \in [committed : Nat, source : [Sources -> Nat]]
      /\ \A s \in Sources : checkpoint'.source[s] <= attempts'
  <2>1. /\ attempts \in Nat /\ checkpoint \in [committed : Nat, source : [Sources -> Nat]]
        /\ \A s \in Sources : checkpoint.source[s] <= attempts
    BY KeptTypes, Zenon
  <2>2. \A s \in Sources : checkpoint.source[s] \in Nat
    BY <2>1, Zenon
  <2> QED
    BY <1>1, <2>1, <2>2
<1>4. CASE /\ Fault("kill")
           /\ seals' = (IF NeedsRotation(size) THEN CurrentSealed ELSE seals)
           /\ Die
  <2>1. seals' = TargetSeals(size)
    BY Zenon, <1>4 DEF TargetSeals
  <2>2. faults' \in Nat
    BY <1>4, FaultType, Zenon
  <2>3. DirInv(files', seals', checkpoint'.committed, accepted, attempts')
    BY Zenon, <1>1, <1>2, <2>1
  <2> QED
    BY <1>1, <1>3, <1>4, <2>2, <2>3, DownInv, Zenon
<1>5. CASE /\ Fault("io")
           /\ RotateMemory(size)
           /\ count' = CountAfterRotate(size)
           /\ currentSize' = TargetOffset(size)
           /\ failed' = TRUE
           /\ current' = n
           /\ UNCHANGED <<phase, nextSequence, sourceSequence, committed,
                          pressure, lastLineageHash>>
  <2>1. /\ seals' = TargetSeals(size) /\ startHash' \in Nat
        /\ lastSegmentRoot' \in Seq(Nat \ {0})
    BY Zenon, <1>1, <1>5, RotateMemoryTypes
  <2>2. faults' \in Nat
    BY Zenon, <1>5, FaultType
  <2>3. DirInv(files', seals', checkpoint'.committed, accepted, attempts')
    BY Zenon, <1>1, <1>2, <2>1
  <2>4. /\ n \in DOMAIN T /\ n \in Nat \ {0}
        /\ DOMAIN CountAfterRotate(size) = DOMAIN T
        /\ CountAfterRotate(size) \in [DOMAIN T -> Nat]
        /\ CountAfterRotate(size)[n] = Len(T[n].recs)
    BY Zenon, <1>1, TargetFacts
  <2>5. DOMAIN count' \subseteq Nat \ {0} /\ count' \in [DOMAIN count' -> Nat]
    <3>1. DOMAIN files' \subseteq Nat \ {0}
      BY Zenon, <1>2 DEF DirInv, FilesOK
    <3> QED
      BY Zenon, <3>1, <1>2, <1>5, <2>4
  <2>6. current' \in Nat /\ currentSize' \in Nat
    BY Zenon, <1>5, <2>4, OffsetType
  <2>7. CurrentOK'
    BY Zenon, <1>2, <1>5, <2>4 DEF CurrentOK, Names
  <2>8. phase' = "up" /\ committed' \in Nat
    BY Zenon, <1>1, <1>5 DEF Usable, IInv, TypeOK
  <2> QED
    BY Zenon, <1>1, <1>3, <1>5, <2>1, <2>2, <2>3, <2>5, <2>6, <2>7, <2>8, FailedInv
<1> QED
  BY Zenon, <1>4, <1>5 DEF AppendInterrupted

\* rotate that fails or dies between its steps keeps the invariant.
LEMMA RotateInterruptedInv ==
    ASSUME IInv, NEW size \in FrameSizes, RotateInterrupted(size)
    PROVE  IInv'
<1> DEFINE c == checkpoint.committed
<1>1. /\ Usable /\ NeedsRotation(size) /\ current # NoFile /\ current \in Names
      /\ UNCHANGED <<checkpoint, accepted, attempts>>
  BY Zenon DEF RotateInterrupted, AppendEnabled, IInv, MemOK, Usable, UsableOK, CurrentOK
<1>2. PICK sealed \in BOOLEAN :
          /\ seals' = IF sealed THEN CurrentSealed ELSE seals
          /\ \/ files' = CurrentSynced
             \/ ~sealed /\ files' = files
             \/ /\ sealed
                /\ nextSequence \notin Names
                /\ \E f \in PartialNewFiles : files' = With(CurrentSynced, nextSequence, f)
          /\ \/ Fault("kill") /\ Die
             \/ /\ Fault("io")
                /\ failed' = TRUE
                /\ lastSegmentRoot' = IF sealed THEN RootAfterSeal ELSE lastSegmentRoot
                /\ current' \in IF sealed THEN {NoFile} ELSE {current, NoFile}
                /\ UNCHANGED <<phase, count, startHash, currentSize, totalBytes,
                               nextSequence, sourceSequence, committed, pressure,
                               lastLineageHash>>
  BY Zenon DEF RotateInterrupted
<1>3. /\ DirInv(CurrentSynced, CurrentSealed, c, accepted, attempts)
      /\ RootAfterSeal \in Seq(Nat \ {0})
  BY Zenon, <1>1, SealCurrent DEF Usable
<1>4. DirInv(files, seals, c, accepted, attempts)
  BY Zenon DEF IInv
<1>5. Touched(files, CurrentSynced)
  BY Zenon, <1>1, SyncFacts DEF Usable
<1>6. DirInv(CurrentSynced, seals, c, accepted, attempts)
  BY Zenon, <1>4, <1>5, TouchDir
<1>7. \A f \in PartialNewFiles : nextSequence \notin Names =>
          DirInv(With(CurrentSynced, nextSequence, f), CurrentSealed, c, accepted, attempts)
  BY Zenon, <1>1, RotateDir, NewFileFacts
<1>8. DirInv(files', seals', c, accepted, attempts)
  BY Zenon, <1>2, <1>3, <1>4, <1>6, <1>7
<1>9. faults' \in Nat
  BY Zenon, <1>2, FaultType
<1>10. CASE Fault("kill") /\ Die
  BY Zenon, <1>1, <1>8, <1>9, <1>10, KeptTypes, DownInv
<1>11. CASE /\ Fault("io")
            /\ failed' = TRUE
            /\ lastSegmentRoot' = (IF sealed THEN RootAfterSeal ELSE lastSegmentRoot)
            /\ current' \in (IF sealed THEN {NoFile} ELSE {current, NoFile})
            /\ UNCHANGED <<phase, count, startHash, currentSize, totalBytes,
                           nextSequence, sourceSequence, committed, pressure,
                           lastLineageHash>>
  <2>1. /\ DOMAIN count' \subseteq Nat \ {0} /\ count' \in [DOMAIN count' -> Nat]
        /\ currentSize' \in Nat /\ startHash' \in Nat /\ committed' \in Nat
        /\ lastSegmentRoot \in Seq(Nat \ {0}) /\ current \in Nat
    BY Zenon, <1>11 DEF IInv, TypeOK
  <2>2. lastSegmentRoot' \in Seq(Nat \ {0}) /\ current' \in Nat
    BY <1>3, <1>11, <2>1 DEF NoFile
  <2>3. CurrentOK'
    <3> SUFFICES ASSUME current' # NoFile PROVE CurrentOK'
      BY Zenon DEF CurrentOK
    <3>1. current' = current /\ ~sealed
      BY Zenon, <1>11
    <3>2. files' = CurrentSynced \/ files' = files
      BY Zenon, <1>2, <3>1
    <3>3. DOMAIN files' = Names /\ files'[current].recs = files[current].recs
      BY Zenon, <1>5, <3>2, <1>1 DEF Touched, Names
    <3>4. CurrentOK
      BY Zenon, <1>1 DEF IInv, MemOK, Usable
    <3>5. files'[current].hdr
      BY Zenon, <1>1, <1>5, <3>2, <3>4 DEF Touched, CurrentOK, Names
    <3> QED
      BY Zenon, <1>1, <1>11, <3>1, <3>3, <3>4, <3>5 DEF CurrentOK, Names
  <2>4. phase' = "up" /\ attempts' \in Nat /\ attempts <= attempts'
    BY <1>1, <1>11, KeptTypes DEF Usable
  <2>5. DirInv(files', seals', checkpoint'.committed, accepted, attempts')
    BY <1>1, <1>8, Zenon
  <2>6. /\ checkpoint' \in [committed : Nat, source : [Sources -> Nat]]
        /\ \A s \in Sources : checkpoint'.source[s] <= attempts'
    BY Zenon, <1>1, KeptTypes
  <2> QED
    BY Zenon, <1>1, <1>9, <1>11, <2>1, <2>2, <2>3, <2>4, <2>5, <2>6, FailedInv
<1> QED
  BY Zenon, <1>2, <1>10, <1>11

-----------------------------------------------------------------------------
(* Commit and compact.                                                     *)

\* What compact removes is complete, committed and not the open segment.
LEMMA RemovableFacts ==
    ASSUME IInv, CommitEnabled
    PROVE  /\ committed = checkpoint.committed /\ committed \in Nat
           /\ committed + 1 < nextSequence
           /\ current \notin Removable
           /\ \A n \in Removable : /\ n \in Names
                                   /\ files[n].recs # <<>>
                                   /\ LastOf(files[n].recs).seq <= committed + 1
<1>1. UsableOK /\ committed + 1 < nextSequence
  BY Zenon DEF CommitEnabled, IInv, MemOK
<1>2. committed \in Nat
  BY Zenon DEF IInv, TypeOK
<1>3. current \notin Removable
  BY Zenon DEF Removable
<1>4. ASSUME NEW n \in Removable
      PROVE  /\ n \in Names
             /\ files[n].recs # <<>>
             /\ LastOf(files[n].recs).seq <= committed + 1
  <2>1. /\ n \in Names /\ count[n] > 0 /\ count[n] = Len(files[n].recs)
        /\ files[n].recs[count[n]].seq <= committed + 1
    BY Zenon, <1>1 DEF Removable, UsableOK
  <2>2. files[n].recs # <<>>
    <3>1. ASSUME files[n].recs = <<>> PROVE FALSE
      <4>1. count[n] = Len(<<>>)
        BY Zenon, <2>1, <3>1
      <4>2. Len(<<>>) = 0 /\ ~(0 > 0)
        OBVIOUS
      <4> QED
        BY Zenon, <2>1, <4>1, <4>2
    <3> QED
      BY Zenon, <3>1
  <2> QED
    BY Zenon, <2>1, <2>2 DEF LastOf
<1> QED
  BY Zenon, <1>1, <1>2, <1>3, <1>4 DEF UsableOK

\* The checkpoint that Commit writes.
LEMMA NextCheckpointFacts ==
    ASSUME IInv, CommitEnabled
    PROVE  /\ NextCheckpoint \in [committed : Nat, source : [Sources -> Nat]]
           /\ NextCheckpoint.committed = committed + 1
           /\ \A s \in Sources : NextCheckpoint.source[s] <= attempts
<1>1. committed \in Nat /\ sourceSequence \in [Sources -> Nat]
      /\ \A s \in Sources : sourceSequence[s] <= attempts
  BY Zenon DEF IInv, TypeOK, SourceOK
<1> QED
  BY <1>1 DEF NextCheckpoint

\* The directory with a part of the removable segments gone.
LEMMA CommitDir ==
    ASSUME IInv, CommitEnabled, NEW R, R \subseteq Removable
    PROVE  DirInv(Restrict(files, Names \ R), seals, committed + 1, accepted, attempts)
<1>1. /\ committed = checkpoint.committed /\ committed \in Nat
      /\ \A n \in R : /\ n \in DOMAIN files
                      /\ files[n].recs # <<>>
                      /\ LastOf(files[n].recs).seq <= committed + 1
  BY Zenon, RemovableFacts DEF Names
<1>2. DirInv(files, seals, committed, accepted, attempts) /\ accepted \subseteq Record
  BY Zenon, <1>1 DEF IInv, TypeOK
<1>3. committed + 1 \in Nat /\ committed <= committed + 1
  BY <1>1
<1> QED
  BY Zenon, <1>1, <1>2, <1>3, CompactDir DEF Names

\* Commit and the compaction it ends with keep the invariant.
LEMMA CommitInv ==
    ASSUME IInv, Commit
    PROVE  IInv'
<1>1. /\ CommitEnabled
      /\ checkpoint' = NextCheckpoint /\ committed' = committed + 1
      /\ files' = Restrict(files, Names \ Removable)
      /\ count' = Restrict(count, DOMAIN count \ Removable)
      /\ UNCHANGED <<seals, phase, current, startHash, currentSize, nextSequence,
                     sourceSequence, failed, lastLineageHash, lastSegmentRoot,
                     accepted, attempts, faults>>
  BY Zenon DEF Commit
<1>2. pressure' \in BOOLEAN
  BY Zenon DEF Commit
<1>3. UsableOK /\ CurrentOK /\ Usable
  BY Zenon, <1>1 DEF CommitEnabled, IInv, MemOK, Usable
<1>4. /\ committed \in Nat /\ committed + 1 < nextSequence /\ current \notin Removable
      /\ committed = checkpoint.committed
      /\ nextSequence \in Nat
  BY Zenon, <1>1, RemovableFacts DEF IInv, TypeOK
<1>5. /\ checkpoint' \in [committed : Nat, source : [Sources -> Nat]]
      /\ checkpoint'.committed = committed + 1
      /\ \A s \in Sources : checkpoint'.source[s] <= attempts
  BY Zenon, <1>1, NextCheckpointFacts
<1>6. DirInv(files', seals', checkpoint'.committed, accepted', attempts')
  BY Zenon, <1>1, <1>5, CommitDir
<1>7. /\ DOMAIN files' = Names \ Removable
      /\ \A n \in DOMAIN files' : files'[n] = files[n] /\ n \in Names
      /\ DOMAIN count' = DOMAIN files'
      /\ \A n \in DOMAIN files' : count'[n] = count[n]
  BY Zenon, <1>1, <1>3 DEF Restrict, UsableOK
<1>8. count' \in [DOMAIN count' -> Nat]
  BY Zenon, <1>1, <1>7 DEF IInv, TypeOK, Restrict
<1>9. /\ DOMAIN files' \subseteq Nat \ {0} /\ files' \in [DOMAIN files' -> File]
      /\ DOMAIN seals' \subseteq Nat \ {0} /\ seals' \in [DOMAIN seals' -> Seal]
  BY Zenon, <1>6 DEF DirInv, FilesOK, SealsOK
<1>10. TypeOK'
  <2>1. /\ phase' \in {"down", "up"} /\ current' \in Nat /\ startHash' \in Nat
        /\ currentSize' \in Nat /\ nextSequence' \in Nat \ {0}
        /\ sourceSequence' \in [Sources -> Nat] /\ failed' \in BOOLEAN
        /\ lastLineageHash' \in Nat /\ lastSegmentRoot' \in Seq(Nat \ {0})
        /\ accepted' \subseteq Record /\ attempts' \in Nat /\ faults' \in Nat
    BY Zenon, <1>1 DEF IInv, TypeOK
  <2>2. committed' \in Nat
    BY <1>1, <1>4
  <2> QED
    BY Zenon, <1>2, <1>5, <1>7, <1>8, <1>9, <2>1, <2>2 DEF TypeOK, Names
<1>11. SourceOK'
  BY Zenon, <1>1, <1>5 DEF IInv, SourceOK
<1>12. current \in DOMAIN files'
  BY Zenon, <1>3, <1>4, <1>7 DEF UsableOK, CurrentOK
<1>13. CurrentOK'
  BY Zenon, <1>1, <1>3, <1>7, <1>12 DEF CurrentOK, Names
<1>14. UsableOK'
  <2>1. Above(files', nextSequence)
    BY Zenon, <1>3, <1>7 DEF UsableOK, Above, Names
  <2>2. committed' = checkpoint'.committed /\ committed' < nextSequence'
    BY Zenon, <1>1, <1>4, <1>5
  <2>3. files'[current] = files[current]
    BY Zenon, <1>7, <1>12
  <2> QED
    BY Zenon, <1>1, <1>3, <1>7, <2>1, <2>2, <2>3 DEF UsableOK, Names
<1>15. AcceptedUnique'
  BY Zenon, <1>1 DEF IInv, AcceptedUnique, Usable
<1> QED
  BY Zenon, <1>6, <1>10, <1>11, <1>13, <1>14, <1>15 DEF IInv, MemOK

\* Commit that fails or dies after any of its steps keeps the invariant.
LEMMA CommitInterruptedInv ==
    ASSUME IInv, CommitInterrupted
    PROVE  IInv'
<1>1. CommitEnabled /\ UNCHANGED <<seals, accepted, attempts>>
  BY Zenon DEF CommitInterrupted
<1>2. PICK renamed \in BOOLEAN, b \in Removable \cup {nextSequence} :
          LET removed == {n \in Removable : renamed /\ n < b} IN
          /\ checkpoint' = IF renamed THEN NextCheckpoint ELSE checkpoint
          /\ files' = Restrict(files, Names \ removed)
          /\ \/ Fault("kill") /\ Die
             \/ /\ Fault("io")
                /\ failed' = TRUE
                /\ committed' = IF renamed THEN committed + 1 ELSE committed
                /\ UNCHANGED <<phase, count, current, startHash, currentSize,
                               nextSequence, sourceSequence, pressure,
                               lastLineageHash, lastSegmentRoot>>
  BY Zenon DEF CommitInterrupted
<1> DEFINE removed == {n \in Removable : renamed /\ n < b}
<1>3. /\ checkpoint' \in [committed : Nat, source : [Sources -> Nat]]
      /\ \A s \in Sources : checkpoint'.source[s] <= attempts'
      /\ checkpoint'.committed = IF renamed THEN committed + 1 ELSE checkpoint.committed
  BY Zenon, <1>1, <1>2, NextCheckpointFacts, KeptTypes
<1>4. DirInv(files', seals', checkpoint'.committed, accepted, attempts')
  <2>1. CASE renamed
    <3>1. removed \subseteq Removable
      BY Zenon
    <3> HIDE DEF removed
    <3>2. DirInv(Restrict(files, Names \ removed), seals, committed + 1, accepted, attempts)
      BY Zenon, <1>1, <3>1, CommitDir
    <3> QED
      BY Zenon, <1>1, <1>2, <1>3, <2>1, <3>2 DEF removed
  <2>2. CASE ~renamed
    <3>1. removed = {}
      BY <2>2, Zenon
    <3>2. files' = [n \in Names |-> files[n]]
      BY Zenon, <1>2, <3>1 DEF Restrict
    <3>3. files' = files
      BY Zenon, <3>2 DEF IInv, TypeOK
    <3> QED
      BY Zenon, <1>1, <1>3, <2>2, <3>3 DEF IInv
  <2> QED
    BY <2>1, <2>2
<1>5. faults' \in Nat
  BY Zenon, <1>2, FaultType
<1>6. CASE Fault("kill") /\ Die
  BY Zenon, <1>1, <1>3, <1>4, <1>5, <1>6, KeptTypes, DownInv
<1>7. CASE /\ Fault("io")
           /\ failed' = TRUE
           /\ committed' = (IF renamed THEN committed + 1 ELSE committed)
           /\ UNCHANGED <<phase, count, current, startHash, currentSize,
                          nextSequence, sourceSequence, pressure,
                          lastLineageHash, lastSegmentRoot>>
  <2>1. /\ DOMAIN count' \subseteq Nat \ {0} /\ count' \in [DOMAIN count' -> Nat]
        /\ currentSize' \in Nat /\ startHash' \in Nat /\ committed \in Nat
        /\ lastSegmentRoot' \in Seq(Nat \ {0}) /\ current' \in Nat
    BY Zenon, <1>7 DEF IInv, TypeOK
  <2>2. committed' \in Nat
    BY <1>7, <2>1
  <2>3. CurrentOK'
    <3>1. CurrentOK /\ current # NoFile /\ current \in Names
      BY Zenon, <1>1 DEF CommitEnabled, IInv, MemOK, Usable, UsableOK, CurrentOK
    <3>2. current \notin removed
      BY Zenon, <1>1, RemovableFacts
    <3>3. current \in DOMAIN files' /\ files'[current] = files[current]
      BY Zenon, <1>2, <3>1, <3>2 DEF Restrict
    <3> QED
      BY Zenon, <1>7, <3>1, <3>3 DEF CurrentOK, Names
  <2>4. phase' = "up" /\ attempts' \in Nat /\ attempts <= attempts'
    BY <1>1, <1>7, KeptTypes DEF CommitEnabled, Usable
  <2> QED
    BY Zenon, <1>1, <1>3, <1>4, <1>5, <1>7, <2>1, <2>2, <2>3, <2>4, FailedInv
<1> QED
  BY Zenon, <1>2, <1>6, <1>7

-----------------------------------------------------------------------------
(* Close, kill and power loss.                                             *)

\* Close keeps the invariant.
LEMMA CloseInv ==
    ASSUME IInv, Close
    PROVE  IInv'
<1>1. phase = "up" /\ Die /\ UNCHANGED <<checkpoint, accepted, attempts, faults>>
  BY Zenon DEF Close
<1>2. DirInv(files', seals', checkpoint.committed, accepted, attempts)
  <2>1. CASE current = NoFile
    BY Zenon, <2>1 DEF Close, IInv
  <2>2. CASE current # NoFile
    <3>1. DirInv(CurrentSynced, CurrentSealed, checkpoint.committed, accepted, attempts)
      BY <1>1, <2>2, SealCurrent, Zenon
    <3>2. DirInv(CurrentSynced, seals, checkpoint.committed, accepted, attempts)
      BY Zenon, <1>1, <2>2, SyncFacts, TouchDir DEF IInv
    <3> QED
      BY Zenon, <2>2, <3>1, <3>2 DEF Close
  <2> QED
    BY Zenon, <2>1, <2>2
<1> QED
  BY Zenon, <1>1, <1>2, KeptTypes, DownInv

\* Close that fails or dies before its seal keeps the invariant.
LEMMA CloseInterruptedInv ==
    ASSUME IInv, CloseInterrupted
    PROVE  IInv'
<1>1. /\ phase = "up" /\ current # NoFile /\ files' = CurrentSynced /\ Die
      /\ UNCHANGED <<seals, checkpoint, accepted, attempts>>
  BY Zenon DEF CloseInterrupted
<1>2. faults' \in Nat
  BY FaultType DEF CloseInterrupted
<1>3. DirInv(files', seals', checkpoint.committed, accepted, attempts)
  BY Zenon, <1>1, SyncFacts, TouchDir DEF IInv
<1> QED
  BY Zenon, <1>1, <1>2, <1>3, KeptTypes, DownInv

\* A kill between two operations keeps the invariant.
LEMMA KillInv ==
    ASSUME IInv, Kill
    PROVE  IInv'
<1>1. Die /\ UNCHANGED <<files, seals, checkpoint, accepted, attempts>>
  BY Zenon DEF Kill, disk
<1>2. faults' \in Nat
  BY FaultType, Zenon DEF Kill
<1>3. DirInv(files', seals', checkpoint.committed, accepted, attempts)
  BY <1>1, Zenon DEF IInv
<1> QED
  BY Zenon, <1>1, <1>2, <1>3, KeptTypes, DownInv

\* A power loss, which may take the unsynced end of the tail, keeps the invariant.
LEMMA PowerLossInv ==
    ASSUME IInv, PowerLoss
    PROVE  IInv'
<1>1. Names # {} /\ Die /\ UNCHANGED <<seals, checkpoint, accepted, attempts>>
  BY Zenon DEF PowerLoss
<1>2. faults' \in Nat
  BY Zenon, FaultType DEF PowerLoss
<1>3. Newest \in Names /\ \A n \in Names : n <= Newest
  BY Zenon, <1>1, KeptTypes, NewestFacts
<1> DEFINE x == Newest
<1> HIDE DEF x
<1>4. CASE \E u \in files[x].synced..Written(files[x]), torn \in BOOLEAN :
              files' = [files EXCEPT ![x] = Survivor(files[x], u, torn)]
  <2>1. Cut(files, files', x)
    BY Zenon, <1>3, <1>4 DEF Cut, Names, x
  <2> QED
    BY Zenon, <2>1, <1>1, <1>2, CutDir, KeptTypes, DownInv DEF IInv
<1>5. CASE files[x].synced = 0 /\ files' = Restrict(files, Names \ {x})
  <2>1. DirInv(files', seals, checkpoint.committed, accepted, attempts)
    BY Zenon, <1>3, <1>5, VanishDir DEF IInv, Names, x
  <2> QED
    BY Zenon, <2>1, <1>1, <1>2, KeptTypes, DownInv
<1> QED
  BY Zenon, <1>4, <1>5 DEF PowerLoss, x

-----------------------------------------------------------------------------
(* The theorems.                                                           *)

\* Every step of the write-ahead log keeps the inductive invariant.
LEMMA NextInv == IInv /\ [Next]_vars => IInv'
<1> SUFFICES ASSUME IInv, [Next]_vars PROVE IInv'
  BY Zenon
<1>1. CASE Open
  BY <1>1, OpenInv, Zenon
<1>2. CASE OpenFails
  BY <1>2, OpenFailsInv, Zenon
<1>3. CASE OpenInterrupted
  BY <1>3, OpenInterruptedInv
<1>4. CASE \E src \in Sources, size \in FrameSizes :
              AppendEvent(src, size) \/ AppendInterrupted(src, size)
  BY Zenon, <1>4, AppendEventInv, AppendInterruptedInv
<1>5. CASE \E size \in FrameSizes : AppendRejected(size) \/ RotateInterrupted(size)
  BY <1>5, AppendRejectedInv, RotateInterruptedInv, Zenon
<1>6. CASE Commit
  BY <1>6, CommitInv, Zenon
<1>7. CASE CommitInterrupted
  BY <1>7, CommitInterruptedInv, Zenon
<1>8. CASE Close
  BY <1>8, CloseInv, Zenon
<1>9. CASE CloseInterrupted
  BY <1>9, CloseInterruptedInv, Zenon
<1>10. CASE Kill
  BY <1>10, KillInv, Zenon
<1>11. CASE PowerLoss
  BY <1>11, PowerLossInv, Zenon
<1>12. CASE UNCHANGED vars
  <2>1. UNCHANGED <<files, seals, checkpoint, mem, accepted, attempts, faults>>
    BY Zenon, <1>12 DEF vars, disk
  <2>2. TypeOK' /\ DirInv(files, seals, checkpoint.committed, accepted, attempts)'
    BY Zenon, <2>1 DEF IInv, TypeOK, Names, mem
  <2>3. SourceOK' /\ AcceptedUnique'
    BY Zenon, <2>1 DEF IInv, SourceOK, AcceptedUnique, Usable, mem
  <2>4. MemOK'
    BY Zenon, <2>1 DEF IInv, MemOK, CurrentOK, UsableOK, Usable, Names, mem
  <2> QED
    BY Zenon, <2>2, <2>3, <2>4 DEF IInv
<1> QED
  BY Zenon, <1>1, <1>2, <1>3, <1>4, <1>5, <1>6, <1>7, <1>8, <1>9, <1>10, <1>11, <1>12 DEF Next

\* The invariant of the directory and the store holds in every reachable state
\* of the log, whatever the constants.
THEOREM Invariance == Spec => []IInv
<1>1. Init => IInv
  BY InitInv, Zenon
<1>2. IInv /\ [Next]_vars => IInv'
  BY NextInv, Zenon
<1> QED
  BY <1>1, <1>2, PTL DEF Spec

\* Type correctness of the edge write-ahead log.
THEOREM TypeCorrect == Spec => []TypeOK
<1>1. IInv => TypeOK
  BY DEF IInv
<1> QED
  BY <1>1, Invariance, PTL

\* The durability guarantee: an event Append accepted stays in the synced part
\* of a segment until the checkpoint covers it, through rotation, compaction,
\* I/O errors, kills, power losses and any number of restarts.
THEOREM Durability == Spec => []AcceptedRecoverable
<1>1. IInv => AcceptedRecoverable
  BY Zenon DEF IInv, DirInv, DurableIn, AcceptedRecoverable, Names
<1> QED
  BY <1>1, Invariance, PTL

\* An edge sequence names one record among all accepted and retained ones.
THEOREM SequencesUnique == Spec => []EdgeSequenceUnique
<1>1. IInv => EdgeSequenceUnique
  <2> SUFFICES ASSUME IInv, NEW r \in accepted \cup Retained, NEW q \in accepted \cup Retained,
                      r.seq = q.seq
               PROVE  r = q
    BY Zenon DEF EdgeSequenceUnique
  <2>1. ASSUME NEW p \in Retained
        PROVE  \E n \in Names : \E i \in 1..Len(files[n].recs) : p = files[n].recs[i]
    BY Zenon DEF Retained
  <2>2. CASE r \in accepted /\ q \in accepted
    BY Zenon, <2>2 DEF IInv, AcceptedUnique
  <2>6. ASSUME NEW x \in accepted, NEW y \in Retained, y.seq = x.seq
        PROVE  y = x
    <3>1. UniqueIn(accepted, files)
      BY Zenon DEF IInv, DirInv
    <3>2. PICK n \in Names : \E i \in 1..Len(files[n].recs) : y = files[n].recs[i]
      BY Zenon, <2>1
    <3>3. PICK i \in 1..Len(files[n].recs) : y = files[n].recs[i]
      BY Zenon, <3>2
    <3> QED
      BY Zenon, <2>6, <3>1, <3>3 DEF UniqueIn, Names
  <2>3. CASE r \in accepted /\ q \in Retained
    BY <2>6, <2>3, Zenon
  <2>4. CASE r \in Retained /\ q \in accepted
    BY <2>6, <2>4, Zenon
  <2>5. CASE r \in Retained /\ q \in Retained
    <3>1. PICK m \in Names : \E i \in 1..Len(files[m].recs) : r = files[m].recs[i]
      BY Zenon, <2>1, <2>5
    <3>2. PICK i \in 1..Len(files[m].recs) : r = files[m].recs[i]
      BY Zenon, <3>1
    <3>3. PICK n \in Names : \E j \in 1..Len(files[n].recs) : q = files[n].recs[j]
      BY Zenon, <2>1, <2>5
    <3>4. PICK j \in 1..Len(files[n].recs) : q = files[n].recs[j]
      BY Zenon, <3>3
    <3>5. FilesOK(files)
      BY Zenon DEF IInv, DirInv
    <3>6. r.seq \in Nat /\ q.seq \in Nat /\ m \in Nat /\ n \in Nat /\ i \in Nat /\ j \in Nat
      BY Zenon, <3>2, <3>4, <3>5, FileFacts DEF Names
    <3>7. ~(m < n) /\ ~(n < m)
      <4>1. \A k, l \in Names : k < l =>
              \A x \in 1..Len(files[k].recs), y \in 1..Len(files[l].recs) :
                 files[k].recs[x].seq < files[l].recs[y].seq
        BY Zenon, <3>5 DEF FilesOK, Names
      <4>2. m < n => r.seq < q.seq
        BY Zenon, <3>2, <3>4, <4>1
      <4>3. n < m => q.seq < r.seq
        BY Zenon, <3>2, <3>4, <4>1
      <4> QED
        BY <3>6, <4>2, <4>3
    <3>8. m = n
      BY <3>6, <3>7
    <3>9. ~(i < j) /\ ~(j < i)
      <4>1. \A x, y \in 1..Len(files[m].recs) :
              x < y => files[m].recs[x].seq < files[m].recs[y].seq
        BY Zenon, <3>5 DEF FilesOK, Names
      <4>2. i < j => r.seq < q.seq
        BY Zenon, <3>2, <3>4, <3>8, <4>1
      <4>3. j < i => q.seq < r.seq
        BY Zenon, <3>2, <3>4, <3>8, <4>1
      <4> QED
        BY <3>6, <4>2, <4>3
    <3> QED
      BY SMTT(30), <3>2, <3>4, <3>6, <3>8, <3>9
  <2> QED
    BY Zenon, <2>2, <2>3, <2>4, <2>5
<1> QED
  BY <1>1, Invariance, PTL

-----------------------------------------------------------------------------
(* What a step leaves of the directory.                                    *)

\* The seals of the directory are among tl, unchanged.
SealsLast(tl) == \A n \in DOMAIN seals : n \in DOMAIN tl /\ tl[n] = seals[n]

\* In the directory gs a sealed segment has its records, or is gone and was
\* committed (up to c); no record appears but one of N.
FilesLast(gs, c, N) ==
    /\ \A n \in DOMAIN seals : n \in Names =>
          IF n \in DOMAIN gs THEN gs[n].recs = files[n].recs
          ELSE LastOf(files[n].recs).seq <= c
    /\ \A n \in DOMAIN gs : \A i \in 1..Len(gs[n].recs) : gs[n].recs[i] \in Retained \cup N

\* The retained records are those of the segments.
LEMMA RetainedFacts ==
    /\ \A n \in Names : \A i \in 1..Len(files[n].recs) : files[n].recs[i] \in Retained
    /\ \A r \in Retained : \E n \in Names : \E i \in 1..Len(files[n].recs) : r = files[n].recs[i]
<1> DEFINE recs(n) == {files[n].recs[i] : i \in 1..Len(files[n].recs)}
<1>1. Retained = UNION {recs(n) : n \in Names}
  BY Zenon DEF Retained
<1>2. /\ \A n \in Names : \A i \in 1..Len(files[n].recs) : files[n].recs[i] \in recs(n)
      /\ \A n \in Names : \A r \in recs(n) : \E i \in 1..Len(files[n].recs) : r = files[n].recs[i]
  BY Zenon
<1> HIDE DEF recs
<1>3. \A n \in Names : recs(n) \subseteq Retained
  BY Zenon, <1>1
<1>4. \A r \in Retained : \E n \in Names : r \in recs(n)
  BY Zenon, <1>1
<1> QED
  BY Zenon, <1>2, <1>3, <1>4

\* Syncing or truncating leaves every record where it is.
LEMMA TouchLasts ==
    ASSUME NEW gs, NEW c, NEW N, Touched(files, gs)
    PROVE  FilesLast(gs, c, N)
<1>1. DOMAIN gs = Names /\ \A n \in Names : gs[n].recs = files[n].recs
  BY Zenon DEF Touched, Names
<1> QED
  BY Zenon, <1>1, RetainedFacts DEF FilesLast

\* A new, empty segment leaves every record where it is.
LEMMA NewSegmentLasts ==
    ASSUME NEW hs, NEW c, NEW N, FilesLast(hs, c, N), NEW x, x \notin Names,
           NEW f, f.recs = <<>>
    PROVE  FilesLast(With(hs, x, f), c, N)
<1> DEFINE gs == With(hs, x, f)
<1>1. /\ DOMAIN gs = DOMAIN hs \cup {x} /\ gs[x] = f
      /\ \A n \in DOMAIN hs : n # x => gs[n] = hs[n]
  BY Zenon DEF With
<1> HIDE DEF gs
<1>2. \A i \in 1..Len(f.recs) : FALSE
  OBVIOUS
<1>3. \A n \in DOMAIN gs : \A i \in 1..Len(gs[n].recs) : gs[n].recs[i] \in Retained \cup N
  BY Zenon, <1>1, <1>2 DEF FilesLast
<1>4. \A n \in Names : (n \in DOMAIN gs <=> n \in DOMAIN hs) /\ (n \in DOMAIN hs => gs[n] = hs[n])
  BY Zenon, <1>1
<1>5. \A n \in DOMAIN seals : n \in Names =>
          IF n \in DOMAIN gs THEN gs[n].recs = files[n].recs
          ELSE LastOf(files[n].recs).seq <= c
  BY Zenon, <1>4 DEF FilesLast
<1> QED
  BY Zenon, <1>3, <1>5 DEF FilesLast, gs

\* A frame at the end of an unsealed segment adds its record and no other.
LEMMA FrameLasts ==
    ASSUME NEW fs, NEW gs, NEW c, NEW n, NEW r, FilesOK(fs), FilesLast(fs, c, {}),
           Appended(fs, gs, n, r), n \notin DOMAIN seals
    PROVE  FilesLast(gs, c, {r})
<1>0. n \in DOMAIN fs
  BY Zenon DEF Appended
<1>1. /\ DOMAIN gs = DOMAIN fs /\ n \in DOMAIN fs
      /\ \A m \in DOMAIN fs : m # n => gs[m] = fs[m]
      /\ Len(gs[n].recs) = Len(fs[n].recs) + 1
      /\ \A i \in 1..Len(fs[n].recs) : gs[n].recs[i] = fs[n].recs[i]
      /\ gs[n].recs[Len(fs[n].recs) + 1] = r
  BY <1>0, AppendFacts
<1>2. Len(fs[n].recs) \in Nat
  BY Zenon, <1>1, FileFacts
<1>3. \A i \in 1..Len(gs[n].recs) : i \in 1..Len(fs[n].recs) \/ i = Len(fs[n].recs) + 1
  BY <1>1, <1>2
<1>4. \A m \in DOMAIN fs : \A i \in 1..Len(fs[m].recs) : fs[m].recs[i] \in Retained
  BY Zenon DEF FilesLast
<1>5. \A m \in DOMAIN gs : \A i \in 1..Len(gs[m].recs) : gs[m].recs[i] \in Retained \cup {r}
  <2> SUFFICES ASSUME NEW m \in DOMAIN gs, NEW i \in 1..Len(gs[m].recs)
               PROVE  gs[m].recs[i] \in Retained \cup {r}
    BY Zenon
  <2>1. CASE m # n
    BY Zenon, <2>1, <1>1, <1>4
  <2>2. CASE m = n
    BY Zenon, <2>2, <1>1, <1>3, <1>4
  <2> QED
    BY Zenon, <2>1, <2>2
<1>6. \A m \in DOMAIN seals : m # n
  BY Zenon
<1> QED
  BY Zenon, <1>1, <1>5, <1>6 DEF FilesLast

\* Removing segments keeps the records of the others; a sealed one is removed
\* when it is committed.
LEMMA RemoveLasts ==
    ASSUME NEW R, NEW c,
           \A n \in R : n \in DOMAIN seals => LastOf(files[n].recs).seq <= c
    PROVE  FilesLast(Restrict(files, Names \ R), c, {})
<1> DEFINE gs == Restrict(files, Names \ R)
<1>1. DOMAIN gs = Names \ R /\ \A n \in Names \ R : gs[n] = files[n]
  BY Zenon DEF Restrict
<1> HIDE DEF gs
<1>2. \A n \in DOMAIN gs : \A i \in 1..Len(gs[n].recs) : gs[n].recs[i] \in Retained
  BY Zenon, <1>1, RetainedFacts
<1>3. FilesLast(gs, c, {})
  BY Zenon, <1>1, <1>2 DEF FilesLast
<1> QED
  BY Zenon, <1>3 DEF gs

\* A power loss cuts no sealed segment, and adds no record.
LEMMA CutLasts ==
    ASSUME IInv, NEW gs, NEW c, NEW x, Cut(files, gs, x)
    PROVE  FilesLast(gs, c, {})
<1>1. FilesOK(files) /\ SealsOK(files, seals, checkpoint.committed)
  BY Zenon DEF IInv, DirInv
<1>0. x \in Names
  BY Zenon DEF Cut, Names
<1>2. /\ DOMAIN gs = Names
      /\ \A n \in Names : n # x => gs[n] = files[n]
      /\ Len(gs[x].recs) \in Nat /\ Len(gs[x].recs) <= Len(files[x].recs)
      /\ \A i \in 1..Len(gs[x].recs) : gs[x].recs[i] = files[x].recs[i]
      /\ files[x].synced = Len(files[x].recs) + 1 => gs[x].recs = files[x].recs
  BY <1>1, CutFacts DEF Names
<1>3. x \in DOMAIN seals => gs[x].recs = files[x].recs
  BY Zenon, <1>0, <1>1, <1>2 DEF SealsOK, FullySynced, Names
<1>4. Len(files[x].recs) \in Nat
  BY Zenon, <1>0, <1>1, <1>2, FileFacts DEF Names
<1>5. \A i \in 1..Len(gs[x].recs) : i \in 1..Len(files[x].recs)
  BY <1>2, <1>4
<1>6. \A n \in DOMAIN gs : \A i \in 1..Len(gs[n].recs) : gs[n].recs[i] \in Retained
  BY Zenon, <1>0, <1>2, <1>5, RetainedFacts
<1> QED
  BY Zenon, <1>0, <1>2, <1>3, <1>6 DEF FilesLast

\* Sealing the open segment keeps the seals there are.
LEMMA SealLasts == SealsLast(CurrentSealed) /\ SealsLast(seals)
<1>1. SealsLast(seals)
  BY Zenon DEF SealsLast
<1>2. CASE MustSeal
  BY Zenon, <1>1, <1>2 DEF SealsLast, CurrentSealed, With, MustSeal
<1>3. CASE ~MustSeal
  BY Zenon, <1>1, <1>3 DEF CurrentSealed
<1> QED
  BY Zenon, <1>1, <1>2, <1>3

-----------------------------------------------------------------------------
(* The steps, one lemma per group.                                         *)

\* What a step leaves when it may write the records of N.
StepLasts(N) == SealsLast(seals') /\ FilesLast(files', checkpoint'.committed, N)

\* Open, complete, refused or interrupted.
LEMMA OpenLasts ==
    ASSUME IInv, Open \/ OpenFails \/ OpenInterrupted
    PROVE  StepLasts({})
<1> DEFINE c == checkpoint.committed
<1>1. Touched(files, TruncatedFiles)
  BY Zenon, KeptTypes, TruncatedFacts
<1>2. FilesLast(files, c, {}) /\ FilesLast(TruncatedFiles, c, {})
  <2>1. FilesLast(files, c, {})
    BY Zenon, RetainedFacts DEF FilesLast, Names
  <2> QED
    BY Zenon, <2>1, <1>1, TouchLasts
<1>3. ASSUME OpenOK, StartsSegment, NEW f, f.recs = <<>>
      PROVE  FilesLast(With(TruncatedFiles, RecoveredNext, f), c, {})
  <2>1. RecoveredNext \notin Names
    BY Zenon, <1>3 DEF OpenOK
  <2> QED
    BY Zenon, <2>1, <1>2, <1>3, NewSegmentLasts
<1>4. \A S : SealsLast(SealedWith(S))
  BY Zenon DEF SealsLast, SealedWith
<1>5. checkpoint' = checkpoint
  BY Zenon DEF Open, OpenFails, OpenInterrupted
<1> HIDE DEF c
<1>6. CASE Open
  <2>1. /\ OpenOK /\ seals' = SealedWith(ToSeal)
        /\ files' = IF StartsSegment THEN With(TruncatedFiles, RecoveredNext, NewFile)
                    ELSE TruncatedFiles
    BY Zenon, <1>6 DEF Open
  <2>2. FilesLast(files', c, {})
    BY Zenon, <2>1, <1>2, <1>3, NewFileFacts
  <2> QED
    BY Zenon, <2>1, <2>2, <1>4, <1>5 DEF StepLasts, c
<1>7. CASE OpenFails
  <2>1. seals' = seals /\ (files' = TruncatedFiles \/ files' = files)
    BY Zenon, <1>7 DEF OpenFails
  <2> QED
    BY Zenon, <2>1, <1>2, <1>5, SealLasts DEF StepLasts, c
<1>8. CASE OpenInterrupted
  <2>1. /\ OpenOK
        /\ \E S : seals' = SealedWith(S)
        /\ \/ files' = TruncatedFiles
           \/ StartsSegment /\ \E f \in PartialNewFiles :
                 files' = With(TruncatedFiles, RecoveredNext, f)
    BY Zenon, <1>8 DEF OpenInterrupted
  <2>2. FilesLast(files', c, {})
    BY Zenon, <2>1, <1>2, <1>3, NewFileFacts
  <2> QED
    BY Zenon, <2>1, <2>2, <1>4, <1>5 DEF StepLasts, c
<1> QED
  BY Zenon, <1>6, <1>7, <1>8

\* The directory a frame is written to has the records there were.
LEMMA TargetLasts ==
    ASSUME IInv, Usable, NEW size, RotationOK(size), NEW c
    PROVE  /\ FilesLast(TargetFiles(size), c, {})
           /\ SealsLast(TargetSeals(size))
           /\ TargetSegment(size) \notin DOMAIN seals
<1>1. phase = "up" /\ current # NoFile
  BY Zenon DEF IInv, MemOK, Usable, UsableOK
<1>2. SealsLast(TargetSeals(size))
  BY Zenon, SealLasts DEF TargetSeals
<1>3. TargetSegment(size) \notin DOMAIN TargetSeals(size)
  BY Zenon, TargetFacts
<1>4. CASE ~NeedsRotation(size)
  <2>1. TargetFiles(size) = files
    BY Zenon, <1>4 DEF TargetFiles
  <2>2. FilesLast(files, c, {})
    BY Zenon, RetainedFacts DEF FilesLast, Names
  <2> QED
    BY Zenon, <2>1, <2>2, <1>2, <1>3 DEF SealsLast
<1>5. CASE NeedsRotation(size)
  <2>1. TargetFiles(size) = With(CurrentSynced, nextSequence, NewFile) /\ nextSequence \notin Names
    BY Zenon, <1>5 DEF TargetFiles, RotationOK
  <2>2. FilesLast(CurrentSynced, c, {})
    BY Zenon, <1>1, SyncFacts, TouchLasts
  <2>3. FilesLast(TargetFiles(size), c, {})
    BY Zenon, <2>1, <2>2, NewSegmentLasts, NewFileFacts
  <2> QED
    BY Zenon, <2>3, <1>2, <1>3 DEF SealsLast
<1> QED
  BY Zenon, <1>4, <1>5

\* Append, complete or interrupted, writes its record and nothing else.
LEMMA AppendLasts ==
    ASSUME IInv, NEW src \in Sources, NEW size \in FrameSizes,
           AppendEvent(src, size) \/ AppendInterrupted(src, size)
    PROVE  StepLasts({NewRecord(src, TargetOffset(size) + size)})
<1> DEFINE c == checkpoint.committed
           T == TargetFiles(size)
           n == TargetSegment(size)
           r == NewRecord(src, TargetOffset(size) + size)
<1>1. Usable /\ RotationOK(size) /\ checkpoint' = checkpoint
  BY Zenon DEF AppendEvent, AppendInterrupted, AppendEnabled
<1>2. FilesLast(T, c, {}) /\ SealsLast(TargetSeals(size)) /\ n \notin DOMAIN seals
  BY Zenon, <1>1, TargetLasts
<1>3. FilesOK(T)
  BY Zenon, <1>1, TargetFacts DEF DirInv
<1>4. seals' = TargetSeals(size)
  <2>1. RotateMemory(size) => seals' = TargetSeals(size)
    BY Zenon, <1>1, RotateMemoryTypes
  <2> QED
    BY Zenon, <2>1 DEF AppendEvent, AppendInterrupted, TargetSeals
<1>5. Touched(T, files') \/ Appended(T, files', n, r)
  BY Zenon, AppendEventDir, AppendInterruptedDir
<1> HIDE DEF T, n, r, c
<1>6. CASE Appended(T, files', n, r)
  <2>1. FilesLast(files', c, {r})
    BY Zenon, <1>2, <1>3, <1>6, FrameLasts
  <2> QED
    BY Zenon, <2>1, <1>1, <1>2, <1>4 DEF StepLasts, c, r
<1>7. CASE Touched(T, files')
  <2>1. DOMAIN files' = DOMAIN T /\ \A m \in DOMAIN T : files'[m].recs = T[m].recs
    BY Zenon, <1>7 DEF Touched
  <2>2. FilesLast(files', c, {r})
    BY Zenon, <2>1, <1>2 DEF FilesLast
  <2> QED
    BY Zenon, <2>2, <1>1, <1>2, <1>4 DEF StepLasts, c, r
<1> QED
  BY Zenon, <1>5, <1>6, <1>7

\* An interrupted rotate, Close and a kill between operations.
LEMMA QuietLasts ==
    ASSUME IInv,
           \/ \E size \in FrameSizes : AppendRejected(size) \/ RotateInterrupted(size)
           \/ Close \/ CloseInterrupted \/ Kill \/ UNCHANGED vars
    PROVE  StepLasts({})
<1> DEFINE c == checkpoint.committed
<1>1. FilesLast(files, c, {})
  BY Zenon, RetainedFacts DEF FilesLast, Names
<1>2. ASSUME phase = "up", current # NoFile
      PROVE  FilesLast(CurrentSynced, c, {})
  BY Zenon, <1>2, SyncFacts, TouchLasts
<1>3. checkpoint' = checkpoint
  BY Zenon DEF AppendRejected, RotateInterrupted, Close, CloseInterrupted, Kill, vars, disk
<1> HIDE DEF c
<1>4. ASSUME NEW size \in FrameSizes, RotateInterrupted(size) PROVE StepLasts({})
  <2>1. phase = "up" /\ current # NoFile
    BY Zenon, <1>4 DEF RotateInterrupted, AppendEnabled, IInv, MemOK, Usable, UsableOK
  <2>2. /\ seals' = CurrentSealed \/ seals' = seals
        /\ \/ files' = CurrentSynced
           \/ files' = files
           \/ /\ nextSequence \notin Names
              /\ \E f \in PartialNewFiles : files' = With(CurrentSynced, nextSequence, f)
    BY Zenon, <1>4 DEF RotateInterrupted
  <2>3. FilesLast(files', c, {})
    BY Zenon, <1>1, <1>2, <2>1, <2>2, NewSegmentLasts, NewFileFacts
  <2> QED
    BY Zenon, <2>2, <2>3, <1>3, SealLasts DEF StepLasts, c
<1>5. CASE Close \/ CloseInterrupted
  <2>1. /\ seals' = CurrentSealed \/ seals' = seals
        /\ phase = "up"
        /\ files' = files \/ (current # NoFile /\ files' = CurrentSynced)
    BY Zenon, <1>5 DEF Close, CloseInterrupted
  <2>2. FilesLast(files', c, {})
    BY Zenon, <1>1, <1>2, <2>1
  <2> QED
    BY Zenon, <2>1, <2>2, <1>3, SealLasts DEF StepLasts, c
<1>6. CASE files' = files /\ seals' = seals
  BY Zenon, <1>1, <1>3, <1>6, SealLasts DEF StepLasts, c
<1>7. CASE \/ \E size \in FrameSizes : AppendRejected(size)
           \/ Kill \/ UNCHANGED vars
  BY Zenon, <1>6, <1>7 DEF AppendRejected, Kill, vars, disk
<1> QED
  BY Zenon, <1>4, <1>5, <1>7

\* Commit, complete or interrupted, removes committed segments.
LEMMA CommitLasts ==
    ASSUME IInv, Commit \/ CommitInterrupted
    PROVE  StepLasts({})
<1>1. CommitEnabled /\ seals' = seals
  BY Zenon DEF Commit, CommitInterrupted
<1>2. \A n \in Removable : LastOf(files[n].recs).seq <= committed + 1
  BY Zenon, <1>1, RemovableFacts
<1>3. \E R : /\ files' = Restrict(files, Names \ R)
             /\ \A n \in R : n \in Removable /\ checkpoint' = NextCheckpoint
  <2>1. CASE Commit
    BY Zenon, <2>1 DEF Commit
  <2>2. CASE CommitInterrupted
    <3>1. PICK renamed \in BOOLEAN, b \in Removable \cup {nextSequence} :
              /\ checkpoint' = IF renamed THEN NextCheckpoint ELSE checkpoint
              /\ files' = Restrict(files, Names \ {n \in Removable : renamed /\ n < b})
      BY Zenon, <2>2 DEF CommitInterrupted
    <3> DEFINE R == {n \in Removable : renamed /\ n < b}
    <3>2. files' = Restrict(files, Names \ R) /\ \A n \in R : n \in Removable /\ renamed
      BY Zenon, <3>1
    <3> HIDE DEF R
    <3> QED
      BY Zenon, <3>1, <3>2
  <2> QED
    BY Zenon, <2>1, <2>2
<1>4. PICK R : /\ files' = Restrict(files, Names \ R)
               /\ \A n \in R : n \in Removable /\ checkpoint' = NextCheckpoint
  BY Zenon, <1>3
<1>5. \A n \in R : LastOf(files[n].recs).seq <= checkpoint'.committed
  BY Zenon, <1>1, <1>2, <1>4, NextCheckpointFacts
<1>6. FilesLast(files', checkpoint'.committed, {})
  BY Zenon, <1>4, <1>5, RemoveLasts
<1> QED
  BY Zenon, <1>1, <1>6, SealLasts DEF StepLasts

\* A power loss takes nothing of a sealed segment.
LEMMA PowerLossLasts ==
    ASSUME IInv, PowerLoss
    PROVE  StepLasts({})
<1> DEFINE x == Newest
           c == checkpoint'.committed
<1>1. Names # {} /\ seals' = seals
  BY Zenon DEF PowerLoss
<1>2. Newest \in Names /\ \A n \in Names : n <= Newest
  BY Zenon, <1>1, KeptTypes, NewestFacts
<1> HIDE DEF x, c
<1>3. CASE \E u \in files[x].synced..Written(files[x]), torn \in BOOLEAN :
              files' = [files EXCEPT ![x] = Survivor(files[x], u, torn)]
  <2>1. Cut(files, files', x)
    BY Zenon, <1>2, <1>3 DEF Cut, Names, x
  <2> QED
    BY Zenon, <2>1, <1>1, CutLasts, SealLasts DEF StepLasts
<1>4. CASE files[x].synced = 0 /\ files' = Restrict(files, Names \ {x})
  <2>1. Len(files[x].recs) \in Nat
    BY Zenon, <1>2, FileFacts DEF IInv, DirInv, Names, x
  <2>2. 0 # Len(files[x].recs) + 1
    BY <2>1
  <2>3. x \notin DOMAIN seals
    BY Zenon, <1>2, <1>4, <2>2 DEF IInv, DirInv, SealsOK, FullySynced, Names, x
  <2>4. FilesLast(files', c, {})
    BY Zenon, <1>4, <2>3, RemoveLasts
  <2> QED
    BY Zenon, <2>4, <1>1, SealLasts DEF StepLasts, c
<1> QED
  BY Zenon, <1>3, <1>4 DEF PowerLoss, x

-----------------------------------------------------------------------------
(* Sealed segments.                                                        *)

\* A sealed segment is final: no step of the log, interrupted or not, changes
\* its records, takes its seal back or signs another, and it is removed only
\* when the checkpoint covers its last record.
THEOREM SealsAreFinal == Spec => SealedIsFinal
<1> DEFINE Final ==
              \A n \in DOMAIN seals :
                  /\ n \in DOMAIN seals' /\ seals'[n] = seals[n]
                  /\ n \in Names =>
                        IF n \in DOMAIN files' THEN files'[n].recs = files[n].recs
                        ELSE LastOf(files[n].recs).seq <= checkpoint'.committed
<1>1. ASSUME NEW N, StepLasts(N) PROVE Final
  BY Zenon, <1>1 DEF StepLasts, SealsLast, FilesLast
<1>2. IInv /\ [Next]_vars => [Final]_vars
  <2> SUFFICES ASSUME IInv, [Next]_vars PROVE \E N : StepLasts(N)
    BY Zenon, <1>1
  <2> QED
    BY Zenon, OpenLasts, AppendLasts, QuietLasts, CommitLasts, PowerLossLasts DEF Next
<1> QED
  BY <1>2, Invariance, PTL DEF Spec, SealedIsFinal

-----------------------------------------------------------------------------
(* Source sequences.                                                       *)

\* The records the log has answered for: accepted, or still in a segment.
Known == accepted \cup Retained

\* What the order of source sequences rests on: the checkpoint knows the
\* sequence of every committed record, a usable store that of every record.
SourceInv ==
    /\ SourceSequenceOrdered
    /\ \A r \in Known : r.seq <= checkpoint.committed => r.srcSeq <= checkpoint.source[r.src]
    /\ Usable => \A r \in Known : r.srcSeq <= sourceSequence[r.src]

\* The types of the records and of the counters they are compared with.
LEMMA KnownTypes ==
    ASSUME IInv
    PROVE  /\ \A r \in Known : r.seq \in Nat /\ r.srcSeq \in Nat /\ r.src \in Sources
           /\ \A s \in Sources : sourceSequence[s] \in Nat /\ checkpoint.source[s] \in Nat
           /\ checkpoint.committed \in Nat
<1>1. \A r \in accepted : r \in Record
  BY Zenon DEF IInv, TypeOK
<1>2. \A n \in Names : \A i \in 1..Len(files[n].recs) : files[n].recs[i] \in Record
  BY Zenon, FileFacts DEF IInv, DirInv, Names
<1>3. \A r \in Retained : r \in Record
  BY Zenon, <1>2, RetainedFacts
<1>4. \A r \in Record : r.seq \in Nat /\ r.srcSeq \in Nat /\ r.src \in Sources
  BY Zenon DEF Record
<1>5. /\ \A s \in Sources : sourceSequence[s] \in Nat /\ checkpoint.source[s] \in Nat
      /\ checkpoint.committed \in Nat
  BY Zenon DEF IInv, TypeOK
<1> QED
  BY Zenon, <1>1, <1>3, <1>4, <1>5 DEF Known

\* After a step that writes the records of N, the log answers for no others.
LEMMA KnownAfter ==
    ASSUME NEW N, StepLasts(N), accepted' \subseteq accepted \cup N
    PROVE  /\ Known' \subseteq Known \cup N
           /\ N = {} => Known' \subseteq Known
<1>1. \A n \in DOMAIN files' : \A i \in 1..Len(files'[n].recs) : files'[n].recs[i] \in Retained \cup N
  BY Zenon DEF StepLasts, FilesLast
<1>2. \A r \in Retained' : \E n \in DOMAIN files' : \E i \in 1..Len(files'[n].recs) :
          r = files'[n].recs[i]
  <2> DEFINE recs(n) == {files'[n].recs[i] : i \in 1..Len(files'[n].recs)}
  <2>1. Retained' = UNION {recs(n) : n \in DOMAIN files'}
    BY Zenon DEF Retained, Names
  <2>2. \A n \in DOMAIN files' : \A r \in recs(n) :
            \E i \in 1..Len(files'[n].recs) : r = files'[n].recs[i]
    BY Zenon
  <2> HIDE DEF recs
  <2>3. \A r \in UNION {recs(n) : n \in DOMAIN files'} : \E n \in DOMAIN files' : r \in recs(n)
    BY Zenon
  <2> SUFFICES ASSUME NEW r \in Retained'
               PROVE  \E n \in DOMAIN files' : \E i \in 1..Len(files'[n].recs) : r = files'[n].recs[i]
    BY Zenon
  <2>4. PICK n \in DOMAIN files' : r \in recs(n)
    BY Zenon, <2>1, <2>3
  <2> QED
    BY Zenon, <2>2, <2>4
<1>3. ASSUME NEW r \in Retained' PROVE r \in Retained \cup N
  <2>1. PICK n \in DOMAIN files' : \E i \in 1..Len(files'[n].recs) : r = files'[n].recs[i]
    BY Zenon, <1>2, <1>3
  <2> QED
    BY Zenon, <1>1, <2>1
<1> QED
  BY Zenon, <1>3 DEF Known

\* A step that writes no record keeps the order, if a store it starts knows
\* every record and the checkpoint it writes is that of a usable store.
LEMMA QuietSource ==
    ASSUME IInv, SourceInv, Known' \subseteq Known,
           checkpoint' = checkpoint \/ (Usable /\ checkpoint'.source = sourceSequence),
           Usable' => \/ Usable /\ sourceSequence' = sourceSequence
                      \/ \A r \in Known : r.srcSeq <= sourceSequence'[r.src]
    PROVE  SourceInv'
<1>1. SourceSequenceOrdered'
  BY Zenon DEF SourceInv, SourceSequenceOrdered, Known
<1>2. \A r \in Known' : r.seq <= checkpoint'.committed => r.srcSeq <= checkpoint'.source[r.src]
  BY Zenon DEF SourceInv
<1>3. Usable' => \A r \in Known' : r.srcSeq <= sourceSequence'[r.src]
  BY Zenon DEF SourceInv
<1> QED
  BY Zenon, <1>1, <1>2, <1>3 DEF SourceInv

\* A store that recover starts knows the source sequence of every record: a
\* retained one from its segment, any other accepted one from the checkpoint.
LEMMA RecoveredKnows ==
    ASSUME IInv, SourceInv, NEW r \in Known
    PROVE  r.srcSeq <= RecoveredSource(r.src)
<1>1. r.seq \in Nat /\ r.srcSeq \in Nat /\ r.src \in Sources /\ checkpoint.source[r.src] \in Nat
  BY Zenon, KnownTypes
<1>2. RecoveredSource(r.src) \in Nat /\ checkpoint.source[r.src] <= RecoveredSource(r.src)
  BY Zenon, <1>1, RecoveredSourceFacts
<1>3. CASE r.seq <= checkpoint.committed
  <2>1. r.srcSeq <= checkpoint.source[r.src]
    BY Zenon, <1>3 DEF SourceInv
  <2> QED
    BY <2>1, <1>1, <1>2
<1>4. CASE \E n \in Names : \E i \in 1..Len(files[n].recs) : r = files[n].recs[i]
  BY Zenon, <1>1, <1>4, RecoveredSourceFacts
<1>5. r \in accepted =>
          \/ r.seq <= checkpoint.committed
          \/ \E n \in Names : \E i \in 1..Len(files[n].recs) : r = files[n].recs[i]
  BY Zenon DEF IInv, DirInv, DurableIn, Names
<1> QED
  BY Zenon, <1>3, <1>4, <1>5, RetainedFacts DEF Known

\* Append gives its record the next sequence of its source: larger than that of
\* every earlier record.
LEMMA AppendSource ==
    ASSUME IInv, SourceInv, NEW src \in Sources, NEW size \in FrameSizes,
           AppendEvent(src, size) \/ AppendInterrupted(src, size)
    PROVE  SourceInv'
<1> DEFINE r == NewRecord(src, TargetOffset(size) + size)
<1>1. Usable /\ checkpoint' = checkpoint /\ accepted' \subseteq accepted \cup {r}
  BY Zenon DEF AppendEvent, AppendInterrupted, AppendEnabled
<1>2. Known' \subseteq Known \cup {r}
  BY Zenon, <1>1, AppendLasts, KnownAfter
<1>3. /\ r.seq = nextSequence /\ r.src = src /\ r.srcSeq = sourceSequence[src] + 1
      /\ nextSequence \in Nat /\ sourceSequence \in [Sources -> Nat]
      /\ committed = checkpoint.committed /\ committed < nextSequence
      /\ checkpoint.committed \in Nat
  BY Zenon, <1>1 DEF NewRecord, IInv, TypeOK, MemOK, UsableOK
<1>4. \A q \in Known : q.seq < nextSequence /\ q.srcSeq <= sourceSequence[q.src]
  <2>1. \A q \in accepted : q.seq < nextSequence
    BY Zenon, <1>1 DEF IInv, AcceptedUnique
  <2>2. \A n \in Names : \A i \in 1..Len(files[n].recs) : files[n].recs[i].seq < nextSequence
    BY Zenon, <1>1 DEF IInv, MemOK, UsableOK, Above, Names
  <2>3. \A q \in Retained : q.seq < nextSequence
    BY Zenon, <2>2, RetainedFacts
  <2> QED
    BY Zenon, <1>1, <2>1, <2>3 DEF SourceInv, Known
<1>5. \A q \in Known : q.seq \in Nat /\ q.srcSeq \in Nat /\ q.src \in Sources
  BY Zenon, KnownTypes
<1> HIDE DEF r
<1>6. \A q \in Known : q.src = r.src => q.srcSeq < r.srcSeq
  BY <1>3, <1>4, <1>5
<1>7. \A q \in Known : ~(r.seq < q.seq)
  BY <1>3, <1>4, <1>5
<1>8. ~(r.seq < r.seq) /\ ~(r.seq <= checkpoint.committed)
  BY <1>3
<1>9. SourceSequenceOrdered'
  <2> SUFFICES ASSUME NEW p \in Known', NEW q \in Known', p.src = q.src, p.seq < q.seq
               PROVE  p.srcSeq < q.srcSeq
    BY Zenon DEF SourceSequenceOrdered, Known
  <2>1. p \in Known
    BY Zenon, <1>2, <1>7, <1>8
  <2>2. CASE q \in Known
    BY Zenon, <2>1, <2>2 DEF SourceInv, SourceSequenceOrdered, Known
  <2>3. CASE q = r
    BY Zenon, <2>1, <2>3, <1>6
  <2> QED
    BY Zenon, <2>2, <2>3, <1>2
<1>10. \A q \in Known' : q.seq <= checkpoint'.committed => q.srcSeq <= checkpoint'.source[q.src]
  BY Zenon, <1>1, <1>2, <1>8 DEF SourceInv
<1>11. Usable' => \A q \in Known' : q.srcSeq <= sourceSequence'[q.src]
  <2> SUFFICES ASSUME Usable', NEW q \in Known' PROVE q.srcSeq <= sourceSequence'[q.src]
    BY Zenon
  <2>1. sourceSequence' = [sourceSequence EXCEPT ![src] = r.srcSeq]
    BY Zenon DEF AppendEvent, AppendInterrupted, Usable, Die, r
  <2>2. CASE q.src = src
    <3>1. sourceSequence'[q.src] = r.srcSeq
      BY Zenon, <1>3, <2>1, <2>2
    <3>2. q = r \/ (q \in Known /\ q.srcSeq < r.srcSeq)
      BY Zenon, <1>2, <1>3, <1>6, <2>2
    <3>3. r.srcSeq \in Nat
      BY <1>3
    <3> QED
      BY <1>5, <3>1, <3>2, <3>3
  <2>3. CASE q.src # src
    <3>1. q \in Known
      BY Zenon, <1>2, <1>3, <2>3
    <3>2. sourceSequence'[q.src] = sourceSequence[q.src]
      BY Zenon, <1>3, <1>5, <2>1, <2>3, <3>1
    <3> QED
      BY Zenon, <1>4, <3>1, <3>2
  <2> QED
    BY Zenon, <2>2, <2>3
<1> QED
  BY Zenon, <1>9, <1>10, <1>11 DEF SourceInv

\* Commit stores the source sequences of a store that knows every record.
LEMMA CommitSource ==
    ASSUME IInv, SourceInv, Commit \/ CommitInterrupted
    PROVE  SourceInv'
<1>1. Usable /\ accepted' = accepted
  BY Zenon DEF Commit, CommitInterrupted, CommitEnabled
<1>2. Known' \subseteq Known
  BY Zenon, <1>1, CommitLasts, KnownAfter
<1>3. NextCheckpoint.source = sourceSequence
  BY Zenon DEF NextCheckpoint
<1>4. checkpoint' = checkpoint \/ checkpoint'.source = sourceSequence
  BY Zenon, <1>3 DEF Commit, CommitInterrupted
<1>5. Usable' => sourceSequence' = sourceSequence
  BY Zenon DEF Commit, CommitInterrupted, Usable, Die
<1> QED
  BY Zenon, <1>1, <1>2, <1>4, <1>5, QuietSource

\* Open starts a store that knows every record, or none.
LEMMA OpenSource ==
    ASSUME IInv, SourceInv, Open \/ OpenFails \/ OpenInterrupted
    PROVE  SourceInv'
<1>1. checkpoint' = checkpoint /\ accepted' = accepted
  BY Zenon DEF Open, OpenFails, OpenInterrupted
<1>2. Known' \subseteq Known
  BY Zenon, <1>1, OpenLasts, KnownAfter
<1>3. Usable' => sourceSequence' = [s \in Sources |-> RecoveredSource(s)]
  BY Zenon DEF Open, OpenFails, OpenInterrupted, Usable, mem
<1>4. Usable' => \A r \in Known : r.srcSeq <= sourceSequence'[r.src]
  BY Zenon, <1>3, RecoveredKnows, KnownTypes
<1> QED
  BY Zenon, <1>1, <1>2, <1>4, QuietSource

\* The other steps write no record and no checkpoint.
LEMMA RestSource ==
    ASSUME IInv, SourceInv,
           \/ \E size \in FrameSizes : AppendRejected(size) \/ RotateInterrupted(size)
           \/ Close \/ CloseInterrupted \/ Kill \/ PowerLoss \/ UNCHANGED vars
    PROVE  SourceInv'
<1>1. checkpoint' = checkpoint /\ accepted' = accepted
  BY Zenon DEF AppendRejected, RotateInterrupted, Close, CloseInterrupted, Kill, PowerLoss, vars, disk
<1>2. Known' \subseteq Known
  BY Zenon, <1>1, QuietLasts, PowerLossLasts, KnownAfter
<1>3. Usable' => Usable /\ sourceSequence' = sourceSequence
  <2>1. ASSUME NEW size \in FrameSizes, AppendRejected(size) \/ RotateInterrupted(size)
        PROVE  Usable' => Usable /\ sourceSequence' = sourceSequence
    BY Zenon, <2>1 DEF AppendRejected, RotateInterrupted, AppendEnabled, Usable, Die
  <2>2. ASSUME Die PROVE ~Usable'
    BY Zenon, <2>2 DEF Die, Usable
  <2>3. ASSUME UNCHANGED vars PROVE Usable' => Usable /\ sourceSequence' = sourceSequence
    BY Zenon, <2>3 DEF vars, mem, Usable
  <2> QED
    BY Zenon, <2>1, <2>2, <2>3 DEF Close, CloseInterrupted, Kill, PowerLoss
<1> QED
  BY Zenon, <1>1, <1>2, <1>3, QuietSource

\* The directory the first Open finds is in order.
LEMMA InitSource == Init => SourceInv
<1> SUFFICES ASSUME Init PROVE SourceInv
  BY Zenon
<1>1. PICK d \in InitialDirs : files = d.files /\ checkpoint = d.checkpoint
  BY Zenon DEF Init
<1>2. SourcesRise(files, checkpoint)
  <2>1. SourcesRise(d.files, d.checkpoint)
    BY Zenon, InitialDirsAssumption DEF IsInitialDir
  <2> QED
    BY Zenon, <1>1, <2>1
<1>3. Known = Retained
  BY Zenon DEF Init, Known
<1>4. \A r, q \in Known : /\ r.src = q.src /\ r.seq < q.seq => r.srcSeq < q.srcSeq
                          /\ r.seq <= checkpoint.committed => r.srcSeq <= checkpoint.source[r.src]
  <2> SUFFICES ASSUME NEW r \in Known, NEW q \in Known
               PROVE  /\ r.src = q.src /\ r.seq < q.seq => r.srcSeq < q.srcSeq
                      /\ r.seq <= checkpoint.committed => r.srcSeq <= checkpoint.source[r.src]
    BY Zenon
  <2>1. /\ \E n \in Names : \E i \in 1..Len(files[n].recs) : r = files[n].recs[i]
        /\ \E n \in Names : \E i \in 1..Len(files[n].recs) : q = files[n].recs[i]
    BY Zenon, <1>3, RetainedFacts
  <2> QED
    BY Zenon, <2>1, <1>2 DEF SourcesRise, Names
<1>5. ~Usable
  BY Zenon DEF Init, MemDown, Usable
<1> QED
  BY Zenon, <1>4, <1>5 DEF SourceInv, SourceSequenceOrdered, Known

\* Monotonic source sequences: of two records of one source, accepted or still
\* retained, the later one has the larger source sequence, although Append
\* counts in memory, compaction removes the records recover would count from,
\* and a crash may come between any two of their steps.
THEOREM SourcesInOrder == Spec => []SourceSequenceOrdered
<1>1. Init => SourceInv
  BY Zenon, InitSource
<1>2. IInv /\ SourceInv /\ [Next]_vars => SourceInv'
  BY Zenon, OpenSource, AppendSource, CommitSource, RestSource DEF Next
<1>3. SourceInv => SourceSequenceOrdered
  BY Zenon DEF SourceInv
<1> QED
  BY <1>1, <1>2, <1>3, Invariance, PTL DEF Spec
=============================================================================
