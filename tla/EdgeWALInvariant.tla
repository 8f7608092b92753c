-------------------------- MODULE EdgeWALInvariant --------------------------
(***************************************************************************)
(* The inductive invariant of EdgeWAL, and what every kind of write to the *)
(* directory does to it: syncing or truncating, creating a segment,        *)
(* appending a frame, sealing, compacting and losing power.  It holds at   *)
(* first, and Open and rotate preserve it.                                 *)
(***************************************************************************)
EXTENDS EdgeWAL, WellFoundedInduction, TLAPS

-----------------------------------------------------------------------------
(* The inductive invariant.                                                *)

HasMax(S) == \E x \in S : \A y \in S : y <= x

FullySynced(f) == f.hdr /\ f.synced = Len(f.recs) + 1

\* Segment files: sequences are not below the name, increase within a file and
\* from one file to the next; all but the newest are complete and synced, and
\* so is one with legacy records.
FilesOK(fs) ==
    /\ DOMAIN fs \subseteq Nat \ {0}
    /\ fs \in [DOMAIN fs -> File]
    /\ DOMAIN fs # {} => HasMax(DOMAIN fs)
    /\ \A n \in DOMAIN fs : \A i \in 1..Len(fs[n].recs) : fs[n].recs[i].seq >= n
    /\ \A n \in DOMAIN fs : \A i, j \in 1..Len(fs[n].recs) :
          i < j => fs[n].recs[i].seq < fs[n].recs[j].seq
    /\ \A m, n \in DOMAIN fs : m < n =>
          \A i \in 1..Len(fs[m].recs), j \in 1..Len(fs[n].recs) :
              fs[m].recs[i].seq < fs[n].recs[j].seq
    /\ \A m, n \in DOMAIN fs : m < n => FullySynced(fs[m])
    /\ \A n \in DOMAIN fs : \A i \in 1..Len(fs[n].recs) :
          fs[n].recs[i].version = LegacyVersion => fs[n].synced = Len(fs[n].recs) + 1

\* Seals: a retained sealed segment is what was sealed, and durable; one that
\* is gone was committed (c is the checkpoint).
SealsOK(fs, sl, c) ==
    /\ DOMAIN sl \subseteq Nat \ {0}
    /\ sl \in [DOMAIN sl -> Seal]
    /\ DOMAIN sl # {} => HasMax(DOMAIN sl)
    /\ \A n \in DOMAIN sl : sl[n].root # <<>> /\ sl[n].last >= n
    /\ \A n \in DOMAIN sl : n \in DOMAIN fs =>
          /\ fs[n].recs # <<>>
          /\ sl[n].last = LastOf(fs[n].recs).seq
          /\ FullySynced(fs[n])
    /\ \A n \in DOMAIN sl : n \notin DOMAIN fs => sl[n].last <= c

\* A segment name is at most one past a committed or retained sequence.
NamesOK(fs, c) ==
    \A n \in DOMAIN fs :
        \/ n <= c + 1
        \/ \E m \in DOMAIN fs : /\ m < n
                               /\ fs[m].recs # <<>>
                               /\ LastOf(fs[m].recs).seq >= n - 1

\* x is a sequence no segment has used, as a name or for a record.
Above(fs, x) ==
    \A n \in DOMAIN fs : n <= x /\ \A i \in 1..Len(fs[n].recs) : fs[n].recs[i].seq < x

\* Source sequences are bounded by the number of attempts, b.
SrcBound(fs, b) ==
    \A n \in DOMAIN fs : \A i \in 1..Len(fs[n].recs) : fs[n].recs[i].srcSeq <= b

SourceOK ==
    \A s \in Sources : checkpoint.source[s] <= attempts /\ sourceSequence[s] <= attempts

\* The open segment exists and holds what the store has counted in it.
CurrentOK ==
    current # NoFile =>
        /\ current \in Names
        /\ current \in DOMAIN count
        /\ files[current].hdr
        /\ count[current] <= Len(files[current].recs)

\* A usable store mirrors the directory and owns its newest segment.
UsableOK ==
    /\ current # NoFile
    /\ DOMAIN count = Names
    /\ \A n \in Names : count[n] = Len(files[n].recs) /\ n <= current
    /\ current \notin DOMAIN seals
    /\ \A i \in 1..Len(files[current].recs) : files[current].recs[i].version = Version
    /\ currentSize = FileSize(files[current])
    /\ committed = checkpoint.committed
    /\ committed < nextSequence
    /\ Above(files, nextSequence)
    /\ files[current].recs # <<>> => LastOf(files[current].recs).seq = nextSequence - 1

\* Every record of A is committed (up to c) or durable in a file of fs.
DurableIn(A, fs, c) ==
    \A r \in A :
        \/ r.seq <= c
        \/ \E n \in DOMAIN fs : \E i \in 1..Len(fs[n].recs) :
              fs[n].recs[i] = r /\ i < fs[n].synced

\* A record of fs with the sequence of a record of A is that record.
UniqueIn(A, fs) ==
    \A r \in A : \A n \in DOMAIN fs : \A i \in 1..Len(fs[n].recs) :
        fs[n].recs[i].seq = r.seq => fs[n].recs[i] = r

\* What holds of a directory fs with seals sl, a checkpoint at c, accepted
\* records A and b append attempts.
DirInv(fs, sl, c, A, b) ==
    /\ FilesOK(fs)
    /\ SealsOK(fs, sl, c)
    /\ NamesOK(fs, c)
    /\ DurableIn(A, fs, c)
    /\ UniqueIn(A, fs)
    /\ SrcBound(fs, b)

MemOK ==
    /\ phase = "up" => CurrentOK
    /\ Usable => UsableOK

\* An accepted sequence is no other accepted record's, and a usable store is
\* past it.
AcceptedUnique ==
    /\ \A r, q \in accepted : r.seq = q.seq => r = q
    /\ Usable => \A r \in accepted : r.seq < nextSequence

IInv ==
    /\ TypeOK
    /\ DirInv(files, seals, checkpoint.committed, accepted, attempts)
    /\ SourceOK
    /\ MemOK
    /\ AcceptedUnique

-----------------------------------------------------------------------------
(* Maxima of sets of naturals.                                             *)

\* A nonempty set of naturals has a least element.
LEMMA MinExists ==
    ASSUME NEW S, S \subseteq Nat, S # {}
    PROVE  \E x \in S : \A y \in S : x <= y
<1>1. PICK x \in S : \A y \in S : ~ (<<y, x>> \in OpToRel(<, Nat))
  BY Zenon, WFMin, NatLessThanWellFounded
<1>2. \A y \in S : ~ (y < x)
  BY Zenon, <1>1 DEF OpToRel
<1> QED
  BY <1>2

\* A nonempty, bounded set of naturals has the maximum that Max chooses, such as
\* the last sequence of a directory.
LEMMA MaxExists ==
    ASSUME NEW S, S \subseteq Nat, S # {}, NEW b \in Nat, \A x \in S : x <= b
    PROVE  Max(S) \in S /\ \A y \in S : y <= Max(S)
<1> DEFINE U == {u \in Nat : \A x \in S : x <= u}
<1>1. PICK u \in U : \A v \in U : u <= v
  <2>1. U \subseteq Nat /\ U # {}
    BY Zenon
  <2> QED
    BY Zenon, <2>1, MinExists
<1>2. u \in S
  <2> SUFFICES ASSUME u \notin S PROVE FALSE
    BY Zenon
  <2>1. PICK x \in S : TRUE
    BY Zenon
  <2>2. \A y \in S : y <= u - 1
    BY <1>1
  <2>3. u - 1 \in Nat
    BY <2>1, <2>2, <1>1
  <2> QED
    BY <2>2, <2>3, <1>1
<1> QED
  BY Zenon, <1>1, <1>2 DEF Max

\* So has every nonempty subset of it.
LEMMA MaxOfBounded ==
    ASSUME NEW S, S \subseteq Nat, HasMax(S), NEW T, T \subseteq S, T # {}
    PROVE  Max(T) \in T /\ \A y \in T : y <= Max(T)
<1>1. PICK b \in S : \A y \in S : y <= b
  BY Zenon DEF HasMax
<1>2. b \in Nat /\ T \subseteq Nat /\ \A y \in T : y <= b
  BY <1>1, Zenon
<1> QED
  BY Zenon, <1>2, MaxExists

\* HasMax passes to nonempty subsets (segments are removed).
LEMMA HasMaxSubset ==
    ASSUME NEW S, S \subseteq Nat, HasMax(S), NEW T, T \subseteq S, T # {}
    PROVE  HasMax(T)
  BY Zenon, MaxOfBounded DEF HasMax

\* HasMax survives a new member (a segment is created).
LEMMA HasMaxAdd ==
    ASSUME NEW S, S \subseteq Nat, S # {} => HasMax(S), NEW n \in Nat
    PROVE  HasMax(S \cup {n})
<1>1. CASE S = {}
  BY <1>1 DEF HasMax
<1>2. CASE S # {}
  <2>1. PICK x \in S : \A y \in S : y <= x
    BY <1>2, Zenon DEF HasMax
  <2>2. CASE n <= x
    BY <2>1, <2>2, Zenon DEF HasMax
  <2>3. CASE n > x
    <3>1. \A y \in S : y <= n
      BY <2>1, <2>3
    <3> QED
      BY <3>1 DEF HasMax
  <2> QED
    BY <2>1, <2>2, <2>3
<1> QED
  BY <1>1, <1>2, Zenon

-----------------------------------------------------------------------------
(* What the store does to a directory, one lemma per kind of write.        *)

\* The last record of a segment is one of its records.
LEMMA LastIsMember ==
    ASSUME NEW S, NEW s \in Seq(S), s # <<>>
    PROVE  Len(s) \in 1..Len(s) /\ LastOf(s) \in S /\ LastOf(s) = s[Len(s)]
  BY DEF LastOf

\* What the type of a directory says of one of its records.
LEMMA FileFacts ==
    ASSUME NEW fs, FilesOK(fs), NEW n \in DOMAIN fs
    PROVE  /\ n \in Nat /\ n > 0
           /\ fs[n] \in File
           /\ fs[n].recs \in Seq(Record)
           /\ Len(fs[n].recs) \in Nat
           /\ fs[n].synced \in Nat
           /\ \A i \in 1..Len(fs[n].recs) :
                 fs[n].recs[i] \in Record /\ fs[n].recs[i].seq \in Nat /\ i \in Nat
<1>1. n \in Nat /\ n > 0 /\ fs[n] \in File
  BY DEF FilesOK
<1>2. fs[n].recs \in Seq(Record) /\ fs[n].synced \in Nat
  BY <1>1, Zenon DEF File
<1>3. \A i \in 1..Len(fs[n].recs) : fs[n].recs[i] \in Record /\ i \in Nat
  BY <1>2
<1>4. \A i \in 1..Len(fs[n].recs) : fs[n].recs[i].seq \in Nat
  BY <1>3, Zenon DEF Record
<1>5. Len(fs[n].recs) \in Nat
  BY <1>2
<1> QED
  BY <1>1, <1>2, <1>3, <1>4, <1>5, Zenon

\* The last record of a segment has its largest sequence.
LEMMA LastFacts ==
    ASSUME NEW fs, FilesOK(fs), NEW n \in DOMAIN fs, fs[n].recs # <<>>
    PROVE  /\ LastOf(fs[n].recs) \in Record
           /\ LastOf(fs[n].recs).seq \in Nat
           /\ LastOf(fs[n].recs) = fs[n].recs[Len(fs[n].recs)]
           /\ Len(fs[n].recs) \in 1..Len(fs[n].recs)
           /\ \A i \in 1..Len(fs[n].recs) : fs[n].recs[i].seq <= LastOf(fs[n].recs).seq
<1>1. fs[n].recs \in Seq(Record) /\ Len(fs[n].recs) \in Nat
  BY FileFacts, Zenon
<1>2. /\ LastOf(fs[n].recs) \in Record
      /\ LastOf(fs[n].recs) = fs[n].recs[Len(fs[n].recs)]
      /\ Len(fs[n].recs) \in 1..Len(fs[n].recs)
  BY <1>1, LastIsMember, Zenon
<1>3. LastOf(fs[n].recs).seq \in Nat
  BY <1>2, Zenon DEF Record
<1>4. ASSUME NEW i \in 1..Len(fs[n].recs)
      PROVE  fs[n].recs[i].seq <= LastOf(fs[n].recs).seq
  <2>1. CASE i = Len(fs[n].recs)
    BY <2>1, <1>2, <1>3
  <2>2. CASE i < Len(fs[n].recs)
    <3>1. fs[n].recs[i].seq < fs[n].recs[Len(fs[n].recs)].seq
      BY <2>2, <1>2, Zenon DEF FilesOK
    <3>2. fs[n].recs[i].seq \in Nat
      BY FileFacts, Zenon
    <3> QED
      BY <3>1, <3>2, <1>2, <1>3
  <2> QED
    BY <2>1, <2>2, <1>1
<1> QED
  BY <1>2, <1>3, <1>4, Zenon

\* Syncs, truncations and partial frames do not touch records.
Touched(fs, gs) ==
    /\ gs \in [DOMAIN fs -> File]
    /\ \A n \in DOMAIN fs :
          /\ gs[n].recs = fs[n].recs
          /\ fs[n].hdr => gs[n].hdr
          /\ gs[n].synced = fs[n].synced \/ gs[n].synced = Len(fs[n].recs) + 1

\* Syncing, sealing or repairing a tail leaves well-formed segments well formed.
LEMMA TouchFiles ==
    ASSUME NEW fs, NEW gs, FilesOK(fs), Touched(fs, gs)
    PROVE  FilesOK(gs)
<1>1. DOMAIN gs = DOMAIN fs
  BY Zenon DEF Touched
<1>2. \A n \in DOMAIN fs : gs[n].recs = fs[n].recs
  BY Zenon DEF Touched
<1>3. \A m, n \in DOMAIN gs : m < n => FullySynced(gs[m])
  BY <1>1, Zenon DEF Touched, FilesOK, FullySynced
<1>4. \A n \in DOMAIN gs : \A i \in 1..Len(gs[n].recs) :
          gs[n].recs[i].version = LegacyVersion => gs[n].synced = Len(gs[n].recs) + 1
  BY <1>1, Zenon DEF Touched, FilesOK
<1> QED
  BY Zenon, <1>1, <1>2, <1>3, <1>4 DEF FilesOK, Touched

\* It leaves seals, names, durability and uniqueness as they are, too.
LEMMA TouchRest ==
    ASSUME NEW fs, NEW gs, NEW sl, NEW c, NEW x, NEW A, FilesOK(fs), Touched(fs, gs)
    PROVE  /\ SealsOK(fs, sl, c) => SealsOK(gs, sl, c)
           /\ NamesOK(fs, c) => NamesOK(gs, c)
           /\ Above(fs, x) => Above(gs, x)
           /\ DurableIn(A, fs, c) => DurableIn(A, gs, c)
           /\ UniqueIn(A, fs) => UniqueIn(A, gs)
<1>1. DOMAIN gs = DOMAIN fs
  BY Zenon DEF Touched
<1>2. \A n \in DOMAIN fs : gs[n].recs = fs[n].recs
  BY Zenon DEF Touched
<1>3. SealsOK(fs, sl, c) => SealsOK(gs, sl, c)
  BY <1>1, Zenon DEF SealsOK, Touched, FullySynced
<1>4. NamesOK(fs, c) => NamesOK(gs, c)
  BY <1>1, <1>2, Zenon DEF NamesOK
<1>5. Above(fs, x) => Above(gs, x)
  BY <1>1, <1>2, Zenon DEF Above
<1>6. \A n \in DOMAIN fs : \A i \in 1..Len(fs[n].recs) : i < fs[n].synced => i < gs[n].synced
  <2> SUFFICES ASSUME NEW n \in DOMAIN fs, NEW i \in 1..Len(fs[n].recs), i < fs[n].synced
               PROVE  i < gs[n].synced
    BY Zenon
  <2>1. Len(fs[n].recs) \in Nat
    BY FileFacts, Zenon
  <2> QED
    BY <2>1 DEF Touched
<1>7. DurableIn(A, fs, c) => DurableIn(A, gs, c)
  BY <1>1, <1>2, <1>6 DEF DurableIn
<1>8. UniqueIn(A, fs) => UniqueIn(A, gs)
  BY <1>1, <1>2 DEF UniqueIn
<1> QED
  BY <1>3, <1>4, <1>5, <1>7, <1>8, Zenon

\* createSegment adds an empty segment behind all others: the segments stay well
\* formed.
LEMMA NewSegmentFiles ==
    ASSUME NEW fs, NEW n \in Nat \ {0}, NEW f \in File, FilesOK(fs),
           f.recs = <<>>, n \notin DOMAIN fs,
           \A m \in DOMAIN fs : m < n /\ FullySynced(fs[m])
    PROVE  FilesOK(With(fs, n, f))
<1> DEFINE gs == With(fs, n, f)
<1>1. DOMAIN gs = DOMAIN fs \cup {n} /\ gs[n] = f /\ \A m \in DOMAIN fs : gs[m] = fs[m]
  BY Zenon DEF With
<1>2. DOMAIN gs \subseteq Nat \ {0} /\ gs \in [DOMAIN gs -> File]
  BY Zenon DEF FilesOK, With
<1>3. HasMax(DOMAIN gs)
  BY <1>1, HasMaxAdd DEF FilesOK
<1>4. Len(gs[n].recs) = 0
  BY <1>1
<1> HIDE DEF gs
<1>5. \A m \in DOMAIN gs : \A i \in 1..Len(gs[m].recs) : gs[m].recs[i].seq >= m
  BY <1>1, <1>4 DEF FilesOK
<1>6. \A m \in DOMAIN gs : \A i, j \in 1..Len(gs[m].recs) :
          i < j => gs[m].recs[i].seq < gs[m].recs[j].seq
  BY <1>1, <1>4 DEF FilesOK
<1>7. \A k, m \in DOMAIN gs : k < m =>
          \A i \in 1..Len(gs[k].recs), j \in 1..Len(gs[m].recs) :
              gs[k].recs[i].seq < gs[m].recs[j].seq
  BY <1>1, <1>4 DEF FilesOK
<1>8. \A k, m \in DOMAIN gs : k < m => FullySynced(gs[k])
  BY <1>1 DEF FilesOK
<1>9. \A m \in DOMAIN gs : \A i \in 1..Len(gs[m].recs) :
          gs[m].recs[i].version = LegacyVersion => gs[m].synced = Len(gs[m].recs) + 1
  BY <1>1, <1>4 DEF FilesOK
<1>10. FilesOK(gs)
  BY Zenon, <1>2, <1>3, <1>5, <1>6, <1>7, <1>8, <1>9 DEF FilesOK
<1> QED
  BY <1>10, Zenon DEF gs

\* The new, empty segment holds no record, so what is said of records stays true;
\* its name continues the sequence.
LEMMA NewSegmentRest ==
    ASSUME NEW fs, NEW n \in Nat \ {0}, NEW f \in File, NEW sl, NEW c \in Nat, NEW A,
           f.recs = <<>>, n \notin DOMAIN fs, n > c,
           \/ n = c + 1
           \/ \E m \in DOMAIN fs : /\ m < n
                                  /\ fs[m].recs # <<>>
                                  /\ LastOf(fs[m].recs).seq >= n - 1
    PROVE  /\ SealsOK(fs, sl, c) => SealsOK(With(fs, n, f), sl, c) /\ n \notin DOMAIN sl
           /\ NamesOK(fs, c) => NamesOK(With(fs, n, f), c)
           /\ Above(fs, n) => Above(With(fs, n, f), n)
           /\ DurableIn(A, fs, c) => DurableIn(A, With(fs, n, f), c)
           /\ UniqueIn(A, fs) => UniqueIn(A, With(fs, n, f))
<1> DEFINE gs == With(fs, n, f)
<1>1. DOMAIN gs = DOMAIN fs \cup {n} /\ gs[n] = f /\ \A m \in DOMAIN fs : gs[m] = fs[m]
  BY Zenon DEF With
<1>2. Len(gs[n].recs) = 0
  BY <1>1
<1> HIDE DEF gs
<1>3. SealsOK(fs, sl, c) => n \notin DOMAIN sl
  <2> SUFFICES ASSUME SealsOK(fs, sl, c), n \in DOMAIN sl PROVE FALSE
    BY Zenon
  <2>1. sl[n].last <= c /\ sl[n].last >= n /\ sl[n].last \in Nat
    BY Zenon DEF SealsOK, Seal
  <2> QED
    BY <2>1
<1>4. SealsOK(fs, sl, c) => SealsOK(gs, sl, c)
  BY <1>1, <1>3, Zenon DEF SealsOK
<1>5. NamesOK(fs, c) => NamesOK(gs, c)
  BY <1>1 DEF NamesOK
<1>6. Above(fs, n) => Above(gs, n)
  BY <1>1, <1>2 DEF Above
<1>7. DurableIn(A, fs, c) => DurableIn(A, gs, c)
  BY <1>1 DEF DurableIn
<1>8. UniqueIn(A, fs) => UniqueIn(A, gs)
  BY <1>1, <1>2 DEF UniqueIn
<1> QED
  BY <1>3, <1>4, <1>5, <1>6, <1>7, <1>8, Zenon DEF gs

\* A frame goes to the newest segment, with a sequence above every other.
Appended(fs, gs, n, r) ==
    /\ n \in DOMAIN fs
    /\ \A m \in DOMAIN fs : m <= n
    /\ gs = [fs EXCEPT ![n] = gs[n]]
    /\ gs[n] \in File
    /\ gs[n].recs = Append(fs[n].recs, r)
    /\ gs[n].hdr = fs[n].hdr
    /\ gs[n].synced = fs[n].synced \/ gs[n].synced = Len(fs[n].recs) + 2
    /\ r \in Record
    /\ r.version = Version
    /\ \A i \in 1..Len(fs[n].recs) : fs[n].recs[i].version = Version
    /\ Above(fs, r.seq)

\* What a directory looks like after one more frame at the tail.
LEMMA AppendFacts ==
    ASSUME NEW fs, NEW gs, NEW n, NEW r, FilesOK(fs), Appended(fs, gs, n, r)
    PROVE  /\ DOMAIN gs = DOMAIN fs
           /\ \A m \in DOMAIN fs : m # n => gs[m] = fs[m]
           /\ fs[n].recs \in Seq(Record)
           /\ Len(gs[n].recs) = Len(fs[n].recs) + 1
           /\ \A i \in 1..Len(fs[n].recs) : gs[n].recs[i] = fs[n].recs[i]
           /\ gs[n].recs[Len(fs[n].recs) + 1] = r
           /\ gs \in [DOMAIN fs -> File]
<1>1. fs[n].recs \in Seq(Record)
  BY Zenon DEF FilesOK, Appended, File
<1>2. r \in Record /\ gs[n].recs = Append(fs[n].recs, r)
  BY Zenon DEF Appended
<1>3. /\ Len(gs[n].recs) = Len(fs[n].recs) + 1
      /\ \A i \in 1..Len(fs[n].recs) : gs[n].recs[i] = fs[n].recs[i]
      /\ gs[n].recs[Len(fs[n].recs) + 1] = r
  BY <1>1, <1>2
<1>4. /\ DOMAIN gs = DOMAIN fs
      /\ \A m \in DOMAIN fs : m # n => gs[m] = fs[m]
      /\ gs \in [DOMAIN fs -> File]
  BY Zenon DEF Appended, FilesOK
<1> QED
  BY <1>1, <1>3, <1>4, Zenon

\* The frame continues the sequence of its segment: the segments stay well formed.
LEMMA AppendFiles ==
    ASSUME NEW fs, NEW gs, NEW n, NEW r, FilesOK(fs), Appended(fs, gs, n, r)
    PROVE  FilesOK(gs)
<1> DEFINE k == Len(fs[n].recs)
<1>a. /\ DOMAIN gs = DOMAIN fs
      /\ \A m \in DOMAIN fs : m # n => gs[m] = fs[m]
      /\ Len(gs[n].recs) = k + 1
      /\ \A i \in 1..k : gs[n].recs[i] = fs[n].recs[i]
      /\ gs[n].recs[k + 1] = r
      /\ gs \in [DOMAIN gs -> File]
  BY AppendFacts
<1>b. /\ n \in DOMAIN fs /\ \A m \in DOMAIN fs : m <= n /\ m \in Nat
      /\ k \in Nat
      /\ n \in Nat
  BY FileFacts, Zenon DEF Appended
<1>c. r.seq \in Nat /\ n <= r.seq
  BY <1>b, Zenon DEF Appended, Above, Record
<1>1. \A m \in DOMAIN fs : \A i \in 1..Len(fs[m].recs) :
          fs[m].recs[i].seq < r.seq /\ fs[m].recs[i].seq \in Nat
  BY FileFacts, Zenon DEF Appended, Above
<1> HIDE DEF k
<1>2. \A m \in DOMAIN gs : \A i \in 1..Len(gs[m].recs) :
          \/ i \in 1..Len(fs[m].recs) /\ gs[m].recs[i] = fs[m].recs[i]
          \/ m = n /\ i = k + 1 /\ gs[m].recs[i] = r
  BY <1>a, <1>b DEF k
<1>3. \A m \in DOMAIN gs : \A i \in 1..Len(gs[m].recs) : gs[m].recs[i].seq >= m
  BY <1>a, <1>c, <1>2, Zenon DEF FilesOK
<1>4. \A m \in DOMAIN gs : \A i, j \in 1..Len(gs[m].recs) :
          i < j => gs[m].recs[i].seq < gs[m].recs[j].seq
  <2> SUFFICES ASSUME NEW m \in DOMAIN gs, NEW i \in 1..Len(gs[m].recs),
                      NEW j \in 1..Len(gs[m].recs), i < j
               PROVE  gs[m].recs[i].seq < gs[m].recs[j].seq
    BY Zenon
  <2>1. i \in 1..Len(fs[m].recs) /\ gs[m].recs[i] = fs[m].recs[i]
    BY <1>a, <1>b, <1>2
  <2>2. CASE j \in 1..Len(fs[m].recs) /\ gs[m].recs[j] = fs[m].recs[j]
    BY <2>1, <2>2, <1>a, Zenon DEF FilesOK
  <2>3. CASE m = n /\ gs[m].recs[j] = r
    BY <2>1, <2>3, <1>1, <1>a, Zenon
  <2> QED
    BY <2>2, <2>3, <1>2, Zenon
<1>5. \A l, m \in DOMAIN gs : l < m =>
          \A i \in 1..Len(gs[l].recs), j \in 1..Len(gs[m].recs) :
              gs[l].recs[i].seq < gs[m].recs[j].seq
  <2> SUFFICES ASSUME NEW l \in DOMAIN gs, NEW m \in DOMAIN gs, l < m,
                      NEW i \in 1..Len(gs[l].recs), NEW j \in 1..Len(gs[m].recs)
               PROVE  gs[l].recs[i].seq < gs[m].recs[j].seq
    BY Zenon
  <2>1. l # n /\ l \in DOMAIN fs /\ m \in DOMAIN fs
    BY <1>a, <1>b
  <2>2. i \in 1..Len(fs[l].recs) /\ gs[l].recs[i] = fs[l].recs[i]
    BY <2>1, <1>2, Zenon
  <2>3. CASE j \in 1..Len(fs[m].recs) /\ gs[m].recs[j] = fs[m].recs[j]
    BY Zenon, <2>1, <2>2, <2>3 DEF FilesOK
  <2>4. CASE m = n /\ gs[m].recs[j] = r
    BY <2>1, <2>2, <2>4, <1>1, Zenon
  <2> QED
    BY <2>3, <2>4, <1>2, Zenon
<1>6. \A l, m \in DOMAIN gs : l < m => FullySynced(gs[l])
  <2> SUFFICES ASSUME NEW l \in DOMAIN gs, NEW m \in DOMAIN gs, l < m
               PROVE  FullySynced(gs[l])
    BY Zenon
  <2>1. l # n
    BY <1>a, <1>b
  <2> QED
    BY <2>1, <1>a, Zenon DEF FilesOK
<1>7. \A m \in DOMAIN gs : \A i \in 1..Len(gs[m].recs) :
          gs[m].recs[i].version = LegacyVersion => gs[m].synced = Len(gs[m].recs) + 1
  <2> SUFFICES ASSUME NEW m \in DOMAIN gs, NEW i \in 1..Len(gs[m].recs),
                      gs[m].recs[i].version = LegacyVersion
               PROVE  gs[m].synced = Len(gs[m].recs) + 1
    BY Zenon
  <2>1. m # n
    BY <1>2 DEF Appended, Version, LegacyVersion
  <2>2. gs[m] = fs[m] /\ m \in DOMAIN fs
    BY <2>1, <1>a, Zenon
  <2> QED
    BY <2>2, Zenon DEF FilesOK
<1> QED
  BY Zenon, <1>a, <1>3, <1>4, <1>5, <1>6, <1>7 DEF FilesOK

\* No accepted record is lost or doubled by the frame, and no seal concerned.
LEMMA AppendRest ==
    ASSUME NEW fs, NEW gs, NEW n, NEW r, NEW sl, NEW c, NEW A,
           FilesOK(fs), Appended(fs, gs, n, r)
    PROVE  /\ SealsOK(fs, sl, c) /\ n \notin DOMAIN sl => SealsOK(gs, sl, c)
           /\ NamesOK(fs, c) => NamesOK(gs, c)
           /\ Above(gs, r.seq + 1)
           /\ DurableIn(A, fs, c) => DurableIn(A, gs, c)
           /\ UniqueIn(A, fs) /\ (\A q \in A : q.seq < r.seq) => UniqueIn(A, gs)
<1> DEFINE k == Len(fs[n].recs)
<1>a. /\ DOMAIN gs = DOMAIN fs
      /\ \A m \in DOMAIN fs : m # n => gs[m] = fs[m]
      /\ Len(gs[n].recs) = k + 1
      /\ \A i \in 1..k : gs[n].recs[i] = fs[n].recs[i]
      /\ gs[n].recs[k + 1] = r
  BY AppendFacts
<1>b. /\ n \in DOMAIN fs /\ \A m \in DOMAIN fs : m <= n /\ m \in Nat
      /\ k \in Nat
      /\ n \in Nat
  BY FileFacts, Zenon DEF Appended
<1>c. r.seq \in Nat /\ n <= r.seq
  BY <1>b, Zenon DEF Appended, Above, Record
<1>1. \A m \in DOMAIN fs : \A i \in 1..Len(fs[m].recs) :
          fs[m].recs[i].seq < r.seq /\ fs[m].recs[i].seq \in Nat
  BY FileFacts, Zenon DEF Appended, Above
<1> HIDE DEF k
<1>2. \A m \in DOMAIN gs : \A i \in 1..Len(gs[m].recs) :
          \/ i \in 1..Len(fs[m].recs) /\ gs[m].recs[i] = fs[m].recs[i]
          \/ m = n /\ i = k + 1 /\ gs[m].recs[i] = r
  BY <1>a, <1>b DEF k
<1>3. SealsOK(fs, sl, c) /\ n \notin DOMAIN sl => SealsOK(gs, sl, c)
  BY <1>a, Zenon DEF SealsOK
<1>4. NamesOK(fs, c) => NamesOK(gs, c)
  <2> SUFFICES ASSUME NamesOK(fs, c), NEW m \in DOMAIN gs, ~(m <= c + 1)
               PROVE  \E l \in DOMAIN gs : /\ l < m
                                          /\ gs[l].recs # <<>>
                                          /\ LastOf(gs[l].recs).seq >= m - 1
    BY Zenon DEF NamesOK
  <2>1. PICK l \in DOMAIN fs : /\ l < m
                               /\ fs[l].recs # <<>>
                               /\ LastOf(fs[l].recs).seq >= m - 1
    BY <1>a, Zenon DEF NamesOK
  <2>2. l # n
    BY <2>1, <1>a, <1>b
  <2> QED
    BY <2>1, <2>2, <1>a, Zenon
<1>5. Above(gs, r.seq + 1)
  <2> SUFFICES ASSUME NEW m \in DOMAIN gs
               PROVE  /\ m <= r.seq + 1
                      /\ \A i \in 1..Len(gs[m].recs) : gs[m].recs[i].seq < r.seq + 1
    BY Zenon DEF Above
  <2>1. m <= r.seq + 1
    BY <1>a, <1>b, <1>c
  <2>2. ASSUME NEW i \in 1..Len(gs[m].recs) PROVE gs[m].recs[i].seq < r.seq + 1
    <3>1. CASE i \in 1..Len(fs[m].recs) /\ gs[m].recs[i] = fs[m].recs[i]
      BY <3>1, <1>a, <1>c, <1>1
    <3>2. CASE gs[m].recs[i] = r
      BY <3>2, <1>c
    <3> QED
      BY <3>1, <3>2, <1>2, Zenon
  <2> QED
    BY <2>1, <2>2, Zenon
<1>6. \A m \in DOMAIN fs : \A i \in 1..Len(fs[m].recs) :
         i \in 1..Len(gs[m].recs) /\ gs[m].recs[i] = fs[m].recs[i]
  BY <1>a, <1>b DEF k
<1>7. \A m \in DOMAIN fs : \A i \in 1..Len(fs[m].recs) :
         i < fs[m].synced => i < gs[m].synced
  <2> SUFFICES ASSUME NEW m \in DOMAIN fs, NEW i \in 1..Len(fs[m].recs), i < fs[m].synced
               PROVE  i < gs[m].synced
    BY Zenon
  <2>1. CASE m # n
    BY <2>1, <1>a, Zenon
  <2>2. CASE m = n
    <3>1. gs[n].synced = fs[n].synced \/ gs[n].synced = k + 2
      BY Zenon DEF Appended, k
    <3>2. i \in 1..k
      BY <2>2, Zenon DEF k
    <3> QED
      BY <2>2, <3>1, <3>2, <1>b
  <2> QED
    BY <2>1, <2>2, Zenon
<1>8. DurableIn(A, fs, c) => DurableIn(A, gs, c)
  BY <1>a, <1>6, <1>7 DEF DurableIn
<1>9. UniqueIn(A, fs) /\ (\A q \in A : q.seq < r.seq) => UniqueIn(A, gs)
  <2> SUFFICES ASSUME UniqueIn(A, fs), \A q \in A : q.seq < r.seq, NEW q \in A,
                      NEW m \in DOMAIN gs, NEW i \in 1..Len(gs[m].recs),
                      gs[m].recs[i].seq = q.seq
               PROVE  gs[m].recs[i] = q
    BY Zenon DEF UniqueIn
  <2>1. gs[m].recs[i] # r
    BY <1>c
  <2>2. i \in 1..Len(fs[m].recs) /\ gs[m].recs[i] = fs[m].recs[i] /\ m \in DOMAIN fs
    BY <2>1, <1>2, <1>a, Zenon
  <2> QED
    BY <2>2 DEF UniqueIn
<1> QED
  BY <1>3, <1>4, <1>5, <1>8, <1>9, Zenon

\* compact and a power loss remove whole files.
LEMMA RemoveFiles ==
    ASSUME NEW fs, NEW S, S \subseteq DOMAIN fs, FilesOK(fs)
    PROVE  FilesOK(Restrict(fs, S))
<1> DEFINE gs == Restrict(fs, S)
<1>1. DOMAIN gs = S /\ \A n \in S : gs[n] = fs[n] /\ n \in DOMAIN fs
  BY Zenon DEF Restrict
<1>2. gs \in [S -> File] /\ S \subseteq Nat \ {0}
  BY Zenon DEF Restrict, FilesOK
<1>3. S # {} => HasMax(S)
  BY HasMaxSubset, Zenon DEF FilesOK
<1> HIDE DEF gs
<1>4. FilesOK(gs)
  BY Zenon, <1>1, <1>2, <1>3 DEF FilesOK
<1> QED
  BY <1>4, Zenon DEF gs

\* compact removes segments that are committed to the end: what is not committed
\* stays durable, and names and seals stay in order.
LEMMA CompactRest ==
    ASSUME NEW fs, NEW R, NEW sl, NEW c \in Nat, NEW d \in Nat, NEW A, NEW x,
           FilesOK(fs), c <= d, A \subseteq Record,
           \A n \in R : n \in DOMAIN fs /\ fs[n].recs # <<>> /\ LastOf(fs[n].recs).seq <= d
    PROVE  LET gs == Restrict(fs, DOMAIN fs \ R) IN
           /\ SealsOK(fs, sl, c) => SealsOK(gs, sl, d)
           /\ NamesOK(fs, c) => NamesOK(gs, d)
           /\ Above(fs, x) => Above(gs, x)
           /\ DurableIn(A, fs, c) => DurableIn(A, gs, d)
           /\ UniqueIn(A, fs) => UniqueIn(A, gs)
<1> DEFINE gs == Restrict(fs, DOMAIN fs \ R)
<1>1. DOMAIN gs = DOMAIN fs \ R /\ \A n \in DOMAIN gs : gs[n] = fs[n] /\ n \in DOMAIN fs
  BY Zenon DEF Restrict
<1> HIDE DEF gs
<1>2. \A n \in R : LastOf(fs[n].recs).seq \in Nat
  BY LastFacts, Zenon
<1>3. SealsOK(fs, sl, c) => SealsOK(gs, sl, d)
  <2> SUFFICES ASSUME SealsOK(fs, sl, c), NEW n \in DOMAIN sl, n \notin DOMAIN gs
               PROVE  sl[n].last <= d
    BY <1>1, Zenon DEF SealsOK
  <2>1. CASE n \in DOMAIN fs
    BY <2>1, <1>1, Zenon DEF SealsOK
  <2>2. CASE n \notin DOMAIN fs
    <3>1. sl[n].last \in Nat /\ sl[n].last <= c
      BY <2>2, Zenon DEF SealsOK, Seal
    <3> QED
      BY <3>1
  <2> QED
    BY <2>1, <2>2, Zenon
<1>4. NamesOK(fs, c) => NamesOK(gs, d)
  <2> SUFFICES ASSUME NamesOK(fs, c), NEW n \in DOMAIN gs, ~(n <= d + 1)
               PROVE  \E m \in DOMAIN gs : /\ m < n
                                          /\ gs[m].recs # <<>>
                                          /\ LastOf(gs[m].recs).seq >= n - 1
    BY Zenon DEF NamesOK
  <2>1. n \in Nat /\ n \in DOMAIN fs
    BY <1>1, FileFacts, Zenon
  <2>2. PICK m \in DOMAIN fs : /\ m < n
                               /\ fs[m].recs # <<>>
                               /\ LastOf(fs[m].recs).seq >= n - 1
    BY <2>1 DEF NamesOK
  <2>3. m \notin R
    <3> SUFFICES ASSUME m \in R PROVE FALSE
      BY Zenon
    <3>1. LastOf(fs[m].recs).seq <= d /\ LastOf(fs[m].recs).seq \in Nat
      BY <1>2, Zenon
    <3> QED
      BY <3>1, <2>1, <2>2
  <2> QED
    BY <2>2, <2>3, <1>1, Zenon
<1>5. Above(fs, x) => Above(gs, x)
  BY <1>1, Zenon DEF Above
<1>6. DurableIn(A, fs, c) => DurableIn(A, gs, d)
  <2> SUFFICES ASSUME DurableIn(A, fs, c), NEW r \in A, ~(r.seq <= d)
               PROVE  \E n \in DOMAIN gs : \E i \in 1..Len(gs[n].recs) :
                          gs[n].recs[i] = r /\ i < gs[n].synced
    BY Zenon DEF DurableIn
  <2>1. r.seq \in Nat
    BY Zenon DEF Record
  <2>2. PICK n \in DOMAIN fs : \E i \in 1..Len(fs[n].recs) :
            fs[n].recs[i] = r /\ i < fs[n].synced
    BY <2>1 DEF DurableIn
  <2>3. PICK i \in 1..Len(fs[n].recs) : fs[n].recs[i] = r /\ i < fs[n].synced
    BY <2>2, Zenon
  <2>4. n \notin R
    <3> SUFFICES ASSUME n \in R PROVE FALSE
      BY Zenon
    <3>3. r.seq <= LastOf(fs[n].recs).seq
      BY <2>3, LastFacts, Zenon
    <3>4. LastOf(fs[n].recs).seq <= d /\ LastOf(fs[n].recs).seq \in Nat
      BY <1>2, Zenon
    <3> QED
      BY <2>1, <3>3, <3>4
  <2> QED
    BY <2>3, <2>4, <1>1, Zenon
<1>7. UniqueIn(A, fs) => UniqueIn(A, gs)
  BY <1>1 DEF UniqueIn
<1> QED
  BY <1>3, <1>4, <1>5, <1>6, <1>7, Zenon DEF gs

\* A file that was never synced vanishes in a power loss.
LEMMA VanishRest ==
    ASSUME NEW fs, NEW n \in DOMAIN fs, NEW sl, NEW c, NEW A,
           FilesOK(fs), \A m \in DOMAIN fs : m <= n, fs[n].synced = 0
    PROVE  LET gs == Restrict(fs, DOMAIN fs \ {n}) IN
           /\ SealsOK(fs, sl, c) => SealsOK(gs, sl, c)
           /\ NamesOK(fs, c) => NamesOK(gs, c)
           /\ DurableIn(A, fs, c) => DurableIn(A, gs, c)
           /\ UniqueIn(A, fs) => UniqueIn(A, gs)
<1> DEFINE gs == Restrict(fs, DOMAIN fs \ {n})
<1>1. DOMAIN gs = DOMAIN fs \ {n} /\ \A m \in DOMAIN gs : gs[m] = fs[m] /\ m \in DOMAIN fs
  BY Zenon DEF Restrict
<1> HIDE DEF gs
<1>2. SealsOK(fs, sl, c) => n \notin DOMAIN sl
  <2>1. Len(fs[n].recs) \in Nat
    BY FileFacts, Zenon
  <2> QED
    BY <2>1 DEF SealsOK, FullySynced
<1>3. SealsOK(fs, sl, c) => SealsOK(gs, sl, c)
  BY <1>1, <1>2, Zenon DEF SealsOK
<1>4. NamesOK(fs, c) => NamesOK(gs, c)
  <2> SUFFICES ASSUME NamesOK(fs, c), NEW m \in DOMAIN gs, ~(m <= c + 1)
               PROVE  \E l \in DOMAIN gs : /\ l < m
                                          /\ gs[l].recs # <<>>
                                          /\ LastOf(gs[l].recs).seq >= m - 1
    BY Zenon DEF NamesOK
  <2>1. PICK l \in DOMAIN fs : /\ l < m
                               /\ fs[l].recs # <<>>
                               /\ LastOf(fs[l].recs).seq >= m - 1
    BY <1>1, Zenon DEF NamesOK
  <2>2. l # n
    BY <2>1, <1>1, FileFacts
  <2> QED
    BY <2>1, <2>2, <1>1, Zenon
<1>5. \A i \in 1..Len(fs[n].recs) : ~(i < fs[n].synced)
  BY FileFacts
<1>6. DurableIn(A, fs, c) => DurableIn(A, gs, c)
  BY <1>1, <1>5 DEF DurableIn
<1>7. UniqueIn(A, fs) => UniqueIn(A, gs)
  BY <1>1 DEF UniqueIn
<1> QED
  BY <1>3, <1>4, <1>6, <1>7, Zenon DEF gs

\* A power loss cuts the newest file down to a part that has what was synced.
Cut(fs, gs, n) ==
    /\ n \in DOMAIN fs
    /\ \A m \in DOMAIN fs : m <= n
    /\ \E u \in fs[n].synced..Written(fs[n]), torn \in BOOLEAN :
          gs = [fs EXCEPT ![n] = Survivor(fs[n], u, torn)]

\* What a directory looks like after a power loss has cut its tail.
LEMMA CutFacts ==
    ASSUME NEW fs, NEW gs, NEW n, FilesOK(fs), Cut(fs, gs, n)
    PROVE  /\ DOMAIN gs = DOMAIN fs
           /\ \A m \in DOMAIN fs : m # n => gs[m] = fs[m]
           /\ gs \in [DOMAIN fs -> File]
           /\ Len(gs[n].recs) \in Nat
           /\ Len(gs[n].recs) <= Len(fs[n].recs)
           /\ \A i \in 1..Len(gs[n].recs) : gs[n].recs[i] = fs[n].recs[i]
           /\ \A i \in 1..Len(fs[n].recs) : i < fs[n].synced =>
                 i \in 1..Len(gs[n].recs) /\ i < gs[n].synced
           /\ fs[n].synced = Len(fs[n].recs) + 1 =>
                 /\ gs[n].recs = fs[n].recs
                 /\ gs[n].hdr
                 /\ gs[n].synced = fs[n].synced
<1> DEFINE f == fs[n]
<1>1. PICK u \in f.synced..Written(f), torn \in BOOLEAN : gs = [fs EXCEPT ![n] = Survivor(f, u, torn)]
  BY Zenon DEF Cut
<1>2. n \in DOMAIN fs /\ f.recs \in Seq(Record) /\ Len(f.recs) \in Nat /\ f.synced \in Nat
  BY FileFacts, Zenon DEF Cut
<1> DEFINE k == Len(f.recs)
<1>3. u \in Nat /\ u <= k + 1 /\ f.synced <= u
  BY <1>2 DEF Written
<1> DEFINE w == IF u = 0 THEN 0 ELSE u - 1
<1>4. SubSeq(f.recs, 1, u - 1) = [i \in 1..w |-> f.recs[i]]
  BY <1>2, <1>3
<1>5. [i \in 1..w |-> f.recs[i]] \in Seq(Record) /\ Len([i \in 1..w |-> f.recs[i]]) = w
  BY <1>2, <1>3
<1> DEFINE g == Survivor(f, u, torn)
<1>6. g.recs = [i \in 1..w |-> f.recs[i]] /\ g.hdr = (u > 0) /\ g.torn = torn /\ g.synced = u
  BY <1>4, Zenon DEF Survivor
<1>7. g \in File
  BY <1>3, <1>4, <1>5 DEF Survivor, File
<1>8. gs[n] = g /\ DOMAIN gs = DOMAIN fs /\ \A m \in DOMAIN fs : m # n => gs[m] = fs[m]
  BY <1>1, <1>2, Zenon DEF FilesOK
<1>9. gs \in [DOMAIN fs -> File]
  BY Zenon, <1>1, <1>7, <1>8 DEF FilesOK
<1> HIDE DEF g
<1>10. /\ Len(g.recs) = w /\ w \in Nat /\ w <= k
       /\ \A i \in 1..w : g.recs[i] = f.recs[i]
  BY <1>3, <1>5, <1>6, <1>2
<1>11. \A i \in 1..k : i < f.synced => i \in 1..w /\ i < g.synced
  BY <1>2, <1>3, <1>6
<1>12. f.synced = k + 1 => g.recs = f.recs /\ g.hdr /\ g.synced = f.synced
  <2> SUFFICES ASSUME f.synced = k + 1 PROVE g.recs = f.recs /\ g.hdr /\ g.synced = f.synced
    BY Zenon
  <2>1. u = k + 1 /\ w = k /\ u > 0
    BY <1>2, <1>3
  <2>2. [i \in 1..k |-> f.recs[i]] = f.recs
    BY <1>2
  <2> QED
    BY Zenon, <2>1, <2>2, <1>6
<1> QED
  BY <1>8, <1>9, <1>10, <1>11, <1>12, Zenon

\* Only the unsynced end of the tail is cut: the segments stay well formed.
LEMMA CutFiles ==
    ASSUME NEW fs, NEW gs, NEW n, FilesOK(fs), Cut(fs, gs, n)
    PROVE  FilesOK(gs)
<1>a. /\ DOMAIN gs = DOMAIN fs
      /\ \A m \in DOMAIN fs : m # n => gs[m] = fs[m]
      /\ gs \in [DOMAIN gs -> File]
      /\ fs[n].synced = Len(fs[n].recs) + 1 =>
            gs[n].recs = fs[n].recs /\ gs[n].synced = fs[n].synced
  BY CutFacts
<1>b. \A m \in DOMAIN fs : \A i \in 1..Len(gs[m].recs) :
          i \in 1..Len(fs[m].recs) /\ gs[m].recs[i] = fs[m].recs[i]
  <2> SUFFICES ASSUME NEW m \in DOMAIN fs, NEW i \in 1..Len(gs[m].recs)
               PROVE  i \in 1..Len(fs[m].recs) /\ gs[m].recs[i] = fs[m].recs[i]
    BY Zenon
  <2>1. CASE m = n
    <3>1. /\ Len(gs[n].recs) \in Nat
          /\ Len(gs[n].recs) <= Len(fs[n].recs)
          /\ \A j \in 1..Len(gs[n].recs) : gs[n].recs[j] = fs[n].recs[j]
      BY CutFacts
    <3>2. Len(fs[n].recs) \in Nat
      BY <2>1, FileFacts, Zenon
    <3> QED
      BY <2>1, <3>1, <3>2
  <2>2. CASE m # n
    BY <2>2, <1>a, Zenon
  <2> QED
    BY <2>1, <2>2, Zenon
<1>c. \A m \in DOMAIN fs : m <= n /\ m \in Nat
  BY FileFacts, Zenon DEF Cut
<1>d. n \in Nat
  BY <1>c, Zenon DEF Cut
<1>1. \A m \in DOMAIN gs : \A i \in 1..Len(gs[m].recs) : gs[m].recs[i].seq >= m
  BY <1>a, <1>b, Zenon DEF FilesOK
<1>2. \A m \in DOMAIN gs : \A i, j \in 1..Len(gs[m].recs) :
          i < j => gs[m].recs[i].seq < gs[m].recs[j].seq
  BY SMTT(30), <1>a, <1>b DEF FilesOK
<1>3. \A l, m \in DOMAIN gs : l < m =>
          \A i \in 1..Len(gs[l].recs), j \in 1..Len(gs[m].recs) :
              gs[l].recs[i].seq < gs[m].recs[j].seq
  <2> SUFFICES ASSUME NEW l \in DOMAIN gs, NEW m \in DOMAIN gs, l < m,
                      NEW i \in 1..Len(gs[l].recs), NEW j \in 1..Len(gs[m].recs)
               PROVE  gs[l].recs[i].seq < gs[m].recs[j].seq
    BY Zenon
  <2>1. /\ l \in DOMAIN fs /\ i \in 1..Len(fs[l].recs) /\ gs[l].recs[i] = fs[l].recs[i]
        /\ m \in DOMAIN fs /\ j \in 1..Len(fs[m].recs) /\ gs[m].recs[j] = fs[m].recs[j]
    BY Zenon, <1>a, <1>b
  <2> QED
    BY Zenon, <2>1 DEF FilesOK
<1>4. \A l, m \in DOMAIN gs : l < m => FullySynced(gs[l])
  BY <1>a, <1>c, <1>d DEF FilesOK
<1>5. \A m \in DOMAIN gs : \A i \in 1..Len(gs[m].recs) :
          gs[m].recs[i].version = LegacyVersion => gs[m].synced = Len(gs[m].recs) + 1
  <2> SUFFICES ASSUME NEW m \in DOMAIN gs, NEW i \in 1..Len(gs[m].recs),
                      gs[m].recs[i].version = LegacyVersion
               PROVE  gs[m].synced = Len(gs[m].recs) + 1
    BY Zenon
  <2>1. fs[m].synced = Len(fs[m].recs) + 1
    BY <1>a, <1>b, Zenon DEF FilesOK
  <2> QED
    BY <2>1, <1>a, Zenon
<1> QED
  BY Zenon, <1>a, <1>1, <1>2, <1>3, <1>4, <1>5 DEF FilesOK

\* The accepted records are synced, so the cut takes none of them.
LEMMA CutRest ==
    ASSUME NEW fs, NEW gs, NEW n, NEW sl, NEW c, NEW A, FilesOK(fs), Cut(fs, gs, n)
    PROVE  /\ SealsOK(fs, sl, c) => SealsOK(gs, sl, c)
           /\ NamesOK(fs, c) => NamesOK(gs, c)
           /\ DurableIn(A, fs, c) => DurableIn(A, gs, c)
           /\ UniqueIn(A, fs) => UniqueIn(A, gs)
<1>a. /\ DOMAIN gs = DOMAIN fs
      /\ \A m \in DOMAIN fs : m # n => gs[m] = fs[m]
      /\ Len(gs[n].recs) \in Nat /\ Len(gs[n].recs) <= Len(fs[n].recs)
      /\ \A i \in 1..Len(gs[n].recs) : gs[n].recs[i] = fs[n].recs[i]
      /\ \A i \in 1..Len(fs[n].recs) : i < fs[n].synced =>
            i \in 1..Len(gs[n].recs) /\ i < gs[n].synced
      /\ fs[n].synced = Len(fs[n].recs) + 1 =>
            /\ gs[n].recs = fs[n].recs
            /\ gs[n].hdr
            /\ gs[n].synced = fs[n].synced
  BY CutFacts
<1>b. /\ n \in DOMAIN fs /\ Len(fs[n].recs) \in Nat
      /\ \A m \in DOMAIN fs : m <= n /\ m \in Nat
  BY FileFacts, Zenon DEF Cut
<1>1. SealsOK(fs, sl, c) => SealsOK(gs, sl, c)
  BY <1>a DEF SealsOK, FullySynced
<1>2. NamesOK(fs, c) => NamesOK(gs, c)
  <2> SUFFICES ASSUME NamesOK(fs, c), NEW m \in DOMAIN gs, ~(m <= c + 1)
               PROVE  \E l \in DOMAIN gs : /\ l < m
                                          /\ gs[l].recs # <<>>
                                          /\ LastOf(gs[l].recs).seq >= m - 1
    BY Zenon DEF NamesOK
  <2>1. PICK l \in DOMAIN fs : /\ l < m
                               /\ fs[l].recs # <<>>
                               /\ LastOf(fs[l].recs).seq >= m - 1
    BY Zenon, <1>a DEF NamesOK
  <2>2. l # n
    BY <2>1, <1>a, <1>b
  <2> QED
    BY Zenon, <2>1, <2>2, <1>a
<1>3. \A m \in DOMAIN fs : \A i \in 1..Len(fs[m].recs) : i < fs[m].synced =>
          i \in 1..Len(gs[m].recs) /\ i < gs[m].synced /\ gs[m].recs[i] = fs[m].recs[i]
  BY Zenon, <1>a
<1>4. DurableIn(A, fs, c) => DurableIn(A, gs, c)
  BY SMTT(30), <1>a, <1>3 DEF DurableIn
<1>5. \A m \in DOMAIN gs : \A i \in 1..Len(gs[m].recs) :
          i \in 1..Len(fs[m].recs) /\ gs[m].recs[i] = fs[m].recs[i]
  BY <1>a, <1>b
<1>6. UniqueIn(A, fs) => UniqueIn(A, gs)
  BY <1>a, <1>5 DEF UniqueIn
<1> QED
  BY <1>1, <1>2, <1>4, <1>6, Zenon

\* recover, rotate and Close seal complete, durable segments.
LEMMA AddSeals ==
    ASSUME NEW fs, NEW sl, NEW tl, NEW S, NEW c, FilesOK(fs), SealsOK(fs, sl, c),
           S \subseteq DOMAIN fs,
           DOMAIN tl = DOMAIN sl \cup S,
           tl \in [DOMAIN tl -> Seal],
           \A n \in DOMAIN sl : tl[n] = sl[n],
           \A n \in S \ DOMAIN sl : /\ fs[n].recs # <<>>
                                   /\ FullySynced(fs[n])
                                   /\ tl[n].root # <<>>
                                   /\ tl[n].last = LastOf(fs[n].recs).seq
    PROVE  SealsOK(fs, tl, c)
<1>1. DOMAIN tl \subseteq Nat \ {0}
  BY Zenon DEF SealsOK, FilesOK
<1>2. DOMAIN tl # {} => HasMax(DOMAIN tl)
  <2>1. S # {} => HasMax(S)
    BY Zenon, HasMaxSubset DEF FilesOK
  <2>2. CASE S = {}
    BY <2>2, Zenon DEF SealsOK
  <2>3. CASE S # {} /\ DOMAIN sl = {}
    <3>1. DOMAIN tl = S
      BY <2>3, Zenon
    <3> QED
      BY <2>1, <2>3, <3>1, Zenon
  <2>4. CASE S # {} /\ DOMAIN sl # {}
    <3>1. PICK x \in S : \A y \in S : y <= x
      BY <2>1, <2>4, Zenon DEF HasMax
    <3>2. PICK z \in DOMAIN sl : \A y \in DOMAIN sl : y <= z
      BY <2>4, Zenon DEF HasMax, SealsOK
    <3>3. x \in Nat /\ z \in Nat /\ \A y \in DOMAIN tl : y \in Nat
      BY <1>1, Zenon
    <3>4. CASE x <= z
      <4>1. \A y \in DOMAIN tl : y <= z
        BY <3>1, <3>2, <3>3, <3>4
      <4> QED
        BY <4>1, Zenon DEF HasMax
    <3>5. CASE z <= x
      <4>1. \A y \in DOMAIN tl : y <= x
        BY <3>1, <3>2, <3>3, <3>5
      <4> QED
        BY <4>1, Zenon DEF HasMax
    <3> QED
      BY <3>3, <3>4, <3>5
  <2> QED
    BY Zenon, <2>2, <2>3, <2>4
<1>3. \A n \in S \ DOMAIN sl : LastOf(fs[n].recs).seq >= n
  <2> SUFFICES ASSUME NEW n \in S \ DOMAIN sl PROVE LastOf(fs[n].recs).seq >= n
    BY Zenon
  <2>1. /\ LastOf(fs[n].recs) = fs[n].recs[Len(fs[n].recs)]
        /\ Len(fs[n].recs) \in 1..Len(fs[n].recs)
    BY LastFacts, Zenon
  <2> QED
    BY Zenon, <2>1 DEF FilesOK
<1>4. \A n \in DOMAIN tl : tl[n].root # <<>> /\ tl[n].last >= n
  BY <1>3, Zenon DEF SealsOK
<1> QED
  BY Zenon, <1>1, <1>2, <1>4 DEF SealsOK

-----------------------------------------------------------------------------
(* The same for the whole directory invariant, with the source sequences.  *)

\* More attempts only raise the bound on source sequences.
LEMMA MoreAttempts ==
    ASSUME NEW fs, NEW sl, NEW c, NEW A, NEW b \in Nat, NEW d \in Nat, b <= d,
           DirInv(fs, sl, c, A, b)
    PROVE  DirInv(fs, sl, c, A, d)
<1>1. \A n \in DOMAIN fs : \A i \in 1..Len(fs[n].recs) : fs[n].recs[i].srcSeq \in Nat
  BY Zenon, FileFacts DEF DirInv, Record
<1>2. SrcBound(fs, d)
  BY <1>1 DEF DirInv, SrcBound
<1> QED
  BY <1>2, Zenon DEF DirInv

\* The directory invariant survives syncs, seals and repairs of a tail.
LEMMA TouchDir ==
    ASSUME NEW fs, NEW gs, NEW sl, NEW c, NEW A, NEW b,
           DirInv(fs, sl, c, A, b), Touched(fs, gs)
    PROVE  DirInv(gs, sl, c, A, b)
<1>1. FilesOK(gs) /\ SealsOK(gs, sl, c) /\ NamesOK(gs, c) /\ DurableIn(A, gs, c) /\ UniqueIn(A, gs)
  BY TouchFiles, TouchRest, Zenon DEF DirInv
<1>2. SrcBound(gs, b)
  BY Zenon DEF DirInv, SrcBound, Touched
<1> QED
  BY <1>1, <1>2, Zenon DEF DirInv

\* The directory invariant survives createSegment.
LEMMA NewSegmentDir ==
    ASSUME NEW fs, NEW n \in Nat \ {0}, NEW f \in File, NEW sl, NEW c \in Nat, NEW A, NEW b,
           DirInv(fs, sl, c, A, b), f.recs = <<>>, n \notin DOMAIN fs, n > c,
           \A m \in DOMAIN fs : m < n /\ FullySynced(fs[m]),
           \/ n = c + 1
           \/ \E m \in DOMAIN fs : /\ m < n
                                  /\ fs[m].recs # <<>>
                                  /\ LastOf(fs[m].recs).seq >= n - 1
    PROVE  DirInv(With(fs, n, f), sl, c, A, b) /\ n \notin DOMAIN sl
<1>1. FilesOK(With(fs, n, f))
  BY Zenon, NewSegmentFiles DEF DirInv
<1>2. /\ SealsOK(With(fs, n, f), sl, c) /\ n \notin DOMAIN sl
      /\ NamesOK(With(fs, n, f), c)
      /\ DurableIn(A, With(fs, n, f), c)
      /\ UniqueIn(A, With(fs, n, f))
  BY Zenon, NewSegmentRest DEF DirInv
<1>3. SrcBound(With(fs, n, f), b)
  <2>1. /\ DOMAIN With(fs, n, f) = DOMAIN fs \cup {n}
        /\ With(fs, n, f)[n] = f
        /\ \A m \in DOMAIN fs : With(fs, n, f)[m] = fs[m]
    BY Zenon DEF With
  <2>2. Len(With(fs, n, f)[n].recs) = 0
    BY <2>1
  <2>3. SrcBound(fs, b)
    BY Zenon DEF DirInv
  <2> SUFFICES ASSUME NEW m \in DOMAIN With(fs, n, f), NEW i \in 1..Len(With(fs, n, f)[m].recs)
               PROVE  With(fs, n, f)[m].recs[i].srcSeq <= b
    BY Zenon DEF SrcBound
  <2>4. m # n
    BY <2>2
  <2>5. m \in DOMAIN fs /\ With(fs, n, f)[m] = fs[m]
    BY Zenon, <2>1, <2>4
  <2> QED
    BY Zenon, <2>3, <2>5 DEF SrcBound
<1> QED
  BY Zenon, <1>1, <1>2, <1>3 DEF DirInv

\* The directory invariant survives the append of a frame.
LEMMA AppendDir ==
    ASSUME NEW fs, NEW gs, NEW n, NEW r, NEW sl, NEW c, NEW A, NEW b,
           DirInv(fs, sl, c, A, b), Appended(fs, gs, n, r), n \notin DOMAIN sl,
           \A q \in A : q.seq < r.seq, r.srcSeq <= b
    PROVE  DirInv(gs, sl, c, A, b)
<1>1. FilesOK(gs) /\ SealsOK(gs, sl, c) /\ NamesOK(gs, c) /\ DurableIn(A, gs, c) /\ UniqueIn(A, gs)
  BY Zenon, AppendFiles, AppendRest DEF DirInv
<1>2. SrcBound(gs, b)
  <2> FilesOK(fs)
    BY Zenon DEF DirInv
  <2>1. /\ DOMAIN gs = DOMAIN fs
        /\ \A m \in DOMAIN fs : m # n => gs[m] = fs[m]
        /\ Len(gs[n].recs) = Len(fs[n].recs) + 1
        /\ \A i \in 1..Len(fs[n].recs) : gs[n].recs[i] = fs[n].recs[i]
        /\ gs[n].recs[Len(fs[n].recs) + 1] = r
    BY AppendFacts
  <2>2. n \in DOMAIN fs /\ Len(fs[n].recs) \in Nat
    BY FileFacts, Zenon DEF Appended
  <2> SUFFICES ASSUME NEW m \in DOMAIN gs, NEW i \in 1..Len(gs[m].recs)
               PROVE  gs[m].recs[i].srcSeq <= b
    BY Zenon DEF SrcBound
  <2>3. CASE m # n
    BY Zenon, <2>1, <2>3 DEF DirInv, SrcBound
  <2>4. CASE m = n /\ i \in 1..Len(fs[n].recs)
    BY Zenon, <2>1, <2>2, <2>4 DEF DirInv, SrcBound
  <2>5. CASE m = n /\ i = Len(fs[n].recs) + 1
    BY Zenon, <2>1, <2>5
  <2> QED
    BY <2>1, <2>2, <2>3, <2>4, <2>5
<1> QED
  BY <1>1, <1>2, Zenon DEF DirInv

\* The directory invariant survives compact.
LEMMA CompactDir ==
    ASSUME NEW fs, NEW R, NEW sl, NEW c \in Nat, NEW d \in Nat, NEW A, NEW b,
           DirInv(fs, sl, c, A, b), c <= d, A \subseteq Record,
           \A n \in R : n \in DOMAIN fs /\ fs[n].recs # <<>> /\ LastOf(fs[n].recs).seq <= d
    PROVE  DirInv(Restrict(fs, DOMAIN fs \ R), sl, d, A, b)
<1> DEFINE gs == Restrict(fs, DOMAIN fs \ R)
<1>1. FilesOK(gs)
  BY Zenon, RemoveFiles DEF DirInv
<1>2. SealsOK(gs, sl, d) /\ NamesOK(gs, d) /\ DurableIn(A, gs, d) /\ UniqueIn(A, gs)
  BY Zenon, CompactRest DEF DirInv
<1>3. SrcBound(gs, b)
  BY Zenon DEF DirInv, SrcBound, Restrict
<1> QED
  BY Zenon, <1>1, <1>2, <1>3 DEF DirInv

\* The directory invariant survives the loss of a segment never synced.
LEMMA VanishDir ==
    ASSUME NEW fs, NEW n \in DOMAIN fs, NEW sl, NEW c, NEW A, NEW b,
           DirInv(fs, sl, c, A, b), \A m \in DOMAIN fs : m <= n, fs[n].synced = 0
    PROVE  DirInv(Restrict(fs, DOMAIN fs \ {n}), sl, c, A, b)
<1> DEFINE gs == Restrict(fs, DOMAIN fs \ {n})
<1>1. FilesOK(gs)
  BY Zenon, RemoveFiles DEF DirInv
<1>2. SealsOK(gs, sl, c) /\ NamesOK(gs, c) /\ DurableIn(A, gs, c) /\ UniqueIn(A, gs)
  BY Zenon, VanishRest DEF DirInv
<1>3. SrcBound(gs, b)
  BY Zenon DEF DirInv, SrcBound, Restrict
<1> QED
  BY Zenon, <1>1, <1>2, <1>3 DEF DirInv

\* The directory invariant survives the cut of the unsynced tail.
LEMMA CutDir ==
    ASSUME NEW fs, NEW gs, NEW n, NEW sl, NEW c, NEW A, NEW b,
           DirInv(fs, sl, c, A, b), Cut(fs, gs, n)
    PROVE  DirInv(gs, sl, c, A, b)
<1>1. FilesOK(gs) /\ SealsOK(gs, sl, c) /\ NamesOK(gs, c) /\ DurableIn(A, gs, c) /\ UniqueIn(A, gs)
  BY CutFiles, CutRest, Zenon DEF DirInv
<1>2. SrcBound(gs, b)
  <2> FilesOK(fs)
    BY Zenon DEF DirInv
  <2>1. /\ DOMAIN gs = DOMAIN fs
        /\ \A m \in DOMAIN fs : m # n => gs[m] = fs[m]
        /\ Len(gs[n].recs) \in Nat /\ Len(gs[n].recs) <= Len(fs[n].recs)
        /\ \A i \in 1..Len(gs[n].recs) : gs[n].recs[i] = fs[n].recs[i]
    BY CutFacts
  <2>2. n \in DOMAIN fs /\ Len(fs[n].recs) \in Nat
    BY FileFacts, Zenon DEF Cut
  <2>3. SrcBound(fs, b)
    BY Zenon DEF DirInv
  <2> SUFFICES ASSUME NEW m \in DOMAIN gs, NEW i \in 1..Len(gs[m].recs)
               PROVE  gs[m].recs[i].srcSeq <= b
    BY Zenon DEF SrcBound
  <2>4. CASE m # n
    <3>1. m \in DOMAIN fs /\ gs[m] = fs[m]
      BY Zenon, <2>1, <2>4
    <3> QED
      BY Zenon, <2>3, <3>1 DEF SrcBound
  <2>5. CASE m = n
    <3>1. i \in 1..Len(fs[n].recs)
      BY <2>1, <2>2, <2>5
    <3>2. gs[n].recs[i] = fs[n].recs[i]
      BY Zenon, <2>1, <2>5
    <3> QED
      BY Zenon, <2>2, <2>3, <2>5, <3>1, <3>2 DEF SrcBound
  <2> QED
    BY Zenon, <2>4, <2>5
<1> QED
  BY <1>1, <1>2, Zenon DEF DirInv

-----------------------------------------------------------------------------
(* What recover computes from a directory that satisfies the invariant.    *)

\* A directory and a checkpoint as the store leaves them.
DirOK ==
    /\ FilesOK(files)
    /\ SealsOK(files, seals, checkpoint.committed)
    /\ NamesOK(files, checkpoint.committed)
    /\ checkpoint.committed \in Nat

\* The newest segment is the largest name.
LEMMA NewestFacts ==
    ASSUME DirOK, Names # {}
    PROVE  Newest \in Names /\ Newest \in Nat /\ \A n \in Names : n <= Newest /\ n \in Nat
<1>1. Names \subseteq Nat /\ HasMax(Names)
  BY Zenon DEF DirOK, FilesOK, Names
<1> QED
  BY Zenon, <1>1, MaxOfBounded DEF Newest

\* An anchor of the scan belongs to a segment that was compacted, so all its
\* records are committed.
LEMMA AnchorFacts ==
    ASSUME DirOK, Anchors # {}
    PROVE  /\ Max(Anchors) \in DOMAIN seals
           /\ seals[Max(Anchors)] \in Seal
           /\ seals[Max(Anchors)].last \in Nat
           /\ seals[Max(Anchors)].last <= checkpoint.committed
           /\ seals[Max(Anchors)].root \in Seq(Nat \ {0})
           /\ LastOf(seals[Max(Anchors)].root) \in Nat
<1> DEFINE a == Max(Anchors)
<1>1. DOMAIN seals \subseteq Nat /\ Anchors \subseteq DOMAIN seals
  BY Zenon DEF DirOK, SealsOK, Anchors
<1>2. HasMax(DOMAIN seals)
  BY <1>1, Zenon DEF DirOK, SealsOK
<1>3. a \in Anchors /\ a \in DOMAIN seals /\ a \in Nat
  BY <1>1, <1>2, MaxOfBounded, Zenon
<1> HIDE DEF a
<1>4. seals[a] \in Seal /\ seals[a].last >= a /\ seals[a].root # <<>>
  BY <1>3, Zenon DEF DirOK, SealsOK
<1>5. seals[a].last \in Nat /\ seals[a].root \in Seq(Nat \ {0})
  BY <1>4, Zenon DEF Seal
<1>6. a \notin Names
  BY <1>3, <1>4, <1>5 DEF Anchors
<1>7. seals[a].last <= checkpoint.committed
  BY <1>3, <1>6, Zenon DEF DirOK, SealsOK, Names
<1>8. LastOf(seals[a].root) \in Nat \ {0}
  BY <1>4, <1>5, LastIsMember, Zenon
<1> QED
  BY Zenon, <1>3, <1>4, <1>5, <1>7, <1>8 DEF a

\* The segment before name n in the scan.
LEMMA ScannedFacts ==
    ASSUME DirOK, NEW n, Scanned(n) # {}
    PROVE  LET m == Max(Scanned(n)) IN
           /\ m \in Names /\ m < n /\ files[m].recs # <<>>
           /\ \A l \in Scanned(n) : l <= m
           /\ LastOf(files[m].recs) \in Record
<1> DEFINE m == Max(Scanned(n))
<1>1. Names \subseteq Nat /\ Scanned(n) \subseteq Names
  BY Zenon DEF DirOK, FilesOK, Names, Scanned
<1>2. HasMax(Names)
  BY <1>1, Zenon DEF DirOK, FilesOK, Names
<1>3. m \in Scanned(n) /\ \A l \in Scanned(n) : l <= m
  BY Zenon, <1>1, <1>2, MaxOfBounded
<1> HIDE DEF m
<1>4. m \in Names /\ m < n /\ files[m].recs # <<>>
  BY <1>3, Zenon DEF Scanned
<1>5. LastOf(files[m].recs) \in Record
  BY Zenon, <1>4, LastFacts DEF DirOK, Names
<1> QED
  BY <1>3, <1>4, <1>5, Zenon DEF m

\* What recover carries from one segment to the next has its type.
LEMMA PreviousTypes ==
    ASSUME DirOK, NEW n
    PROVE  /\ PreviousSequence(n) \in Nat
           /\ PreviousHash(n) \in Nat
           /\ PreviousRoot(n) \in Seq(Nat \ {0})
<1>1. PreviousSequence(n) \in Nat
  <2>1. CASE Scanned(n) # {}
    BY Zenon, <2>1, ScannedFacts DEF PreviousSequence, Record
  <2>2. CASE Scanned(n) = {}
    BY Zenon, <2>2, AnchorFacts DEF PreviousSequence
  <2> QED
    BY <2>1, <2>2, Zenon
<1>2. PreviousHash(n) \in Nat
  <2>1. CASE Scanned(n) # {}
    BY Zenon, <2>1, ScannedFacts DEF PreviousHash, Record
  <2>2. CASE Scanned(n) = {}
    BY <2>2, AnchorFacts, Zenon DEF PreviousHash, NoHash
  <2> QED
    BY <2>1, <2>2, Zenon
<1>3. PreviousRoot(n) \in Seq(Nat \ {0})
  <2> DEFINE sealed == {m \in Names : m < n /\ m \in DOMAIN seals}
  <2>1. CASE sealed # {}
    <3>1. DOMAIN seals \subseteq Nat /\ sealed \subseteq DOMAIN seals
      BY Zenon DEF DirOK, SealsOK
    <3>2. HasMax(DOMAIN seals)
      BY <2>1, <3>1, Zenon DEF DirOK, SealsOK
    <3>3. Max(sealed) \in DOMAIN seals
      BY <2>1, <3>1, <3>2, MaxOfBounded, Zenon
    <3>4. seals[Max(sealed)].root \in Seq(Nat \ {0})
      BY <3>3, Zenon DEF DirOK, SealsOK, Seal
    <3> QED
      BY <2>1, <3>4, Zenon DEF PreviousRoot
  <2>2. CASE sealed = {}
    <3>1. NoRoot \in Seq(Nat \ {0})
      BY DEF NoRoot
    <3> QED
      BY Zenon, <2>2, <3>1, AnchorFacts DEF PreviousRoot
  <2> QED
    BY <2>1, <2>2, Zenon
<1> QED
  BY <1>1, <1>2, <1>3, Zenon

\* The sequence recover continues with is past the checkpoint, past every
\* retained record and not below any segment name; a new segment of that name
\* follows a committed or retained record.
LEMMA RecoveredNextFacts ==
    ASSUME DirOK
    PROVE  /\ RecoveredNext \in Nat \ {0}
           /\ RecoveredNext > checkpoint.committed
           /\ Above(files, RecoveredNext)
           /\ \/ RecoveredNext = checkpoint.committed + 1
              \/ \E m \in Names : /\ m < RecoveredNext
                                 /\ files[m].recs # <<>>
                                 /\ LastOf(files[m].recs).seq >= RecoveredNext - 1
           /\ ~CheckpointAhead /\ Names # {} /\ files[Newest].recs # <<>> =>
                 LastOf(files[Newest].recs).seq = RecoveredNext - 1
<1> DEFINE q == RecoveredSequence
           c == checkpoint.committed
           x == RecoveredNext
<1>1. q \in Nat /\ c \in Nat
  BY PreviousTypes, Zenon DEF RecoveredSequence, DirOK
<1>2. x \in Nat \ {0} /\ x > c /\ x >= q + 1 /\ (x = c + 1 \/ x = q + 1)
  BY <1>1 DEF RecoveredNext
<1>3. \A n \in Names : n < ScanEnd
  BY NewestFacts DEF ScanEnd
<1>4. \A n \in Names : files[n].recs # <<>> =>
         LastOf(files[n].recs).seq <= q /\ LastOf(files[n].recs).seq \in Nat
  <2> SUFFICES ASSUME NEW n \in Names, files[n].recs # <<>>
               PROVE  LastOf(files[n].recs).seq <= q /\ LastOf(files[n].recs).seq \in Nat
    BY Zenon
  <2> DEFINE m == Max(Scanned(ScanEnd))
  <2>1. n \in Scanned(ScanEnd)
    BY <1>3, Zenon DEF Scanned
  <2>2. m \in Names /\ files[m].recs # <<>> /\ n <= m
    BY <2>1, ScannedFacts, Zenon
  <2>3. q = LastOf(files[m].recs).seq
    BY <2>1, Zenon DEF RecoveredSequence, PreviousSequence
  <2> HIDE DEF m
  <2>4. /\ LastOf(files[n].recs) = files[n].recs[Len(files[n].recs)]
        /\ Len(files[n].recs) \in 1..Len(files[n].recs)
        /\ LastOf(files[n].recs).seq \in Nat
    BY Zenon, LastFacts DEF DirOK, Names
  <2>5. /\ LastOf(files[m].recs) = files[m].recs[Len(files[m].recs)]
        /\ Len(files[m].recs) \in 1..Len(files[m].recs)
        /\ LastOf(files[m].recs).seq \in Nat
    BY Zenon, <2>2, LastFacts DEF DirOK, Names
  <2>6. CASE n = m
    BY <2>3, <2>4, <2>6
  <2>7. CASE n < m
    <3>1. files[n].recs[Len(files[n].recs)].seq < files[m].recs[Len(files[m].recs)].seq
      BY Zenon, <2>2, <2>4, <2>5, <2>7 DEF DirOK, FilesOK, Names
    <3>2. LastOf(files[n].recs).seq < LastOf(files[m].recs).seq
      BY Zenon, <3>1, <2>4, <2>5
    <3> QED
      BY SMTT(30), <3>2, <2>3, <2>4, <2>5
  <2>8. n \in Nat /\ m \in Nat
    BY <2>2, NewestFacts, Zenon
  <2> QED
    BY <2>2, <2>6, <2>7, <2>8
<1>5. \A n \in Names : n <= x
  <2> SUFFICES ASSUME NEW n \in Names PROVE n <= x
    BY Zenon
  <2>1. n \in Nat
    BY NewestFacts, Zenon
  <2>2. CASE n <= c + 1
    BY <2>1, <2>2, <1>1, <1>2
  <2>3. CASE \E m \in Names : m < n /\ files[m].recs # <<>> /\ LastOf(files[m].recs).seq >= n - 1
    <3>1. PICK m \in Names : files[m].recs # <<>> /\ LastOf(files[m].recs).seq >= n - 1
      BY <2>3, Zenon
    <3>2. LastOf(files[m].recs).seq <= q /\ LastOf(files[m].recs).seq \in Nat
      BY Zenon, <3>1, <1>4
    <3> HIDE DEF q, x
    <3> QED
      BY <2>1, <3>1, <3>2, <1>1, <1>2
  <2> QED
    BY <2>2, <2>3, Zenon DEF DirOK, NamesOK, Names
<1>6. ASSUME NEW n \in Names, NEW i \in 1..Len(files[n].recs) PROVE files[n].recs[i].seq < x
  <2>1. files[n].recs # <<>>
    OBVIOUS
  <2>2. /\ files[n].recs[i].seq <= LastOf(files[n].recs).seq
        /\ LastOf(files[n].recs).seq \in Nat
    BY Zenon, <2>1, LastFacts DEF DirOK, Names
  <2>3. files[n].recs[i].seq \in Nat
    BY Zenon, FileFacts DEF DirOK, Names
  <2> QED
    BY SMTT(30), <2>1, <2>2, <2>3, <1>1, <1>2, <1>4
<1>7. Above(files, x)
  BY <1>5, <1>6, Zenon DEF Above, Names
<1>8. \/ x = c + 1
      \/ \E m \in Names : /\ m < x
                         /\ files[m].recs # <<>>
                         /\ LastOf(files[m].recs).seq >= x - 1
  <2> SUFFICES ASSUME x # c + 1
               PROVE  \E m \in Names : /\ m < x
                                      /\ files[m].recs # <<>>
                                      /\ LastOf(files[m].recs).seq >= x - 1
    BY Zenon
  <2>1. x = q + 1 /\ q > c
    BY <1>1, <1>2
  <2>2. Scanned(ScanEnd) # {}
    <3> SUFFICES ASSUME Scanned(ScanEnd) = {} PROVE FALSE
      BY Zenon
    <3>1. CASE Anchors # {}
      BY <3>1, <2>1, <1>1, AnchorFacts DEF RecoveredSequence, PreviousSequence
    <3>2. CASE Anchors = {}
      BY <3>2, <2>1, <1>1 DEF RecoveredSequence, PreviousSequence
    <3> QED
      BY <3>1, <3>2, Zenon
  <2> DEFINE m == Max(Scanned(ScanEnd))
  <2>3. m \in Names /\ files[m].recs # <<>>
    BY <2>2, ScannedFacts, Zenon
  <2>4. q = LastOf(files[m].recs).seq
    BY Zenon, <2>2 DEF RecoveredSequence, PreviousSequence
  <2> HIDE DEF m
  <2>5. q >= m /\ m \in Nat
    <3>1. /\ LastOf(files[m].recs) = files[m].recs[Len(files[m].recs)]
          /\ Len(files[m].recs) \in 1..Len(files[m].recs)
      BY Zenon, <2>3, LastFacts DEF DirOK, Names
    <3> QED
      BY Zenon, <3>1, <2>3, <2>4 DEF DirOK, FilesOK, Names
  <2> QED
    BY <2>1, <2>3, <2>4, <2>5, <1>1
<1>9. ASSUME ~CheckpointAhead, Names # {}, files[Newest].recs # <<>>
      PROVE  LastOf(files[Newest].recs).seq = x - 1
  <2>1. Newest \in Names /\ \A n \in Names : n <= Newest /\ n \in Nat
    BY <1>9, NewestFacts, Zenon
  <2>2. Newest \in Scanned(ScanEnd)
    BY <1>3, <1>9, <2>1, Zenon DEF Scanned
  <2>3. Max(Scanned(ScanEnd)) = Newest
    BY <2>1, <2>2, ScannedFacts
  <2>4. q = LastOf(files[Newest].recs).seq
    BY <2>2, <2>3, Zenon DEF RecoveredSequence, PreviousSequence
  <2>5. q # 0
    BY Zenon, <2>1, <1>9, <2>4, LastFacts DEF DirOK, Names, Record
  <2>6. c <= q
    BY <1>1, <1>9, <2>5 DEF CheckpointAhead
  <2> QED
    BY <1>1, <2>4, <2>6 DEF RecoveredNext
<1> QED
  BY <1>2, <1>7, <1>8, <1>9, Zenon

\* A scan only truncates a partial frame: no record is touched.
LEMMA TruncatedFacts ==
    ASSUME DirOK
    PROVE  Touched(files, TruncatedFiles)
<1>1. ASSUME NEW f \in File
      PROVE  /\ Truncated(f) \in File
             /\ Truncated(f).recs = f.recs
             /\ f.hdr => Truncated(f).hdr
             /\ Truncated(f).synced = f.synced \/ Truncated(f).synced = Len(f.recs) + 1
  <2>1. Len(f.recs) + 1 \in Nat
    BY DEF File
  <2> DEFINE k == Len(f.recs) + 1
             g == [f EXCEPT !.torn = FALSE, !.synced = k]
  <2> HIDE DEF k
  <2>2. g \in File /\ g.recs = f.recs /\ g.hdr = f.hdr /\ g.synced = k
    BY Zenon, <2>1 DEF File, k
  <2> HIDE DEF g
  <2>3. Truncated(f) = IF f.torn THEN g ELSE f
    BY Zenon DEF Truncated, g, k
  <2> QED
    BY <2>2, <2>3, Zenon DEF k
<1>2. \A n \in Names : files[n] \in File
  BY Zenon DEF DirOK, FilesOK, Names
<1> QED
  BY <1>1, <1>2, Zenon DEF Touched, TruncatedFiles, Names

\* The segments that recover seals, and every segment when it starts a new
\* one, are complete and durable.
LEMMA RecoverSynced ==
    ASSUME DirOK, HeadersComplete
    PROVE  /\ \A n \in ToSeal : n \in Names /\ FullySynced(files[n]) /\ files[n].recs # <<>>
           /\ StartsSegment => \A n \in Names : FullySynced(files[n])
<1>1. \A n \in Names : n # Newest => FullySynced(files[n])
  BY NewestFacts DEF DirOK, FilesOK, Names
<1>2. Names # {} /\ LegacyTail => FullySynced(files[Newest])
  BY Zenon, NewestFacts DEF DirOK, FilesOK, Names, LegacyTail, HeadersComplete, FullySynced
<1>3. Names # {} /\ Newest \in DOMAIN seals => FullySynced(files[Newest])
  BY Zenon, NewestFacts DEF DirOK, SealsOK, Names
<1>4. \A n \in ToSeal : n \in Names /\ FullySynced(files[n]) /\ files[n].recs # <<>>
  BY Zenon, <1>1, <1>2 DEF ToSeal
<1>5. StartsSegment => \A n \in Names : FullySynced(files[n])
  BY <1>1, <1>2, <1>3, Zenon DEF StartsSegment
<1> QED
  BY <1>4, <1>5, Zenon

\* The leaves of a nonempty segment are a Merkle root, and its seal a seal.
LEMMA LeavesType ==
    ASSUME NEW recs \in Seq(Record)
    PROVE  /\ Leaves(recs) \in Seq(Nat \ {0})
           /\ recs # <<>> => Leaves(recs) # <<>>
<1>0. \A i \in 1..Len(recs) : recs[i] \in Record
  OBVIOUS
<1>1. \A i \in 1..Len(recs) : recs[i].id \in Nat \ {0}
  BY Zenon, <1>0 DEF Record
<1>2. Leaves(recs) \in Seq(Nat \ {0}) /\ Len(Leaves(recs)) = Len(recs)
  BY <1>1 DEF Leaves
<1>3. recs # <<>> => Len(recs) > 0
  OBVIOUS
<1> QED
  BY <1>2, <1>3

\* sealSegment writes a well-formed seal of the records of its segment.
LEMMA SealOfType ==
    ASSUME NEW recs \in Seq(Record), recs # <<>>, NEW root \in Seq(Nat \ {0})
    PROVE  /\ SealOf(recs, root) \in Seal
           /\ SealOf(recs, root).root # <<>>
           /\ SealOf(recs, root).last = LastOf(recs).seq
<1>1. recs[1] \in Record /\ LastOf(recs) \in Record
  BY LastIsMember
<1>2. recs[1].seq \in Nat \ {0} /\ LastOf(recs).seq \in Nat \ {0}
  BY Zenon, <1>1 DEF Record
<1>3. Leaves(recs) \in Seq(Nat \ {0}) /\ Leaves(recs) # <<>>
  BY LeavesType, Zenon
<1> QED
  BY Zenon, <1>2, <1>3 DEF SealOf, Seal

\* recover seals any lower part of ToSeal.
LEMMA SealedWithFacts ==
    ASSUME DirOK, HeadersComplete, NEW S, S \subseteq ToSeal
    PROVE  SealsOK(files, SealedWith(S), checkpoint.committed)
<1> DEFINE tl == SealedWith(S)
<1>1. S \subseteq DOMAIN files /\ \A n \in S : FullySynced(files[n]) /\ files[n].recs # <<>>
  BY RecoverSynced, Zenon DEF Names
<1>2. DOMAIN tl = DOMAIN seals \cup S /\ \A n \in DOMAIN seals : tl[n] = seals[n]
  BY Zenon DEF SealedWith
<1>3. ASSUME NEW n \in S \ DOMAIN seals
      PROVE  tl[n] \in Seal /\ tl[n].root # <<>> /\ tl[n].last = LastOf(files[n].recs).seq
  <2> DEFINE before == {m \in S : m < n}
             root == IF before = {} THEN PreviousRoot(ScanEnd)
                     ELSE Leaves(files[Max(before)].recs)
  <2>1. tl[n] = SealOf(files[n].recs, root)
    BY <1>3, Zenon DEF SealedWith
  <2>2. root \in Seq(Nat \ {0})
    <3>1. CASE before = {}
      BY <3>1, PreviousTypes, Zenon
    <3>2. CASE before # {}
      <4>1. DOMAIN files \subseteq Nat /\ HasMax(DOMAIN files) /\ before \subseteq DOMAIN files
        BY <1>1, <3>2, Zenon DEF DirOK, FilesOK
      <4>2. Max(before) \in DOMAIN files
        BY <3>2, <4>1, MaxOfBounded, Zenon
      <4>3. files[Max(before)].recs \in Seq(Record)
        BY Zenon, <4>2, FileFacts DEF DirOK
      <4> QED
        BY <3>2, <4>3, LeavesType, Zenon
    <3> QED
      BY <3>1, <3>2, Zenon
  <2>3. files[n].recs \in Seq(Record) /\ files[n].recs # <<>>
    BY Zenon, <1>1, FileFacts DEF DirOK
  <2> HIDE DEF root, tl
  <2> QED
    BY <2>1, <2>2, <2>3, SealOfType, Zenon
<1>4. tl \in [DOMAIN tl -> Seal]
  <2>1. \A n \in DOMAIN seals : seals[n] \in Seal
    BY Zenon DEF DirOK, SealsOK
  <2>2. \A n \in DOMAIN tl : tl[n] \in Seal
    BY <1>2, <1>3, <2>1, Zenon
  <2>3. tl = [n \in DOMAIN tl |-> tl[n]]
    BY Zenon DEF SealedWith
  <2> HIDE DEF tl
  <2> QED
    BY <2>2, <2>3, Zenon
<1> HIDE DEF tl
<1>5. SealsOK(files, tl, checkpoint.committed)
  BY Zenon, <1>1, <1>2, <1>3, <1>4, AddSeals DEF DirOK
<1> QED
  BY <1>5, Zenon DEF tl

-----------------------------------------------------------------------------
(* Initial states.                                                         *)

\* A directory the first Open may find satisfies the invariant.
LEMMA InitialDir ==
    ASSUME NEW d, IsInitialDir(d)
    PROVE  /\ FilesOK(d.files)
           /\ NamesOK(d.files, d.checkpoint.committed)
           /\ SrcBound(d.files, d.attempts)
<1> DEFINE fs == d.files
           size(n) == Len(fs[n].recs)
<1>1. /\ DOMAIN fs \subseteq Nat \ {0}
      /\ fs \in [DOMAIN fs -> File]
      /\ DOMAIN fs # {} => HasMax(DOMAIN fs)
      /\ SrcBound(fs, d.attempts)
  BY Zenon DEF IsInitialDir, HasMax, SrcBound
<1>2. \A n \in DOMAIN fs : /\ n \in Nat
                           /\ fs[n].recs \in Seq(Record)
                           /\ size(n) \in Nat
                           /\ \A i \in 1..size(n) : fs[n].recs[i].seq = n + i - 1
                           /\ FullySynced(fs[n])
  <2> SUFFICES ASSUME NEW n \in DOMAIN fs
               PROVE  /\ n \in Nat
                      /\ fs[n].recs \in Seq(Record)
                      /\ size(n) \in Nat
                      /\ \A i \in 1..size(n) : fs[n].recs[i].seq = n + i - 1
                      /\ FullySynced(fs[n])
    BY Zenon
  <2>1. fs[n].recs \in Seq(Record)
    BY <1>1, Zenon DEF File
  <2>2. size(n) \in Nat
    BY <2>1
  <2> QED
    BY <1>1, <2>1, <2>2 DEF IsInitialDir, FullySynced
<1>3. \A m, n \in DOMAIN fs : m < n => m + size(m) <= n
  BY Zenon DEF IsInitialDir
<1>4. \A n \in DOMAIN fs : \/ n <= d.checkpoint.committed + 1
                           \/ \E m \in DOMAIN fs : m < n /\ size(m) > 0 /\ m + size(m) = n
  BY Zenon DEF IsInitialDir
<1> HIDE DEF fs
<1>5. \A n \in DOMAIN fs : \A i \in 1..Len(fs[n].recs) : fs[n].recs[i].seq >= n
  BY <1>2
<1>6. \A n \in DOMAIN fs : \A i, j \in 1..Len(fs[n].recs) :
          i < j => fs[n].recs[i].seq < fs[n].recs[j].seq
  BY <1>2
<1>7. \A m, n \in DOMAIN fs : m < n =>
          \A i \in 1..Len(fs[m].recs), j \in 1..Len(fs[n].recs) :
              fs[m].recs[i].seq < fs[n].recs[j].seq
  BY <1>2, <1>3
<1>8. FilesOK(fs)
  BY <1>1, <1>2, <1>5, <1>6, <1>7, Zenon DEF FilesOK, FullySynced
<1>9. NamesOK(fs, d.checkpoint.committed)
  <2> SUFFICES ASSUME NEW n \in DOMAIN fs, ~(n <= d.checkpoint.committed + 1)
               PROVE  \E m \in DOMAIN fs : /\ m < n
                                           /\ fs[m].recs # <<>>
                                           /\ LastOf(fs[m].recs).seq >= n - 1
    BY Zenon DEF NamesOK
  <2>1. PICK m \in DOMAIN fs : m < n /\ size(m) > 0 /\ m + size(m) = n
    BY <1>4, Zenon
  <2>2. fs[m].recs # <<>>
    BY <2>1, <1>2
  <2>3. LastOf(fs[m].recs).seq = n - 1
    <3>1. size(m) \in Nat /\ m \in Nat /\ size(m) \in 1..size(m)
      BY <2>1, <1>2
    <3>2. fs[m].recs[size(m)].seq = m + size(m) - 1
      BY Zenon, <3>1, <1>2
    <3> QED
      BY <2>1, <3>1, <3>2 DEF LastOf
  <2>4. n \in Nat
    BY <1>2, Zenon
  <2> QED
    BY <2>1, <2>2, <2>3, <2>4
<1> QED
  BY <1>1, <1>8, <1>9, Zenon DEF fs

\* What a store that is not running holds in memory has its type.
LEMMA DownTypes ==
    /\ DOMAIN NoSegments = {}
    /\ NoSegments \in [DOMAIN NoSegments -> Nat]
    /\ NoRoot \in Seq(Nat \ {0})
    /\ NoHash \in Nat
    /\ NoFile \in Nat
    /\ [s \in Sources |-> 0] \in [Sources -> Nat]
  BY DEF NoSegments, NoRoot, NoHash, NoFile

\* Before the first Open nothing is accepted and nothing is sealed.
LEMMA InitInv == Init => IInv
<1> SUFFICES ASSUME Init PROVE IInv
  BY Zenon
<1>1. PICK d \in InitialDirs : /\ files = d.files
                               /\ checkpoint = d.checkpoint
                               /\ attempts = d.attempts
  BY Zenon DEF Init
<1>2. IsInitialDir(d)
  BY InitialDirsAssumption, Zenon
<1>3. /\ DOMAIN files \subseteq Nat \ {0}
      /\ files \in [DOMAIN files -> File]
      /\ checkpoint \in [committed : Nat, source : [Sources -> Nat]]
      /\ attempts \in Nat
      /\ \A s \in Sources : checkpoint.source[s] <= attempts
  BY <1>1, <1>2, Zenon DEF IsInitialDir
<1>4. /\ FilesOK(files)
      /\ NamesOK(files, checkpoint.committed)
      /\ SrcBound(files, attempts)
  BY <1>1, <1>2, InitialDir, Zenon
<1>5. /\ DOMAIN seals = {}
      /\ seals \in [DOMAIN seals -> Seal]
      /\ accepted = {}
      /\ faults = 0
      /\ MemDown
  BY Zenon DEF Init
<1>6. SealsOK(files, seals, checkpoint.committed)
  BY <1>5, Zenon DEF SealsOK
<1>7. DirInv(files, seals, checkpoint.committed, accepted, attempts)
  BY <1>4, <1>5, <1>6, Zenon DEF DirInv, DurableIn, UniqueIn
<1>8. TypeOK
  <2>1. DOMAIN count \subseteq Nat \ {0} /\ count \in [DOMAIN count -> Nat]
    BY <1>5, DownTypes, Zenon DEF MemDown
  <2>2. /\ current \in Nat /\ startHash \in Nat /\ lastLineageHash \in Nat
        /\ lastSegmentRoot \in Seq(Nat \ {0}) /\ sourceSequence \in [Sources -> Nat]
        /\ failed \in BOOLEAN /\ pressure \in BOOLEAN /\ phase \in {"down", "up"}
    BY <1>5, DownTypes, Zenon DEF MemDown
  <2>3. /\ currentSize \in Nat /\ nextSequence \in Nat \ {0} /\ committed \in Nat /\ faults \in Nat
    BY <1>5 DEF MemDown
  <2> QED
    BY <1>3, <1>5, <2>1, <2>2, <2>3, Zenon DEF TypeOK, Names
<1>9. SourceOK
  BY <1>3, <1>5 DEF SourceOK, MemDown
<1>10. MemOK /\ AcceptedUnique
  BY <1>5, Zenon DEF MemOK, AcceptedUnique, Usable, MemDown
<1> QED
  BY <1>7, <1>8, <1>9, <1>10, Zenon DEF IInv

-----------------------------------------------------------------------------
(* The end of a process: only the directory matters.                       *)

\* When the process is gone only the directory matters: the invariant holds again
\* if the directory invariant does.
LEMMA DownInv ==
    ASSUME IInv, Die, accepted' = accepted, faults' \in Nat, attempts' \in Nat,
           checkpoint' \in [committed : Nat, source : [Sources -> Nat]],
           \A s \in Sources : checkpoint'.source[s] <= attempts',
           DirInv(files', seals', checkpoint'.committed, accepted, attempts')
    PROVE  IInv'
<1>1. /\ DOMAIN files' \subseteq Nat \ {0}
      /\ files' \in [DOMAIN files' -> File]
      /\ DOMAIN seals' \subseteq Nat \ {0}
      /\ seals' \in [DOMAIN seals' -> Seal]
  BY Zenon DEF DirInv, FilesOK, SealsOK
<1>2. TypeOK'
  <2>1. DOMAIN count' \subseteq Nat \ {0} /\ count' \in [DOMAIN count' -> Nat]
    BY DownTypes, Zenon DEF Die
  <2>2. /\ current' \in Nat /\ startHash' \in Nat /\ lastLineageHash' \in Nat
        /\ lastSegmentRoot' \in Seq(Nat \ {0}) /\ sourceSequence' \in [Sources -> Nat]
        /\ failed' \in BOOLEAN /\ pressure' \in BOOLEAN /\ phase' \in {"down", "up"}
    BY DownTypes, Zenon DEF Die
  <2>3. currentSize' \in Nat /\ nextSequence' \in Nat \ {0} /\ committed' \in Nat
    BY DEF Die
  <2>4. accepted' \subseteq Record
    BY Zenon DEF IInv, TypeOK
  <2> QED
    BY Zenon, <1>1, <2>1, <2>2, <2>3, <2>4 DEF TypeOK, Names
<1>3. DirInv(files, seals, checkpoint.committed, accepted, attempts)'
  BY Zenon
<1>4. SourceOK'
  BY DEF SourceOK, Die
<1>5. MemOK' /\ AcceptedUnique'
  BY Zenon DEF IInv, MemOK, AcceptedUnique, Usable, Die
<1> QED
  BY <1>2, <1>3, <1>4, <1>5, Zenon DEF IInv

\* A fault is counted.
LEMMA FaultType ==
    ASSUME IInv, NEW k, Fault(k)
    PROVE  faults' \in Nat
  BY DEF IInv, TypeOK, Fault

\* The checkpoint and the bounds that an action which leaves them alone keeps.
LEMMA KeptTypes ==
    ASSUME IInv
    PROVE  /\ checkpoint \in [committed : Nat, source : [Sources -> Nat]]
           /\ checkpoint.committed \in Nat
           /\ \A s \in Sources : checkpoint.source[s] <= attempts
           /\ attempts \in Nat
           /\ faults \in Nat
           /\ DirOK
  BY Zenon DEF IInv, TypeOK, SourceOK, DirOK, DirInv

\* A store that is down and stays down: only the directory may change.
LEMMA StillDownInv ==
    ASSUME IInv, phase = "down", UNCHANGED <<mem, checkpoint, accepted, attempts>>,
           faults' \in Nat,
           DirInv(files', seals', checkpoint.committed, accepted, attempts)
    PROVE  IInv'
<1>1. /\ DOMAIN files' \subseteq Nat \ {0}
      /\ files' \in [DOMAIN files' -> File]
      /\ DOMAIN seals' \subseteq Nat \ {0}
      /\ seals' \in [DOMAIN seals' -> Seal]
  BY Zenon DEF DirInv, FilesOK, SealsOK
<1>2. TypeOK'
  BY Zenon, <1>1 DEF IInv, TypeOK, Names, mem
<1>3. DirInv(files, seals, checkpoint.committed, accepted, attempts)'
  BY Zenon
<1>4. SourceOK'
  BY Zenon DEF IInv, SourceOK, mem
<1>5. MemOK' /\ AcceptedUnique'
  BY Zenon DEF IInv, MemOK, AcceptedUnique, Usable, mem
<1> QED
  BY <1>2, <1>3, <1>4, <1>5, Zenon DEF IInv

-----------------------------------------------------------------------------
(* Open.                                                                   *)

\* The directory after a scan that sealed the segments of S.
LEMMA RecoverSeals ==
    ASSUME IInv, OpenOK, NEW S, S \subseteq ToSeal
    PROVE  DirInv(TruncatedFiles, SealedWith(S), checkpoint.committed, accepted, attempts)
<1>1. DirOK /\ HeadersComplete
  BY KeptTypes, Zenon DEF OpenOK, ScanOK
<1>2. SealsOK(files, SealedWith(S), checkpoint.committed)
  BY <1>1, SealedWithFacts, Zenon
<1>3. DirInv(files, SealedWith(S), checkpoint.committed, accepted, attempts)
  BY <1>2, Zenon DEF IInv, DirInv
<1> QED
  BY <1>1, <1>3, TruncatedFacts, TouchDir, Zenon

\* The directory after a scan that also created its segment.
LEMMA RecoverNew ==
    ASSUME IInv, OpenOK, StartsSegment, NEW f \in File, f.recs = <<>>
    PROVE  /\ DirInv(With(TruncatedFiles, RecoveredNext, f), SealedWith(ToSeal),
                     checkpoint.committed, accepted, attempts)
           /\ RecoveredNext \notin DOMAIN SealedWith(ToSeal)
           /\ Above(With(TruncatedFiles, RecoveredNext, f), RecoveredNext)
<1> DEFINE x == RecoveredNext
           c == checkpoint.committed
           fs == TruncatedFiles
           sl == SealedWith(ToSeal)
<1>1. DirOK /\ HeadersComplete /\ c \in Nat
  BY KeptTypes, Zenon DEF OpenOK, ScanOK
<1>2. DirInv(fs, sl, c, accepted, attempts)
  BY RecoverSeals, Zenon
<1>3. Touched(files, fs)
  BY <1>1, TruncatedFacts, Zenon
<1>4. /\ x \in Nat \ {0} /\ x > c /\ Above(files, x)
      /\ \/ x = c + 1
         \/ \E m \in Names : /\ m < x
                            /\ files[m].recs # <<>>
                            /\ LastOf(files[m].recs).seq >= x - 1
  BY <1>1, RecoveredNextFacts, Zenon
<1> HIDE DEF x, c, fs, sl
<1>5. DOMAIN fs = Names /\ \A m \in Names : fs[m].recs = files[m].recs
  BY <1>3, Zenon DEF Touched, Names
<1>6. x \notin Names
  BY Zenon DEF OpenOK, x
<1>7. \A m \in DOMAIN fs : m < x
  <2>1. \A m \in Names : m <= x /\ m \in Nat
    BY <1>1, <1>4, NewestFacts, Zenon DEF Above, Names
  <2> QED
    BY <2>1, <1>4, <1>5, <1>6
<1>8. \A m \in DOMAIN fs : FullySynced(fs[m])
  <2>1. \A m \in Names : FullySynced(files[m])
    BY <1>1, RecoverSynced, Zenon
  <2> QED
    BY <2>1, <1>3, <1>5, Zenon DEF Touched, FullySynced, Names
<1>9. \/ x = c + 1
      \/ \E m \in DOMAIN fs : /\ m < x
                             /\ fs[m].recs # <<>>
                             /\ LastOf(fs[m].recs).seq >= x - 1
  BY <1>4, <1>5, Zenon
<1>10. DirInv(With(fs, x, f), sl, c, accepted, attempts) /\ x \notin DOMAIN sl
  BY Zenon, <1>1, <1>2, <1>4, <1>5, <1>6, <1>7, <1>8, <1>9, NewSegmentDir DEF c
<1>11. Above(fs, x)
  BY <1>4, <1>5, Zenon DEF Above, Names
<1>12. Above(With(fs, x, f), x)
  <2>1. /\ DOMAIN With(fs, x, f) = DOMAIN fs \cup {x}
        /\ With(fs, x, f)[x] = f
        /\ \A m \in DOMAIN fs : m # x => With(fs, x, f)[m] = fs[m]
    BY Zenon DEF With
  <2>2. Len(With(fs, x, f)[x].recs) = 0
    BY <2>1
  <2> QED
    BY <2>1, <2>2, <1>4, <1>11 DEF Above
<1> QED
  BY <1>10, <1>12, Zenon DEF x, c, fs, sl

\* The files createSegment writes, whole or interrupted, are empty.
LEMMA NewFileFacts ==
    /\ NewFile \in File /\ NewFile.recs = <<>> /\ NewFile.hdr
    /\ \A f \in PartialNewFiles : f \in File /\ f.recs = <<>>
<1>1. <<>> \in Seq(Record)
  OBVIOUS
<1>2. NewFile \in File /\ NewFile.recs = <<>> /\ NewFile.hdr
  BY <1>1, Zenon DEF NewFile, File
<1>3. ASSUME NEW f \in PartialNewFiles PROVE f \in File /\ f.recs = <<>>
  <2>1. PICK h \in BOOLEAN : f = [NewFile EXCEPT !.hdr = h, !.synced = 0]
    BY Zenon DEF PartialNewFiles
  <2> QED
    BY Zenon, <2>1, <1>2 DEF File
<1> QED
  BY <1>2, <1>3, Zenon

\* Open that returns an error leaves the invariant true.
LEMMA OpenFailsInv ==
    ASSUME IInv, OpenFails
    PROVE  IInv'
<1>1. DirInv(files', seals', checkpoint.committed, accepted, attempts)
  <2>1. DirInv(TruncatedFiles, seals, checkpoint.committed, accepted, attempts)
    BY KeptTypes, TruncatedFacts, TouchDir, Zenon DEF IInv
  <2> QED
    BY <2>1, Zenon DEF IInv, OpenFails
<1>2. phase = "down" /\ UNCHANGED <<mem, checkpoint, accepted, attempts>> /\ faults' \in Nat
  BY KeptTypes, Zenon DEF OpenFails
<1> QED
  BY <1>1, <1>2, StillDownInv, Zenon

\* Open that dies on its way (after a repair, a seal or a new segment) leaves the
\* invariant true.
LEMMA OpenInterruptedInv ==
    ASSUME IInv, OpenInterrupted
    PROVE  IInv'
<1>1. OpenOK /\ phase = "down" /\ UNCHANGED <<mem, checkpoint, accepted, attempts>>
  BY Zenon DEF OpenInterrupted
<1>2. faults' \in Nat
  BY FaultType, Zenon DEF OpenInterrupted
<1>3. ASSUME NEW b, seals' = SealedWith({n \in ToSeal : n < b}), files' = TruncatedFiles
      PROVE  DirInv(files', seals', checkpoint.committed, accepted, attempts)
  BY <1>1, <1>3, RecoverSeals, Zenon
<1>4. ASSUME StartsSegment, seals' = SealedWith(ToSeal), NEW f \in PartialNewFiles,
             files' = With(TruncatedFiles, RecoveredNext, f)
      PROVE  DirInv(files', seals', checkpoint.committed, accepted, attempts)
  BY <1>1, <1>4, RecoverNew, NewFileFacts, Zenon
<1>5. DirInv(files', seals', checkpoint.committed, accepted, attempts)
  BY Zenon, <1>3, <1>4 DEF OpenInterrupted
<1> QED
  BY <1>1, <1>2, <1>5, StillDownInv, Zenon

\* The source sequence recover finds is the largest of the checkpoint and the
\* retained records.
LEMMA RecoveredSourceFacts ==
    ASSUME IInv, NEW s \in Sources
    PROVE  /\ RecoveredSource(s) \in Nat /\ RecoveredSource(s) <= attempts
           /\ checkpoint.source[s] <= RecoveredSource(s)
           /\ \A n \in Names : \A i \in 1..Len(files[n].recs) :
                 files[n].recs[i].src = s => files[n].recs[i].srcSeq <= RecoveredSource(s)
<1> DEFINE found(recs) == {recs[i].srcSeq : i \in {j \in 1..Len(recs) : recs[j].src = s}}
           T == {checkpoint.source[s]} \cup UNION {found(files[n].recs) : n \in Names}
<1>1. checkpoint.source[s] \in Nat /\ checkpoint.source[s] <= attempts /\ attempts \in Nat
  BY Zenon DEF IInv, TypeOK, SourceOK
<1>2. ASSUME NEW n \in Names, NEW x \in found(files[n].recs)
      PROVE  x \in Nat /\ x <= attempts
  <2>1. PICK i \in 1..Len(files[n].recs) : x = files[n].recs[i].srcSeq
    BY Zenon
  <2>2. files[n].recs[i] \in Record
    BY FileFacts, Zenon DEF IInv, DirInv, Names
  <2> QED
    BY Zenon, <2>1, <2>2 DEF Record, IInv, DirInv, SrcBound, Names
<1>3. T \subseteq Nat /\ T # {} /\ \A x \in T : x <= attempts
  BY Zenon, <1>1, <1>2
<1>4. Max(T) \in T /\ \A x \in T : x <= Max(T)
  BY Zenon, <1>1, <1>3, MaxExists
<1>5. RecoveredSource(s) = Max(T)
  BY Zenon DEF RecoveredSource
<1>6. checkpoint.source[s] \in T
  BY Zenon
<1>7. \A n \in Names : \A i \in 1..Len(files[n].recs) :
          files[n].recs[i].src = s => files[n].recs[i].srcSeq \in T
  <2>1. \A n \in Names : \A i \in 1..Len(files[n].recs) :
            files[n].recs[i].src = s => files[n].recs[i].srcSeq \in found(files[n].recs)
    BY Zenon
  <2> HIDE DEF found
  <2>2. \A n \in Names : found(files[n].recs) \subseteq T
    BY Zenon
  <2> QED
    BY Zenon, <2>1, <2>2
<1> HIDE DEF T
<1> QED
  BY Zenon, <1>3, <1>4, <1>5, <1>6, <1>7

\* A segment file's size is a number of bytes.
LEMMA FileSizeType ==
    ASSUME NEW f \in File
    PROVE  FileSize(f) \in Nat
<1>1. f.recs \in Seq(Record)
  BY Zenon DEF File
<1>2. CASE f.recs = <<>>
  BY <1>2, SizesAssumption, Zenon DEF FileSize
<1>3. CASE f.recs # <<>>
  <2>1. LastOf(f.recs) \in Record
    BY <1>1, <1>3, LastIsMember, Zenon
  <2> QED
    BY <1>3, <2>1, Zenon DEF FileSize, Record
<1> QED
  BY <1>2, <1>3, Zenon

\* The directory and the open segment after a successful Open.
LEMMA OpenDir ==
    ASSUME IInv, Open
    PROVE  /\ DirInv(files', seals', checkpoint.committed, accepted, attempts)
           /\ current' \in DOMAIN files'
           /\ files'[current'].hdr
           /\ \A n \in DOMAIN files' : n <= current'
           /\ current' \notin DOMAIN seals'
           /\ \A i \in 1..Len(files'[current'].recs) : files'[current'].recs[i].version = Version
           /\ currentSize' = FileSize(files'[current'])
           /\ DOMAIN count' = DOMAIN files'
           /\ \A n \in DOMAIN files' : count'[n] = Len(files'[n].recs)
           /\ count' \in [DOMAIN count' -> Nat]
           /\ Above(files', nextSequence')
           /\ files'[current'].recs # <<>> => LastOf(files'[current'].recs).seq = nextSequence' - 1
<1>0. OpenOK /\ DirOK /\ HeadersComplete /\ ~CheckpointAhead
  BY KeptTypes, Zenon DEF Open, OpenOK, ScanOK
<1>1. CASE StartsSegment
  <2> DEFINE x == RecoveredNext
             dir == With(TruncatedFiles, x, NewFile)
  <2>1. /\ files' = dir /\ current' = x /\ seals' = SealedWith(ToSeal)
        /\ count' = [n \in DOMAIN dir |-> Len(dir[n].recs)]
        /\ currentSize' = FileSize(dir[x]) /\ nextSequence' = x
    BY <1>1, Zenon DEF Open
  <2>2. /\ DirInv(dir, SealedWith(ToSeal), checkpoint.committed, accepted, attempts)
        /\ x \notin DOMAIN SealedWith(ToSeal)
        /\ Above(dir, x)
    BY <1>0, <1>1, RecoverNew, NewFileFacts, Zenon
  <2>3. x \in DOMAIN dir /\ dir[x] = NewFile
    BY Zenon DEF With
  <2> HIDE DEF x, dir
  <2>4. \A n \in DOMAIN dir : n <= x /\ Len(dir[n].recs) \in Nat
    BY <2>2, FileFacts, Zenon DEF Above, DirInv
  <2>5. dir[x].recs = <<>> /\ dir[x].hdr /\ Len(dir[x].recs) = 0
    BY <2>3, NewFileFacts
  <2>6. DOMAIN count' = DOMAIN dir /\ count' \in [DOMAIN count' -> Nat]
        /\ \A n \in DOMAIN dir : count'[n] = Len(dir[n].recs)
    BY <2>1, <2>4, Zenon
  <2> QED
    BY <2>1, <2>2, <2>3, <2>4, <2>5, <2>6
<1>2. CASE ~StartsSegment
  <2> DEFINE x == Newest
             dir == TruncatedFiles
  <2>1. /\ files' = dir /\ current' = x /\ seals' = SealedWith(ToSeal)
        /\ count' = [n \in DOMAIN dir |-> Len(dir[n].recs)]
        /\ currentSize' = FileSize(dir[x]) /\ nextSequence' = RecoveredNext
    BY <1>2, Zenon DEF Open
  <2>2. DirInv(dir, SealedWith(ToSeal), checkpoint.committed, accepted, attempts)
    BY <1>0, RecoverSeals, Zenon
  <2>3. Touched(files, dir)
    BY <1>0, TruncatedFacts, Zenon
  <2>4. Names # {} /\ x \notin DOMAIN seals /\ ~LegacyTail
    BY <1>2, Zenon DEF StartsSegment
  <2>5. x \in Names /\ \A n \in Names : n <= x
    BY <1>0, <2>4, NewestFacts, Zenon
  <2>6. x \notin DOMAIN SealedWith(ToSeal)
    BY <2>4, Zenon DEF SealedWith, ToSeal
  <2>7. \A i \in 1..Len(files[x].recs) : files[x].recs[i].version = Version
    <3>1. \A i \in 1..Len(files[x].recs) : files[x].recs[i] \in Record
      BY <1>0, <2>5, FileFacts, Zenon DEF DirOK, Names
    <3> QED
      BY <3>1, <2>4, Zenon DEF LegacyTail, Record
  <2>8. files[x].recs # <<>> => LastOf(files[x].recs).seq = RecoveredNext - 1
    BY <1>0, <2>4, RecoveredNextFacts, Zenon
  <2>9. Above(files, RecoveredNext)
    BY <1>0, RecoveredNextFacts, Zenon
  <2>10. files[x].hdr
    BY <1>0, <2>5, Zenon DEF HeadersComplete
  <2> HIDE DEF x, dir
  <2>11. DOMAIN dir = Names /\ dir[x].hdr /\ \A n \in Names : dir[n].recs = files[n].recs
    BY <2>3, <2>5, <2>10, Zenon DEF Touched, Names
  <2>12. \A n \in DOMAIN dir : Len(dir[n].recs) \in Nat
    BY <2>2, FileFacts, Zenon DEF DirInv
  <2>13. DOMAIN count' = DOMAIN dir /\ count' \in [DOMAIN count' -> Nat]
         /\ \A n \in DOMAIN dir : count'[n] = Len(dir[n].recs)
    BY <2>1, <2>12
  <2>14. Above(dir, RecoveredNext)
    BY <2>9, <2>11, Zenon DEF Above, Names
  <2> QED
    BY <2>1, <2>2, <2>5, <2>6, <2>7, <2>8, <2>11, <2>13, <2>14, Zenon
<1> QED
  BY <1>1, <1>2, Zenon

\* Open that succeeds recovers a store that satisfies the invariant.
LEMMA OpenInv ==
    ASSUME IInv, Open
    PROVE  IInv'
<1> DEFINE c == checkpoint.committed
           x == RecoveredNext
<1>0. DirOK
  BY KeptTypes, Zenon
<1>1. /\ phase' = "up" /\ nextSequence' = x /\ committed' = c
      /\ sourceSequence' = [s \in Sources |-> RecoveredSource(s)]
      /\ failed' = FALSE /\ pressure' = FALSE
      /\ UNCHANGED <<checkpoint, accepted, attempts, faults>>
  BY Zenon DEF Open
<1>2. x \in Nat \ {0} /\ x > c /\ Above(files, x) /\ c \in Nat
  BY <1>0, RecoveredNextFacts, KeptTypes, Zenon
<1>3. DirInv(files', seals', c, accepted, attempts)
  BY OpenDir, Zenon
<1>4. /\ current' \in DOMAIN files'
      /\ files'[current'].hdr
      /\ \A n \in DOMAIN files' : n <= current'
      /\ current' \notin DOMAIN seals'
      /\ \A i \in 1..Len(files'[current'].recs) : files'[current'].recs[i].version = Version
      /\ currentSize' = FileSize(files'[current'])
      /\ DOMAIN count' = DOMAIN files'
      /\ \A n \in DOMAIN files' : count'[n] = Len(files'[n].recs)
      /\ count' \in [DOMAIN count' -> Nat]
      /\ Above(files', x)
      /\ files'[current'].recs # <<>> => LastOf(files'[current'].recs).seq = x - 1
  BY <1>1, OpenDir, Zenon
<1>5. startHash' \in Nat /\ lastLineageHash' \in Nat
  BY <1>0, PreviousTypes, Zenon DEF Open
<1>6. lastSegmentRoot' \in Seq(Nat \ {0})
  <2>1. CASE ToSeal = {}
    BY <2>1, <1>0, PreviousTypes, Zenon DEF Open, RecoveredRoot
  <2>2. CASE ToSeal # {}
    <3>1. Names \subseteq Nat /\ HasMax(Names) /\ ToSeal \subseteq Names
      BY <1>0, <2>2, Zenon DEF DirOK, FilesOK, Names, ToSeal
    <3>2. Max(ToSeal) \in Names
      BY Zenon, <2>2, <3>1, MaxOfBounded
    <3>3. files[Max(ToSeal)].recs \in Seq(Record)
      BY <1>0, <3>2, FileFacts, Zenon DEF DirOK, Names
    <3> QED
      BY Zenon, <2>2, <3>3, LeavesType DEF Open, RecoveredRoot
  <2> QED
    BY <2>1, <2>2, Zenon
<1>7. /\ sourceSequence' \in [Sources -> Nat]
      /\ \A s \in Sources : sourceSequence'[s] <= attempts
  BY <1>1, RecoveredSourceFacts, Zenon
<1>8. /\ DOMAIN files' \subseteq Nat \ {0} /\ files' \in [DOMAIN files' -> File]
      /\ DOMAIN seals' \subseteq Nat \ {0} /\ seals' \in [DOMAIN seals' -> Seal]
  BY <1>3, Zenon DEF DirInv, FilesOK, SealsOK
<1>9. current' \in Nat \ {0} /\ currentSize' \in Nat
  BY <1>4, <1>8, FileSizeType, Zenon
<1>10. failed' \in BOOLEAN /\ pressure' \in BOOLEAN /\ phase' \in {"down", "up"}
  BY <1>1, Zenon
<1> HIDE DEF x, c
<1>11. TypeOK'
  <2>1. /\ checkpoint' \in [committed : Nat, source : [Sources -> Nat]]
        /\ accepted' \subseteq Record /\ attempts' \in Nat /\ faults' \in Nat
    BY <1>1, Zenon DEF IInv, TypeOK
  <2>2. nextSequence' \in Nat \ {0} /\ committed' \in Nat
    BY <1>1, <1>2, Zenon
  <2>3. DOMAIN count' \subseteq Nat \ {0}
    BY <1>4, <1>8, Zenon
  <2> QED
    BY Zenon, <1>4, <1>5, <1>6, <1>7, <1>8, <1>9, <1>10, <2>1, <2>2, <2>3 DEF TypeOK, Names
<1>12. DirInv(files, seals, checkpoint.committed, accepted, attempts)'
  BY <1>1, <1>3, Zenon DEF c
<1>13. SourceOK'
  BY <1>1, <1>7, Zenon DEF IInv, SourceOK
<1>14. \A n \in DOMAIN files' : Len(files'[n].recs) \in Nat
  BY Zenon, <1>3, FileFacts DEF DirInv
<1>15. CurrentOK'
  BY <1>4, <1>14 DEF CurrentOK, Names
<1>16. UsableOK'
  <2>1. current' # NoFile
    BY <1>9, Zenon DEF NoFile
  <2>2. committed' = checkpoint'.committed /\ committed' < nextSequence'
    BY <1>1, <1>2, Zenon DEF c
  <2> QED
    BY <1>1, <1>4, <2>1, <2>2, Zenon DEF UsableOK, Names
<1>17. \A r \in accepted : r.seq < x
  <2> SUFFICES ASSUME NEW r \in accepted PROVE r.seq < x
    BY Zenon
  <2>1. r.seq \in Nat
    BY Zenon DEF IInv, TypeOK, Record
  <2>2. CASE r.seq <= c
    BY <2>1, <2>2, <1>2
  <2>3. CASE \E n \in DOMAIN files : \E i \in 1..Len(files[n].recs) : files[n].recs[i] = r
    BY Zenon, <2>3, <1>2 DEF Above
  <2> QED
    BY Zenon, <2>2, <2>3 DEF IInv, DirInv, DurableIn, c
<1> QED
  BY <1>1, <1>11, <1>12, <1>13, <1>15, <1>16, <1>17, Zenon DEF IInv, MemOK, AcceptedUnique

-----------------------------------------------------------------------------
(* rotate: sync, seal, create.                                             *)

\* The sync of the open segment makes all of it durable.
LEMMA SyncFacts ==
    ASSUME IInv, phase = "up", current # NoFile
    PROVE  /\ Touched(files, CurrentSynced)
           /\ current \in Names
           /\ FullySynced(CurrentSynced[current])
           /\ CurrentSynced[current].recs = files[current].recs
           /\ \A n \in Names : n # current => CurrentSynced[n] = files[n]
           /\ DOMAIN CurrentSynced = Names
<1>1. current \in Names /\ files[current].hdr
  BY Zenon DEF IInv, MemOK, CurrentOK
<1>2. files[current] \in File /\ Len(files[current].recs) \in Nat
  BY Zenon, <1>1, FileFacts DEF IInv, DirInv, Names
<1> DEFINE f == files[current]
           k == Len(f.recs) + 1
           g == [f EXCEPT !.synced = k]
<1>3. Synced(f) = g
  BY <1>1, Zenon DEF Synced, Written
<1>4. k \in Nat
  BY <1>2
<1> HIDE DEF k
<1>5. g \in File /\ g.recs = f.recs /\ g.hdr = f.hdr /\ g.synced = k
  BY <1>2, <1>4, Zenon DEF File
<1> HIDE DEF g, f
<1>6. files \in [Names -> File]
  BY Zenon DEF IInv, TypeOK
<1>7. CurrentSynced = [files EXCEPT ![current] = g]
  BY <1>3, Zenon DEF CurrentSynced, f
<1>8. /\ DOMAIN CurrentSynced = Names
      /\ CurrentSynced[current] = g
      /\ \A n \in Names : n # current => CurrentSynced[n] = files[n]
      /\ CurrentSynced \in [Names -> File]
  BY <1>1, <1>5, <1>6, <1>7, Zenon
<1>9. FullySynced(g)
  BY <1>1, <1>5, Zenon DEF FullySynced, f, k
<1>10. Touched(files, CurrentSynced)
  BY <1>5, <1>8, Zenon DEF Touched, Names, f, k
<1> QED
  BY Zenon, <1>1, <1>5, <1>8, <1>9, <1>10 DEF f

\* Once synced, the open segment may be sealed.
LEMMA SealCurrent ==
    ASSUME IInv, phase = "up", current # NoFile
    PROVE  /\ DirInv(CurrentSynced, CurrentSealed, checkpoint.committed, accepted, attempts)
           /\ RootAfterSeal \in Seq(Nat \ {0})
<1> DEFINE c == checkpoint.committed
           fs == CurrentSynced
<1>1. DirInv(fs, seals, c, accepted, attempts)
  BY SyncFacts, TouchDir, Zenon DEF IInv
<1>2. /\ current \in DOMAIN fs /\ FullySynced(fs[current])
      /\ fs[current].recs = files[current].recs
  BY SyncFacts, Zenon
<1>3. lastSegmentRoot \in Seq(Nat \ {0})
  BY Zenon DEF IInv, TypeOK
<1>4. CASE ~MustSeal
  BY <1>1, <1>3, <1>4, Zenon DEF CurrentSealed, RootAfterSeal
<1>5. CASE MustSeal
  <2> DEFINE seal == SealOf(files[current].recs, lastSegmentRoot)
             tl == CurrentSealed
  <2>1. files[current].recs \in Seq(Record) /\ Len(files[current].recs) \in Nat
    BY Zenon, <1>2, SyncFacts, FileFacts DEF IInv, DirInv, Names
  <2>2. files[current].recs # <<>>
    <3>1. count[current] > 0 /\ count[current] <= Len(files[current].recs) /\ count[current] \in Nat
      BY <1>5, Zenon DEF MustSeal, IInv, MemOK, CurrentOK, TypeOK
    <3> QED
      BY <2>1, <3>1
  <2>3. /\ seal \in Seal
        /\ seal.root # <<>>
        /\ seal.last = LastOf(files[current].recs).seq
    BY <2>1, <2>2, <1>3, SealOfType, Zenon
  <2>4. current \notin DOMAIN seals
    BY <1>5, Zenon DEF MustSeal
  <2> HIDE DEF seal
  <2>5. /\ DOMAIN tl = DOMAIN seals \cup {current}
        /\ tl[current] = seal
        /\ \A n \in DOMAIN seals : tl[n] = seals[n]
        /\ tl = [n \in DOMAIN tl |-> tl[n]]
    BY <1>5, <2>4, Zenon DEF CurrentSealed, With, seal
  <2> HIDE DEF tl
  <2>6. seals \in [DOMAIN seals -> Seal]
    BY Zenon DEF IInv, TypeOK
  <2>7. tl \in [DOMAIN tl -> Seal]
    BY <2>3, <2>5, <2>6, Zenon
  <2> HIDE DEF fs
  <2>8. FilesOK(fs) /\ SealsOK(fs, seals, c)
    BY <1>1, Zenon DEF DirInv
  <2>9. SealsOK(fs, tl, c)
    <3> DEFINE S == {current}
    <3>1. /\ S \subseteq DOMAIN fs
          /\ DOMAIN tl = DOMAIN seals \cup S
          /\ \A n \in S \ DOMAIN seals : /\ fs[n].recs # <<>>
                                       /\ FullySynced(fs[n])
                                       /\ tl[n].root # <<>>
                                       /\ tl[n].last = LastOf(fs[n].recs).seq
      BY <1>2, <2>2, <2>3, <2>5, Zenon
    <3>2. \A n \in DOMAIN seals : tl[n] = seals[n]
      BY <2>5, Zenon
    <3> HIDE DEF S
    <3> QED
      BY Zenon, <2>7, <2>8, <3>1, <3>2, AddSeals
  <2>10. RootAfterSeal \in Seq(Nat \ {0})
    BY <1>5, <2>1, LeavesType, Zenon DEF RootAfterSeal
  <2> QED
    BY <1>1, <2>9, <2>10, Zenon DEF DirInv, tl, fs
<1> QED
  BY <1>4, <1>5, Zenon

\* A full segment is not empty: its last record has the last sequence.
LEMMA RotationFacts ==
    ASSUME IInv, Usable, NEW size, NeedsRotation(size)
    PROVE  /\ files[current].recs # <<>>
           /\ LastOf(files[current].recs).seq = nextSequence - 1
           /\ current <= nextSequence - 1
<1>1. UsableOK /\ CurrentOK
  BY Zenon DEF IInv, MemOK, Usable
<1>2. files[current].recs # <<>>
  BY <1>1, SizesAssumption DEF UsableOK, NeedsRotation, FileSize
<1>3. LastOf(files[current].recs).seq = nextSequence - 1
  BY <1>1, <1>2, Zenon DEF UsableOK
<1>4. current \in Names
  BY <1>1, Zenon DEF UsableOK, CurrentOK
<1>5. LastOf(files[current].recs).seq >= current
  <2>1. /\ LastOf(files[current].recs) = files[current].recs[Len(files[current].recs)]
        /\ Len(files[current].recs) \in 1..Len(files[current].recs)
    BY Zenon, <1>2, <1>4, LastFacts DEF IInv, DirInv, Names
  <2> QED
    BY Zenon, <2>1, <1>4 DEF IInv, DirInv, FilesOK, Names
<1>6. nextSequence - 1 \in Int /\ current \in Nat
  BY DEF IInv, TypeOK
<1> QED
  BY <1>2, <1>3, <1>5, <1>6, Zenon

\* The directory once rotate has created the new segment, complete or not.
LEMMA RotateDir ==
    ASSUME IInv, Usable, NEW size, NeedsRotation(size), nextSequence \notin Names,
           NEW f \in File, f.recs = <<>>
    PROVE  /\ DirInv(With(CurrentSynced, nextSequence, f), CurrentSealed,
                     checkpoint.committed, accepted, attempts)
           /\ nextSequence \notin DOMAIN CurrentSealed
           /\ Above(With(CurrentSynced, nextSequence, f), nextSequence)
<1> DEFINE x == nextSequence
           c == checkpoint.committed
           fs == CurrentSynced
<1>1. UsableOK /\ phase = "up" /\ current # NoFile /\ current \in Names
  BY Zenon DEF IInv, MemOK, Usable, UsableOK, CurrentOK
<1>2. DirInv(fs, CurrentSealed, c, accepted, attempts)
  BY <1>1, SealCurrent, Zenon
<1>3. /\ DOMAIN fs = Names /\ FullySynced(fs[current])
      /\ fs[current].recs = files[current].recs
      /\ \A n \in Names : n # current => fs[n] = files[n]
  BY Zenon, <1>1, SyncFacts
<1>4. x \in Nat \ {0} /\ c \in Nat /\ x > c /\ Above(files, x)
  BY <1>1, Zenon DEF UsableOK, IInv, TypeOK
<1> HIDE DEF fs
<1>5. \A m \in DOMAIN fs : m < x /\ m <= current /\ m \in Nat
  <2>1. \A m \in Names : m <= x /\ m \in Nat /\ m <= current
    <3>1. \A m \in Names : m <= x
      BY <1>4, Zenon DEF Above, Names
    <3>2. \A m \in Names : m <= current
      BY Zenon, <1>1 DEF UsableOK
    <3>3. \A m \in Names : m \in Nat
      BY Zenon DEF IInv, TypeOK
    <3> QED
      BY <3>1, <3>2, <3>3, Zenon
  <2> QED
    BY <2>1, <1>3, <1>4
<1>6. \A m \in DOMAIN fs : FullySynced(fs[m])
  <2>1. \A m \in Names : m < current => FullySynced(files[m])
    BY Zenon, <1>1 DEF IInv, DirInv, FilesOK, Names
  <2> QED
    BY <2>1, <1>1, <1>3, <1>5
<1>7. current < x /\ fs[current].recs # <<>> /\ LastOf(fs[current].recs).seq >= x - 1
  BY <1>3, <1>4, <1>5, <1>1, RotationFacts
<1>8. DirInv(With(fs, x, f), CurrentSealed, c, accepted, attempts) /\ x \notin DOMAIN CurrentSealed
  BY Zenon, <1>1, <1>2, <1>3, <1>4, <1>5, <1>6, <1>7, NewSegmentDir
<1>9. Above(fs, x)
  BY <1>3, <1>4, Zenon DEF Above, Names
<1>10. Above(With(fs, x, f), x)
  <2>1. /\ DOMAIN With(fs, x, f) = DOMAIN fs \cup {x}
        /\ With(fs, x, f)[x] = f
        /\ \A m \in DOMAIN fs : m # x => With(fs, x, f)[m] = fs[m]
    BY Zenon DEF With
  <2>2. Len(With(fs, x, f)[x].recs) = 0
    BY <2>1
  <2> QED
    BY <2>1, <2>2, <1>4, <1>9 DEF Above
<1> QED
  BY Zenon, <1>8, <1>10 DEF fs
=============================================================================
