------------------------------ MODULE MCEdgeWAL -----------------------------
(***************************************************************************)
(* EdgeWAL for TLC: an empty directory, or one that a v1 edge left behind. *)
(***************************************************************************)
EXTENDS EdgeWAL

CONSTANTS s1, s2

EmptyDir ==
    [files |-> [n \in {} |-> NewFile],
     checkpoint |-> [committed |-> 0, source |-> [s \in Sources |-> 0]],
     attempts |-> 0]

FreshDirs == {EmptyDir}

\* A frame of two bytes that a v1 edge wrote as the i-th of its segment.
LegacyRecord(seq, i) ==
    [seq |-> seq, src |-> s1, srcSeq |-> seq, id |-> seq, prev |-> NoHash,
     end |-> SegmentHeaderBytes + 2 * i, version |-> LegacyVersion]
LegacyFile(first, n, torn) ==
    [hdr |-> TRUE, recs |-> [i \in 1..n |-> LegacyRecord(first + i - 1, i)],
     torn |-> torn, synced |-> n + 1]
LegacyDir(fs, done) ==
    [files |-> fs,
     checkpoint |-> [committed |-> done, source |-> [s \in Sources |-> IF s = s1 THEN done ELSE 0]],
     attempts |-> 3]

\* Two unsealed segments, the second with an interrupted frame; the first one
\* compacted; and a second one that is still empty.
LegacyDirs ==
    {LegacyDir([n \in {1, 3} |-> IF n = 1 THEN LegacyFile(1, 2, FALSE) ELSE LegacyFile(3, 1, TRUE)], done) : done \in {0, 2}}
    \cup {LegacyDir([n \in {3} |-> LegacyFile(3, 1, FALSE)], 2)}
    \cup {LegacyDir([n \in {1, 3} |-> IF n = 1 THEN LegacyFile(1, 2, FALSE) ELSE NewFile], 1)}

\* Either, with appends left for three events.
AllDirs == {[EmptyDir EXCEPT !.attempts = 3]} \cup LegacyDirs
=============================================================================
