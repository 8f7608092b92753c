------------------------ MODULE ConsumerGroupProofs -------------------------
(***************************************************************************)
(* No record is skipped and no position goes back, for any number of       *)
(* members, partitions, records, workers and faults.  First the inductive  *)
(* invariant, and the steps of the poll loop and the pool that acknowledge *)
(* nothing; then the acknowledgements, the group and the theorems.         *)
(***************************************************************************)
EXTENDS ConsumerGroup, FiniteSetTheorems, TLAPS

-----------------------------------------------------------------------------
(* The inductive invariant, a predicate on the state s of member m, the    *)
(* committed positions pos, the owners own and the handled records han.    *)

Entry == [offset : Offsets, done : BOOLEAN]
Job == [record : Records, stage : {"process", "dlq", "ack"}, attempt : 1..MaxAttempts]
NextMaps == UNION {[D -> 0..NumOffsets] : D \in SUBSET Partitions}
Coordinators == [Partitions -> Seq(Entry)]

MemberState ==
    [run : {"polling", "batch", "stopped"}, fatal : BOOLEAN, shutdown : BOOLEAN,
     next : NextMaps, todo : Seq(Records), registered : BOOLEAN, aborted : BOOLEAN,
     pending : Coordinators, queue : Seq(Records), jobs : SUBSET Job]

Healthy(s) == ~s.fatal /\ ~s.shutdown /\ ~s.aborted
Active(s) == s.registered \/ s.queue # <<>> \/ s.jobs # {}

\* The gate is open, or the process down, only between batches.
Between(s) ==
    /\ s.run # "batch" => s.todo = <<>> /\ ~s.aborted /\ s.queue = <<>> /\ s.jobs = {}
    /\ s.registered => s.todo # <<>>
    /\ s.aborted => s.todo = <<>>

Bounded(s) ==
    /\ Len(s.queue) <= QueueCapacity
    /\ IsFiniteSet(s.jobs) /\ Cardinality(s.jobs) <= Workers

\* What is acknowledged, or about to be, was handled.
Marked(q, p, han) == \A i \in DOMAIN q : q[i].done => <<p, q[i].offset>> \in han

Honest(s, han) ==
    /\ \A p \in Partitions : Marked(s.pending[p], p, han)
    /\ \A j \in s.jobs : j.stage = "ack" => j.record \in han
    /\ s.registered /\ Head(s.todo) \in Malformed => Head(s.todo) \in han

Ordered(todo) ==
    \A i, j \in DOMAIN todo : i < j /\ todo[i][1] = todo[j][1] => todo[i][2] < todo[j][2]

\* Records of the batch that are not registered yet.
Rest(s) == IF s.registered THEN Tail(s.todo) ELSE s.todo
Comes(s, p, o) == \E k \in DOMAIN Rest(s) : Rest(s)[k] = <<p, o>>

\* Records that some goroutine of the process is at.
InFlight(s, r) ==
    \/ \E k \in DOMAIN s.queue : s.queue[k] = r
    \/ \E j \in s.jobs : j.record = r
    \/ s.registered /\ Head(s.todo) = r

\* An unfinished entry of a healthy member is in flight, and the first entry of
\* every partition is unfinished: a finished prefix was committed.
Flying(s) ==
    Healthy(s) => \A p \in Partitions :
        /\ \A i \in DOMAIN s.pending[p] :
              ~s.pending[p][i].done => InFlight(s, <<p, s.pending[p][i].offset>>)
        /\ s.pending[p] # <<>> => ~s.pending[p][1].done

\* The entries, the rest of the batch and the fetch position follow each other
\* without a gap; e is the end of the entries.
Tracks(m, s, p, pos, own, e) ==
    LET q == s.pending[p] IN
    /\ \A i \in DOMAIN q : q[i].offset = e - Len(q) + i - 1
    /\ \A o \in Nat : Comes(s, p, o) <=> p \in DOMAIN s.next /\ e <= o /\ o < s.next[p]
    /\ p \in DOMAIN s.next => e <= s.next[p]
    /\ own[p] = m /\ q = <<>> => pos[p] = e

Tracked(m, s, p, pos, own) == Healthy(s) => \E e \in 0..NumOffsets : Tracks(m, s, p, pos, own, e)

\* The entries of a member that may still commit start at or below the position,
\* and what is below the position is done.
Lined(m, q, p, pos, own) ==
    /\ \A i \in DOMAIN q : q[i].offset = q[1].offset + i - 1
    /\ own[p] = m /\ q # <<>> =>
          /\ q[1].offset <= pos[p] /\ pos[p] <= q[1].offset + Len(q)
          /\ \A i \in DOMAIN q : q[i].offset < pos[p] => q[i].done

Positioned(m, s, p, pos, own) == Healthy(s) \/ Active(s) => Lined(m, s.pending[p], p, pos, own)

Owns(m, s, own) ==
    \A p \in Partitions : own[p] = m => p \in DOMAIN s.next /\ s.run # "stopped"

MemberInv(m, s, pos, own, han) ==
    /\ s \in MemberState
    /\ Between(s) /\ Bounded(s) /\ Honest(s, han) /\ Ordered(s.todo) /\ Flying(s)
    /\ Owns(m, s, own)
    /\ \A p \in Partitions : Tracked(m, s, p, pos, own) /\ Positioned(m, s, p, pos, own)

BrokerInv ==
    /\ position \in [Partitions -> 0..NumOffsets]
    /\ owner \in [Partitions -> Members \cup {NoMember}]
    /\ handled \subseteq Records
    /\ NothingSkipped

IInv ==
    /\ BrokerInv
    /\ member \in [Members -> MemberState]
    /\ \A m \in Members : MemberInv(m, member[m], position, owner, handled)

-----------------------------------------------------------------------------
(* The operators of the coordinator.                                       *)

\* A bounded set of numbers has a largest one.
LEMMA MaxExists ==
    ASSUME NEW N \in Nat, NEW S \in SUBSET (0..N), S # {}
    PROVE  Max(S) \in S /\ \A y \in S : Max(S) >= y
<1> DEFINE T == {N - x : x \in S}
           R == OpToRel(<, Nat)
<1>1. T \subseteq Nat /\ T # {}
  <2>1. \A x \in S : N - x \in Nat
    OBVIOUS
  <2> QED  BY <2>1, Zenon
<1>2. PICK t \in T : \A u \in T : ~(<<u, t>> \in R)
  BY <1>1, NatLessThanWellFounded, WFMin, Zenon
<1>3. \A u \in T : ~(u < t)
  BY <1>1, <1>2, Zenon DEF OpToRel
<1>4. PICK x \in S : t = N - x
  BY Zenon
<1>5. \A y \in S : x >= y
  <2> TAKE y \in S
  <2>1. N - y \in T /\ x \in 0..N /\ y \in 0..N
    BY Zenon
  <2>2. ~(N - y < N - x)
    BY <1>3, <1>4, <2>1, Zenon
  <2> QED  BY <2>1, <2>2
<1> QED  BY <1>5, Zenon DEF Max

\* CompletedPrefix is the longest finished prefix.
LEMMA PrefixFacts ==
    ASSUME NEW q \in Seq(Entry)
    PROVE  /\ CompletedPrefix(q) \in 0..Len(q)
           /\ \A i \in 1..CompletedPrefix(q) : q[i].done
           /\ CompletedPrefix(q) < Len(q) => ~q[CompletedPrefix(q) + 1].done
<1> DEFINE S == {0} \cup {n \in DOMAIN q : \A i \in 1..n : q[i].done}
           n == CompletedPrefix(q)
<1>1. S \in SUBSET (0..Len(q)) /\ S # {} /\ Len(q) \in Nat
  OBVIOUS
<1>2. n \in S /\ \A y \in S : n >= y
  BY <1>1, MaxExists, Zenon DEF CompletedPrefix
<1>3. n \in 0..Len(q) /\ \A i \in 1..n : q[i].done
  BY <1>1, <1>2
<1>4. ASSUME n < Len(q), q[n + 1].done PROVE FALSE
  <2>1. n + 1 \in DOMAIN q /\ \A i \in 1..(n + 1) : i \in 1..n \/ i = n + 1
    BY <1>3, <1>4
  <2>2. n + 1 \in S
    BY <1>3, <1>4, <2>1, Zenon
  <2> QED  BY <1>2, <1>3, <2>2
<1> QED  BY <1>3, <1>4, Zenon

\* MarkDone changes no offset and takes no mark back.
LEMMA MarkDoneFacts ==
    ASSUME NEW q \in Seq(Entry), NEW o
    PROVE  LET d == MarkDone(q, o) IN
           /\ d \in Seq(Entry) /\ Len(d) = Len(q) /\ DOMAIN d = DOMAIN q
           /\ \A i \in DOMAIN q : d[i].offset = q[i].offset /\ (d[i].done <=> q[i].done \/ q[i].offset = o)
<1> DEFINE d == MarkDone(q, o)
<1>1. \A i \in DOMAIN q : q[i] \in Entry
  OBVIOUS
<1>2. DOMAIN d = DOMAIN q /\ \A i \in DOMAIN q :
         d[i] = IF q[i].offset = o THEN [q[i] EXCEPT !.done = TRUE] ELSE q[i]
  BY Zenon DEF MarkDone
<1>3. \A i \in DOMAIN q : d[i] \in Entry
  BY <1>1, <1>2, Zenon DEF Entry
<1>4. d \in Seq(Entry) /\ Len(d) = Len(q)
  <2>1. d \in [1..Len(q) -> Entry]
    BY <1>3 DEF MarkDone
  <2> QED  BY <2>1
<1>5. \A i \in DOMAIN q : d[i].offset = q[i].offset /\ (d[i].done <=> q[i].done \/ q[i].offset = o)
  BY <1>1, <1>2, Zenon DEF Entry
<1> QED  BY <1>2, <1>4, <1>5, Zenon

\* The fields of a process.
LEMMA MemberFields ==
    ASSUME NEW s \in MemberState
    PROVE  /\ s.run \in {"polling", "batch", "stopped"}
           /\ s.fatal \in BOOLEAN /\ s.shutdown \in BOOLEAN /\ s.registered \in BOOLEAN /\ s.aborted \in BOOLEAN
           /\ s.next \in NextMaps /\ s.todo \in Seq(Records) /\ s.queue \in Seq(Records)
           /\ s.jobs \in SUBSET Job /\ s.pending \in Coordinators
           /\ \A p \in Partitions : s.pending[p] \in Seq(Entry)
           /\ DOMAIN s.next \subseteq Partitions /\ \A p \in DOMAIN s.next : s.next[p] \in 0..NumOffsets
<1>1. /\ s.run \in {"polling", "batch", "stopped"}
      /\ s.fatal \in BOOLEAN /\ s.shutdown \in BOOLEAN /\ s.registered \in BOOLEAN /\ s.aborted \in BOOLEAN
      /\ s.next \in NextMaps /\ s.todo \in Seq(Records) /\ s.queue \in Seq(Records)
      /\ s.jobs \in SUBSET Job /\ s.pending \in Coordinators
  BY Zenon DEF MemberState
<1>2. \A p \in Partitions : s.pending[p] \in Seq(Entry)
  BY <1>1, Zenon DEF Coordinators
<1>3. DOMAIN s.next \subseteq Partitions /\ \A p \in DOMAIN s.next : s.next[p] \in 0..NumOffsets
  BY <1>1, Zenon DEF NextMaps
<1> QED  BY <1>1, <1>2, <1>3, Zenon

\* A process that others leave alone.
LEMMA MemberKept ==
    ASSUME NEW m, NEW s, NEW pos, NEW own, NEW han, MemberInv(m, s, pos, own, han),
           NEW pos2, NEW own2, NEW han2, han \subseteq han2,
           \A p \in Partitions : own2[p] = m => own[p] = m /\ pos2[p] = pos[p]
    PROVE  MemberInv(m, s, pos2, own2, han2)
<1>1. Honest(s, han2)
  BY Zenon DEF MemberInv, Honest, Marked
<1>2. Owns(m, s, own2)
  BY Zenon DEF MemberInv, Owns
<1>3. \A p \in Partitions : Tracked(m, s, p, pos2, own2)
  <2> TAKE p \in Partitions
  <2> SUFFICES ASSUME Healthy(s) PROVE \E e \in 0..NumOffsets : Tracks(m, s, p, pos2, own2, e)
    BY Zenon DEF Tracked
  <2>1. PICK e \in 0..NumOffsets : Tracks(m, s, p, pos, own, e)
    BY Zenon DEF MemberInv, Tracked
  <2>2. Tracks(m, s, p, pos2, own2, e)
    BY <2>1, Zenon DEF Tracks
  <2> QED  BY <2>2, Zenon
<1>4. \A p \in Partitions : Positioned(m, s, p, pos2, own2)
  BY Zenon DEF MemberInv, Positioned, Lined
<1> QED  BY <1>1, <1>2, <1>3, <1>4, Zenon DEF MemberInv

\* A process that keeps its coordinator, its fetch positions and what is still
\* to be registered; while it is healthy nothing in flight is forgotten.
LEMMA CoordinatorKept ==
    ASSUME NEW m, NEW t, NEW s \in MemberState, NEW pos, NEW own, NEW han, NEW han2, han \subseteq han2,
           MemberInv(m, t, pos, own, han),
           s.pending = t.pending, s.next = t.next,
           Healthy(s) => Healthy(t) /\ Rest(s) = Rest(t) /\ \A r : InFlight(t, r) => InFlight(s, r),
           Healthy(s) \/ Active(s) => Healthy(t) \/ Active(t),
           Between(s), Bounded(s), Ordered(s.todo),
           \A j \in s.jobs : j.stage = "ack" => j.record \in han2,
           s.registered /\ Head(s.todo) \in Malformed => Head(s.todo) \in han2,
           s.run = "stopped" => t.run = "stopped"
    PROVE  MemberInv(m, s, pos, own, han2)
<1>1. Honest(s, han2)
  BY Zenon DEF MemberInv, Honest, Marked
<1>2. Owns(m, s, own)
  BY Zenon DEF MemberInv, Owns
<1>3. Flying(s)
  BY Zenon DEF MemberInv, Flying
<1>4. ASSUME NEW p \in Partitions PROVE Tracked(m, s, p, pos, own)
  <2> SUFFICES ASSUME Healthy(s) PROVE \E e \in 0..NumOffsets : Tracks(m, s, p, pos, own, e)
    BY Zenon DEF Tracked
  <2>1. PICK e \in 0..NumOffsets : Tracks(m, t, p, pos, own, e)
    BY Zenon DEF MemberInv, Tracked
  <2>2. \A o : Comes(s, p, o) <=> Comes(t, p, o)
    BY Zenon DEF Comes
  <2>3. Tracks(m, s, p, pos, own, e)
    BY <2>1, <2>2, Zenon DEF Tracks
  <2> QED  BY <2>3, Zenon
<1>5. ASSUME NEW p \in Partitions PROVE Positioned(m, s, p, pos, own)
  BY Zenon DEF MemberInv, Positioned
<1> QED  BY <1>1, <1>2, <1>3, <1>4, <1>5, Zenon DEF MemberInv

\* One process moves.
LEMMA MemberMoves ==
    ASSUME IInv, NEW m \in Members, NEW s, member' = [member EXCEPT ![m] = s], BrokerInv',
           MemberInv(m, s, position', owner', handled'), handled \subseteq handled',
           \A p \in Partitions : owner'[p] # m => owner'[p] = NoMember \/ (owner'[p] = owner[p] /\ position'[p] = position[p])
    PROVE  IInv'
<1>1. s \in MemberState /\ member' \in [Members -> MemberState]
  BY Zenon DEF MemberInv, IInv
<1>2. ASSUME NEW k \in Members, k # m PROVE MemberInv(k, member'[k], position', owner', handled')
  <2>1. member'[k] = member[k] /\ k # NoMember
    BY <1>2, GroupAssumption, Zenon DEF IInv
  <2>2. MemberInv(k, member[k], position, owner, handled)
    BY Zenon DEF IInv
  <2>3. \A p \in Partitions : owner'[p] = k => owner[p] = k /\ position'[p] = position[p]
    BY <1>2, <2>1, Zenon
  <2> QED  BY <2>1, <2>2, <2>3, MemberKept
<1>3. MemberInv(m, member'[m], position', owner', handled')
  BY Zenon DEF IInv
<1> QED  BY <1>1, <1>2, <1>3, Zenon DEF IInv

\* A process moves that keeps its coordinator, and the broker hears nothing of it.
LEMMA LocalStep ==
    ASSUME IInv, NEW m \in Members, NEW s \in MemberState, member' = [member EXCEPT ![m] = s],
           UNCHANGED <<position, owner>>, handled \subseteq handled', handled' \subseteq Records,
           s.pending = member[m].pending, s.next = member[m].next,
           Healthy(s) => /\ Healthy(member[m]) /\ Rest(s) = Rest(member[m])
                         /\ \A r : InFlight(member[m], r) => InFlight(s, r),
           Healthy(s) \/ Active(s) => Healthy(member[m]) \/ Active(member[m]),
           Between(s), Bounded(s), Ordered(s.todo),
           \A j \in s.jobs : j.stage = "ack" => j.record \in handled',
           s.registered /\ Head(s.todo) \in Malformed => Head(s.todo) \in handled',
           s.run = "stopped" => member[m].run = "stopped"
    PROVE  IInv'
<1>1. MemberInv(m, member[m], position, owner, handled)
  BY Zenon DEF IInv
<1>2. MemberInv(m, s, position, owner, handled')
  BY <1>1, CoordinatorKept, Zenon
<1>3. BrokerInv'
  BY Zenon DEF IInv, BrokerInv, NothingSkipped
<1> QED  BY <1>2, <1>3, MemberMoves, Zenon

\* What the invariant says of a process before it moves.
LEMMA Before ==
    ASSUME IInv, NEW m \in Members
    PROVE  /\ member[m] \in MemberState /\ member \in [Members -> MemberState]
           /\ Between(member[m]) /\ Bounded(member[m]) /\ Honest(member[m], handled)
           /\ Ordered(member[m].todo) /\ handled \subseteq Records
BY Zenon DEF IInv, MemberInv, BrokerInv

\* The rest of an ordered batch is ordered.
LEMMA OrderedTail ==
    ASSUME NEW t \in Seq(Records), t # <<>>, Ordered(t)
    PROVE  Ordered(Tail(t)) /\ Tail(t) \in Seq(Records) /\ Head(t) \in Records
<1>1. Tail(t) \in Seq(Records) /\ Head(t) \in Records /\ Len(t) \in Nat \ {0} /\ Len(Tail(t)) = Len(t) - 1
  OBVIOUS
<1>2. \A i \in DOMAIN Tail(t) : i + 1 \in DOMAIN t /\ Tail(t)[i] = t[i + 1]
  BY <1>1
<1>3. \A i, j \in DOMAIN Tail(t) : i < j => i + 1 < j + 1
  BY <1>1
<1>4. Ordered(Tail(t))
  BY <1>2, <1>3, Zenon DEF Ordered
<1> QED  BY <1>1, <1>4, Zenon

\* Submit hands the registered record over to the queue.
LEMMA SubmitKeeps ==
    ASSUME IInv, NEW m \in Members, Submit(m)
    PROVE  IInv'
<1> DEFINE t == member[m]
           s == [t EXCEPT !.queue = Append(t.queue, Head(t.todo)), !.todo = Tail(t.todo), !.registered = FALSE]
<1>1. /\ t \in MemberState /\ Between(t) /\ Bounded(t) /\ Honest(t, handled) /\ Ordered(t.todo)
      /\ handled \subseteq Records /\ member \in [Members -> MemberState]
  BY Before, Zenon
<1>2. t.registered /\ Len(t.queue) < QueueCapacity /\ UNCHANGED <<position, owner, handled>>
  BY Zenon DEF Submit, HasRoom
<1>3. t.todo \in Seq(Records) /\ t.todo # <<>> /\ t.queue \in Seq(Records) /\ t.run = "batch"
  BY <1>1, <1>2, MemberFields, Zenon DEF Between
<1>4. Ordered(Tail(t.todo)) /\ Tail(t.todo) \in Seq(Records) /\ Head(t.todo) \in Records
  BY <1>1, <1>3, OrderedTail, Zenon
<1>5. Append(t.queue, Head(t.todo)) \in Seq(Records) /\ Len(Append(t.queue, Head(t.todo))) = Len(t.queue) + 1
  BY <1>3, <1>4
<1>6. member' = [member EXCEPT ![m] = s]
  BY <1>1, Zenon DEF Submit
<1>7. /\ s \in MemberState /\ s.run = t.run /\ s.fatal = t.fatal /\ s.shutdown = t.shutdown
      /\ s.aborted = t.aborted /\ s.pending = t.pending /\ s.next = t.next /\ s.jobs = t.jobs
      /\ s.queue = Append(t.queue, Head(t.todo)) /\ s.todo = Tail(t.todo) /\ s.registered = FALSE
  BY <1>1, <1>4, <1>5, Zenon DEF MemberState
<1> HIDE DEF s
<1>8. Healthy(s) => Healthy(t)
  BY <1>7, Zenon DEF Healthy
<1>9. Rest(s) = Rest(t)
  BY <1>2, <1>7, Zenon DEF Rest
<1>10. \A r : InFlight(t, r) => InFlight(s, r)
  <2>1. \A k \in DOMAIN t.queue : k \in DOMAIN s.queue /\ s.queue[k] = t.queue[k]
    BY <1>3, <1>4, <1>7
  <2>2. Len(s.queue) \in DOMAIN s.queue /\ s.queue[Len(s.queue)] = Head(t.todo)
    BY <1>3, <1>4, <1>7
  <2> QED  BY <1>7, <2>1, <2>2, Zenon DEF InFlight
<1>11. Between(s)
  BY <1>1, <1>3, <1>7, Zenon DEF Between
<1>12. Bounded(s)
  <2>1. Len(t.queue) \in Nat /\ QueueCapacity \in Nat
    BY <1>3, GroupAssumption
  <2> QED  BY <1>1, <1>2, <1>5, <1>7, <2>1 DEF Bounded
<1>13. Active(t) /\ \A j \in s.jobs : j.stage = "ack" => j.record \in handled'
  BY <1>1, <1>2, <1>7, Zenon DEF Active, Honest
<1> QED  BY <1>1, <1>2, <1>4, <1>6, <1>7, <1>8, <1>9, <1>10, <1>11, <1>12, <1>13, <1>3, LocalStep, Zenon

\* SubmitStops drops the rest of the batch: the member is not healthy any more.
LEMMA SubmitStopsKeeps ==
    ASSUME IInv, NEW m \in Members, SubmitStops(m)
    PROVE  IInv'
<1> DEFINE t == member[m]
           s == [t EXCEPT !.aborted = t.fatal, !.todo = <<>>, !.registered = FALSE]
<1>1. /\ t \in MemberState /\ Between(t) /\ Bounded(t) /\ Honest(t, handled) /\ handled \subseteq Records
      /\ member \in [Members -> MemberState]
  BY Before, Zenon
<1>2. t.todo # <<>> /\ (t.fatal \/ t.shutdown) /\ UNCHANGED <<position, owner, handled>>
  BY Zenon DEF SubmitStops, RunContextDone
<1>3. t.run = "batch" /\ t.fatal \in BOOLEAN /\ <<>> \in Seq(Records)
  BY <1>1, <1>2, MemberFields DEF Between
<1>4. member' = [member EXCEPT ![m] = s]
  BY <1>1, Zenon DEF SubmitStops, Leaving
<1>5. /\ s \in MemberState /\ s.run = t.run /\ s.fatal = t.fatal /\ s.shutdown = t.shutdown
      /\ s.aborted = t.fatal /\ s.pending = t.pending /\ s.next = t.next /\ s.jobs = t.jobs
      /\ s.queue = t.queue /\ s.todo = <<>> /\ s.registered = FALSE
  BY <1>1, <1>3, Zenon DEF MemberState
<1> HIDE DEF s
<1>6. ~Healthy(s) /\ (Active(s) => Active(t))
  BY <1>2, <1>5, Zenon DEF Healthy, Active
<1>7. Between(s) /\ Bounded(s) /\ Ordered(s.todo)
  BY <1>1, <1>3, <1>5 DEF Between, Bounded, Ordered
<1>8. \A j \in s.jobs : j.stage = "ack" => j.record \in handled'
  BY <1>1, <1>2, <1>5, Zenon DEF Honest
<1> QED  BY <1>1, <1>2, <1>3, <1>4, <1>5, <1>6, <1>7, <1>8, LocalStep, Zenon

\* BatchEnds, PollFails and Shutdown change a flag between two records.
LEMMA FlagKeeps ==
    ASSUME IInv, NEW m \in Members, BatchEnds(m) \/ PollFails(m) \/ Shutdown(m)
    PROVE  IInv'
<1> DEFINE t == member[m]
<1>1. /\ t \in MemberState /\ Between(t) /\ Bounded(t) /\ Honest(t, handled) /\ Ordered(t.todo)
      /\ handled \subseteq Records /\ member \in [Members -> MemberState]
  BY Before, Zenon
<1>2. UNCHANGED <<position, owner, handled>>
  BY Zenon DEF BatchEnds, PollFails, Shutdown
<1>3. PICK run \in {"polling", "batch", "stopped"}, shutdown \in BOOLEAN, aborted \in BOOLEAN :
         /\ member' = [member EXCEPT ![m] = [t EXCEPT !.run = run, !.shutdown = shutdown, !.aborted = aborted]]
         /\ run = "stopped" => t.run = "stopped"
         /\ ~shutdown => ~t.shutdown
         /\ ~aborted => ~t.aborted
         /\ run # "batch" => t.todo = <<>> /\ t.queue = <<>> /\ t.jobs = {} /\ ~aborted
         /\ aborted => t.todo = <<>>
  <2>1. CASE BatchEnds(m)
    <3>1. /\ member' = [member EXCEPT ![m] = [t EXCEPT !.run = "polling"]] /\ ~t.aborted
          /\ t.todo = <<>> /\ t.queue = <<>> /\ t.jobs = {} /\ t.run = "batch"
      BY <1>1, <2>1, Zenon DEF BatchEnds, BatchDone
    <3>2. [t EXCEPT !.run = "polling"] = [t EXCEPT !.run = "polling", !.shutdown = t.shutdown, !.aborted = t.aborted]
      BY <1>1, Zenon DEF MemberState
    <3>3. t.shutdown \in BOOLEAN /\ t.aborted \in BOOLEAN
      BY <1>1, MemberFields, Zenon
    <3> QED  BY <3>1, <3>2, <3>3, Zenon
  <2>2. CASE PollFails(m)
    <3>1. member' = [member EXCEPT ![m] = [t EXCEPT !.run = "batch", !.aborted = TRUE]] /\ t.run = "polling"
      BY <1>1, <2>2, Zenon DEF PollFails
    <3>2. [t EXCEPT !.run = "batch", !.aborted = TRUE] = [t EXCEPT !.run = "batch", !.shutdown = t.shutdown, !.aborted = TRUE]
      BY <1>1, Zenon DEF MemberState
    <3>3. t.shutdown \in BOOLEAN /\ t.todo = <<>>
      BY <1>1, <3>1, MemberFields, Zenon DEF Between
    <3> QED  BY <3>1, <3>2, <3>3, Zenon
  <2>3. CASE Shutdown(m)
    <3>1. member' = [member EXCEPT ![m] = [t EXCEPT !.shutdown = TRUE]] /\ t.run # "stopped"
      BY <1>1, <2>3, Zenon DEF Shutdown
    <3>2. [t EXCEPT !.shutdown = TRUE] = [t EXCEPT !.run = t.run, !.shutdown = TRUE, !.aborted = t.aborted]
      BY <1>1, Zenon DEF MemberState
    <3>3. t.aborted \in BOOLEAN /\ t.run \in {"polling", "batch", "stopped"} /\ Between(t)
      BY <1>1, MemberFields, Zenon
    <3> QED  BY <3>1, <3>2, <3>3, Zenon DEF Between
  <2> QED  BY <2>1, <2>2, <2>3, Zenon
<1> DEFINE s == [t EXCEPT !.run = run, !.shutdown = shutdown, !.aborted = aborted]
<1>4. /\ s \in MemberState /\ s.run = run /\ s.fatal = t.fatal /\ s.shutdown = shutdown
      /\ s.aborted = aborted /\ s.pending = t.pending /\ s.next = t.next /\ s.jobs = t.jobs
      /\ s.queue = t.queue /\ s.todo = t.todo /\ s.registered = t.registered
  BY <1>1, Zenon DEF MemberState
<1> HIDE DEF s
<1>5. member' = [member EXCEPT ![m] = s]
  BY <1>3, Zenon DEF s
<1>6. (Healthy(s) => Healthy(t)) /\ (Active(s) => Active(t)) /\ Rest(s) = Rest(t) /\ \A r : InFlight(t, r) => InFlight(s, r)
  BY <1>3, <1>4, Zenon DEF Healthy, Active, Rest, InFlight
<1>7. Between(s)
  BY <1>1, <1>3, <1>4, Zenon DEF Between
<1>8. Bounded(s) /\ Ordered(s.todo) /\ Honest(s, handled)
  BY <1>1, <1>4, Zenon DEF Bounded, Honest
<1>9. /\ \A j \in s.jobs : j.stage = "ack" => j.record \in handled'
      /\ s.registered /\ Head(s.todo) \in Malformed => Head(s.todo) \in handled'
  BY <1>2, <1>8, Zenon DEF Honest
<1> QED  BY <1>1, <1>2, <1>3, <1>4, <1>5, <1>6, <1>7, <1>8, <1>9, LocalStep, Zenon

\* A worker takes the first job of the queue.
LEMMA TakeKeeps ==
    ASSUME IInv, NEW m \in Members, Take(m)
    PROVE  IInv'
<1> DEFINE t == member[m]
           j == [record |-> Head(t.queue), stage |-> "process", attempt |-> 1]
           s == [t EXCEPT !.jobs = t.jobs \cup {j}, !.queue = Tail(t.queue)]
<1>1. /\ t \in MemberState /\ Between(t) /\ Bounded(t) /\ Honest(t, handled) /\ Ordered(t.todo)
      /\ handled \subseteq Records /\ member \in [Members -> MemberState]
  BY Before, Zenon
<1>2. t.queue # <<>> /\ Cardinality(t.jobs) < Workers /\ UNCHANGED <<position, owner, handled>>
  BY Zenon DEF Take
<1>3. t.queue \in Seq(Records) /\ t.jobs \in SUBSET Job
  BY <1>1, MemberFields, Zenon
<1>4. /\ Head(t.queue) \in Records /\ Tail(t.queue) \in Seq(Records) /\ Len(Tail(t.queue)) = Len(t.queue) - 1
      /\ \A k \in DOMAIN t.queue : k = 1 \/ (k - 1 \in DOMAIN Tail(t.queue) /\ Tail(t.queue)[k - 1] = t.queue[k])
      /\ Head(t.queue) = t.queue[1] /\ Len(t.queue) \in Nat
  BY <1>2, <1>3
<1>5. j \in Job /\ j.record = Head(t.queue) /\ j.stage = "process"
  BY <1>4, GroupAssumption DEF Job
<1> HIDE DEF j
<1>6. t.jobs \cup {j} \in SUBSET Job
  BY <1>3, <1>5, Zenon
<1>7. member' = [member EXCEPT ![m] = s]
  BY <1>1, Zenon DEF Take, j
<1>8. /\ s \in MemberState /\ s.run = t.run /\ s.fatal = t.fatal /\ s.shutdown = t.shutdown
      /\ s.aborted = t.aborted /\ s.pending = t.pending /\ s.next = t.next /\ s.jobs = t.jobs \cup {j}
      /\ s.queue = Tail(t.queue) /\ s.todo = t.todo /\ s.registered = t.registered
  BY <1>1, <1>4, <1>6, Zenon DEF MemberState
<1> HIDE DEF s
<1>9. (Healthy(s) => Healthy(t)) /\ Active(t) /\ Rest(s) = Rest(t)
  BY <1>2, <1>8, Zenon DEF Healthy, Active, Rest
<1>10. \A r : InFlight(t, r) => InFlight(s, r)
  <2>1. j \in s.jobs /\ \A i \in t.jobs : i \in s.jobs
    BY <1>8, Zenon
  <2> QED  BY <1>4, <1>5, <1>8, <2>1, Zenon DEF InFlight
<1>11. Between(s)
  BY <1>1, <1>2, <1>8, Zenon DEF Between
<1>12. Bounded(s)
  <2>1. IsFiniteSet(s.jobs) /\ Cardinality(s.jobs) <= Cardinality(t.jobs) + 1 /\ Cardinality(t.jobs) \in Nat
    <3>1. IsFiniteSet(t.jobs) /\ Cardinality(t.jobs) \in Nat
      BY <1>1, FS_CardinalityType, Zenon DEF Bounded
    <3>2. /\ IsFiniteSet(t.jobs \cup {j})
          /\ Cardinality(t.jobs \cup {j}) = IF j \in t.jobs THEN Cardinality(t.jobs) ELSE Cardinality(t.jobs) + 1
      BY <3>1, FS_AddElement, Zenon
    <3> QED  BY <1>8, <3>1, <3>2
  <2>2. Cardinality(s.jobs) \in Nat
    BY <2>1, FS_CardinalityType, Zenon
  <2> QED  BY <1>1, <1>2, <1>4, <1>8, <2>1, <2>2, GroupAssumption DEF Bounded
<1>13. \A i \in s.jobs : i.stage = "ack" => i.record \in handled'
  BY <1>1, <1>2, <1>5, <1>8, Zenon DEF Honest
<1>14. s.registered /\ Head(s.todo) \in Malformed => Head(s.todo) \in handled'
  BY <1>1, <1>2, <1>8, Zenon DEF Honest
<1> QED  BY <1>1, <1>2, <1>7, <1>8, <1>9, <1>10, <1>11, <1>12, <1>13, <1>14, LocalStep, Zenon

\* A worker goes on with its job, to which the record belongs that is handled.
LEMMA JobMoves ==
    ASSUME IInv, NEW m \in Members, NEW j \in member[m].jobs, NEW k \in Job, k.record = j.record,
           member' = JobStep(m, j, k), UNCHANGED <<position, owner>>,
           handled' \in {handled, handled \cup {j.record}}, k.stage = "ack" => j.record \in handled'
    PROVE  IInv'
<1> DEFINE t == member[m]
           s == [t EXCEPT !.jobs = (t.jobs \ {j}) \cup {k}]
<1>1. /\ t \in MemberState /\ Between(t) /\ Bounded(t) /\ Honest(t, handled) /\ Ordered(t.todo)
      /\ handled \subseteq Records /\ member \in [Members -> MemberState]
  BY Before, Zenon
<1>2. t.jobs \in SUBSET Job /\ j \in Job /\ (t.jobs \ {j}) \cup {k} \in SUBSET Job
  BY <1>1, MemberFields, Zenon
<1>3. handled \subseteq handled' /\ handled' \subseteq Records
  BY <1>1, <1>2, Zenon DEF Job
<1>4. member' = [member EXCEPT ![m] = s]
  BY <1>1, Zenon DEF JobStep
<1>5. /\ s \in MemberState /\ s.run = t.run /\ s.fatal = t.fatal /\ s.shutdown = t.shutdown
      /\ s.aborted = t.aborted /\ s.pending = t.pending /\ s.next = t.next /\ s.jobs = (t.jobs \ {j}) \cup {k}
      /\ s.queue = t.queue /\ s.todo = t.todo /\ s.registered = t.registered
  BY <1>1, <1>2, Zenon DEF MemberState
<1> HIDE DEF s
<1>6. (Healthy(s) => Healthy(t)) /\ Active(t) /\ Rest(s) = Rest(t)
  BY <1>5, Zenon DEF Healthy, Active, Rest
<1>7. \A r : InFlight(t, r) => InFlight(s, r)
  BY <1>5, Zenon DEF InFlight
<1>8. Between(s)
  BY <1>1, <1>5, Zenon DEF Between
<1>9. Bounded(s)
  <2>1. /\ IsFiniteSet(t.jobs \ {j}) /\ Cardinality(t.jobs \ {j}) = Cardinality(t.jobs) - 1
        /\ Cardinality(t.jobs) \in Nat
    BY <1>1, FS_RemoveElement, FS_CardinalityType, Zenon DEF Bounded
  <2>2. IsFiniteSet(s.jobs) /\ Cardinality(s.jobs) <= Cardinality(t.jobs \ {j}) + 1
    BY <1>5, <2>1, FS_AddElement
  <2>3. Cardinality(s.jobs) \in Nat
    BY <2>2, FS_CardinalityType, Zenon
  <2> QED  BY <1>1, <1>5, <2>1, <2>2, <2>3, GroupAssumption DEF Bounded
<1>10. \A i \in s.jobs : i.stage = "ack" => i.record \in handled'
  BY <1>1, <1>3, <1>5, Zenon DEF Honest
<1>11. s.registered /\ Head(s.todo) \in Malformed => Head(s.todo) \in handled'
  BY <1>1, <1>3, <1>5, Zenon DEF Honest
<1> QED  BY <1>1, <1>3, <1>4, <1>5, <1>6, <1>7, <1>8, <1>9, <1>10, <1>11, LocalStep, Zenon

\* Process and DeadLetter: a job comes to its acknowledgement only with a record
\* that was processed or dead-lettered.
LEMMA WorkKeeps ==
    ASSUME IInv, NEW m \in Members, NEW j \in member[m].jobs, Process(m, j) \/ DeadLetter(m, j)
    PROVE  IInv'
<1>1. j \in Job
  BY Before, MemberFields, Zenon
<1>2. UNCHANGED <<position, owner>>
  BY Zenon DEF Process, DeadLetter
<1>3. PICK k \in Job :
         /\ k.record = j.record /\ member' = JobStep(m, j, k)
         /\ handled' \in {handled, handled \cup {j.record}}
         /\ k.stage = "ack" => j.record \in handled'
  <2>1. CASE \/ Process(m, j) /\ member' = JobStep(m, j, [j EXCEPT !.stage = "ack"]) /\ handled' = handled \cup {j.record}
             \/ DeadLetter(m, j)
    <3>1. [j EXCEPT !.stage = "ack"] \in Job /\ [j EXCEPT !.stage = "ack"].record = j.record
      BY <1>1, Zenon DEF Job
    <3> QED  BY <2>1, <3>1, Zenon DEF DeadLetter
  <2>2. CASE /\ j.attempt < MaxAttempts /\ j.stage = "process"
             /\ member' = JobStep(m, j, [j EXCEPT !.attempt = @ + 1]) /\ handled' = handled
    <3>1. /\ [j EXCEPT !.attempt = @ + 1] \in Job /\ [j EXCEPT !.attempt = @ + 1].record = j.record
          /\ [j EXCEPT !.attempt = @ + 1].stage = "process"
      BY <1>1, <2>2, GroupAssumption DEF Job
    <3> QED  BY <2>2, <3>1, Zenon
  <2>3. CASE member' = JobStep(m, j, [j EXCEPT !.stage = "dlq"]) /\ handled' = handled
    <3>1. /\ [j EXCEPT !.stage = "dlq"] \in Job /\ [j EXCEPT !.stage = "dlq"].record = j.record
          /\ [j EXCEPT !.stage = "dlq"].stage = "dlq"
      BY <1>1, Zenon DEF Job
    <3> QED  BY <2>3, <3>1, Zenon
  <2> QED  BY <2>1, <2>2, <2>3, Zenon DEF Process
<1> QED  BY <1>2, <1>3, JobMoves, Zenon

\* A failed dead letter: the worker is done with the record and the member with
\* its session.
LEMMA DeadLetterFailsKeeps ==
    ASSUME IInv, NEW m \in Members, NEW j \in member[m].jobs, DeadLetterFails(m, j)
    PROVE  IInv'
<1> DEFINE t == member[m]
           s == [t EXCEPT !.jobs = t.jobs \ {j}, !.fatal = TRUE]
<1>1. /\ t \in MemberState /\ Between(t) /\ Bounded(t) /\ Honest(t, handled) /\ Ordered(t.todo)
      /\ handled \subseteq Records /\ member \in [Members -> MemberState]
  BY Before, Zenon
<1>2. t.jobs \ {j} \in SUBSET Job /\ UNCHANGED <<position, owner, handled>>
  BY <1>1, MemberFields, Zenon DEF DeadLetterFails
<1>3. member' = [member EXCEPT ![m] = s]
  BY <1>1, Zenon DEF DeadLetterFails, Nacks, Failing, JobEnds
<1>4. /\ s \in MemberState /\ s.run = t.run /\ s.fatal = TRUE /\ s.shutdown = t.shutdown
      /\ s.aborted = t.aborted /\ s.pending = t.pending /\ s.next = t.next /\ s.jobs = t.jobs \ {j}
      /\ s.queue = t.queue /\ s.todo = t.todo /\ s.registered = t.registered
  BY <1>1, <1>2, Zenon DEF MemberState
<1> HIDE DEF s
<1>5. ~Healthy(s) /\ Active(t)
  BY <1>4, Zenon DEF Healthy, Active
<1>6. Between(s)
  BY <1>1, <1>4, Zenon DEF Between
<1>7. Bounded(s)
  <2>1. IsFiniteSet(t.jobs) /\ Cardinality(t.jobs) \in Nat
    BY <1>1, FS_CardinalityType, Zenon DEF Bounded
  <2>2. IsFiniteSet(s.jobs) /\ Cardinality(s.jobs) = Cardinality(t.jobs) - 1
    BY <1>4, <2>1, FS_RemoveElement
  <2> QED  BY <1>1, <1>4, <2>1, <2>2, GroupAssumption DEF Bounded
<1>8. /\ \A i \in s.jobs : i.stage = "ack" => i.record \in handled'
      /\ s.registered /\ Head(s.todo) \in Malformed => Head(s.todo) \in handled'
  BY <1>1, <1>2, <1>4, Zenon DEF Honest
<1> QED  BY <1>1, <1>2, <1>3, <1>4, <1>5, <1>6, <1>7, <1>8, LocalStep, Zenon

\* The next record of a healthy member continues its entries.
AtNext(m, t, pos, own, e) ==
    /\ t \in MemberState /\ ~t.registered /\ t.todo # <<>> /\ Ordered(t.todo) /\ e \in 0..NumOffsets
    /\ Tracks(m, t, Head(t.todo)[1], pos, own, e)

NextIs(t, p, e) ==
    /\ Head(t.todo) = <<p, e>> /\ p \in DOMAIN t.next /\ e < t.next[p] /\ e \in Offsets
    /\ \A k \in Partitions, o \in Nat :
          (\E i \in DOMAIN Tail(t.todo) : Tail(t.todo)[i] = <<k, o>>) <=> Comes(t, k, o) /\ <<k, o>> # <<p, e>>

\* The next record of the batch is the next offset of its partition.
LEMMA NextInOrder ==
    ASSUME NEW m, NEW t, NEW pos, NEW own, NEW e, AtNext(m, t, pos, own, e)
    PROVE  NextIs(t, Head(t.todo)[1], e)
<1> DEFINE r == Head(t.todo)
<1>0. t \in MemberState /\ e \in 0..NumOffsets /\ ~t.registered /\ Ordered(t.todo) /\ Tracks(m, t, r[1], pos, own, e)
  BY Zenon DEF AtNext
<1>1. t.todo \in Seq(Records) /\ r = t.todo[1] /\ 1 \in DOMAIN t.todo /\ Len(t.todo) \in Nat /\ DOMAIN t.todo = 1..Len(t.todo)
  BY <1>0, MemberFields DEF AtNext
<1>2. r \in Records /\ r[1] \in Partitions /\ r[2] \in Nat /\ r = <<r[1], r[2]>>
  BY <1>1, GroupAssumption DEF Records, Offsets
<1>3. \A p, o : Comes(t, p, o) <=> \E k \in DOMAIN t.todo : t.todo[k] = <<p, o>>
  BY <1>0, Zenon DEF Comes, Rest
<1>4. r[1] \in DOMAIN t.next /\ e <= r[2] /\ r[2] < t.next[r[1]]
  BY <1>0, <1>1, <1>2, <1>3, Zenon DEF Tracks
<1>5. r[2] = e
  <2>0. e \in Nat /\ NumOffsets \in Nat /\ t.next[r[1]] \in Nat
    BY <1>0, <1>4, MemberFields, GroupAssumption
  <2>1. e < t.next[r[1]]
    BY <1>2, <1>4, <2>0
  <2>2. Comes(t, r[1], e)
    BY <1>0, <1>4, <2>0, <2>1 DEF Tracks
  <2>3. PICK k \in DOMAIN t.todo : t.todo[k] = <<r[1], e>>
    BY <1>3, <2>2, Zenon
  <2>4. CASE k = 1
    BY <1>1, <1>2, <2>3, <2>4
  <2>5. CASE k # 1
    <3>1. 1 < k /\ t.todo[1][1] = t.todo[k][1]
      BY <1>1, <2>3, <2>5
    <3>2. t.todo[1][2] < t.todo[k][2]
      BY <1>1, <3>1, <1>0, Zenon DEF Ordered
    <3> QED  BY <1>1, <1>2, <1>4, <2>0, <2>3, <3>2
  <2> QED  BY <2>4, <2>5, Zenon
<1>6. /\ \A k \in DOMAIN Tail(t.todo) : k + 1 \in DOMAIN t.todo \ {1} /\ Tail(t.todo)[k] = t.todo[k + 1]
      /\ \A k \in DOMAIN t.todo \ {1} : k - 1 \in DOMAIN Tail(t.todo) /\ Tail(t.todo)[k - 1] = t.todo[k]
  <2>1. Len(Tail(t.todo)) = Len(t.todo) - 1 /\ DOMAIN Tail(t.todo) = 1..(Len(t.todo) - 1)
    BY <1>1
  <2>2. \A k \in 1..(Len(t.todo) - 1) : Tail(t.todo)[k] = t.todo[k + 1] /\ k + 1 \in 1..Len(t.todo) /\ k + 1 # 1
    BY <1>1
  <2>3. \A k \in 1..Len(t.todo) : k # 1 => k - 1 \in 1..(Len(t.todo) - 1) /\ (k - 1) + 1 = k
    BY <1>1
  <2>4. \A k \in DOMAIN t.todo \ {1} : k - 1 \in DOMAIN Tail(t.todo) /\ Tail(t.todo)[k - 1] = t.todo[k]
    BY <1>1, <2>1, <2>2, <2>3, Zenon
  <2> QED  BY <1>1, <2>1, <2>2, <2>4, Zenon
<1>7. \A k \in DOMAIN t.todo \ {1} : t.todo[k] # r
  <2> SUFFICES ASSUME NEW k \in DOMAIN t.todo \ {1}, t.todo[k] = r PROVE FALSE
    BY Zenon
  <2>1. 1 < k /\ t.todo[1][1] = t.todo[k][1]
    BY <1>1
  <2>2. t.todo[1][2] < t.todo[k][2]
    BY <1>1, <2>1, <1>0, Zenon DEF Ordered
  <2> QED  BY <1>1, <1>2, <2>2
<1>8. ASSUME NEW p \in Partitions, NEW o \in Nat
      PROVE  (\E k \in DOMAIN Tail(t.todo) : Tail(t.todo)[k] = <<p, o>>) <=> Comes(t, p, o) /\ <<p, o>> # r
  <2>1. ASSUME NEW k \in DOMAIN Tail(t.todo), Tail(t.todo)[k] = <<p, o>> PROVE Comes(t, p, o) /\ <<p, o>> # r
    <3>1. k + 1 \in DOMAIN t.todo \ {1} /\ t.todo[k + 1] = <<p, o>>
      BY <1>6, <2>1, Zenon
    <3> QED  BY <1>3, <1>7, <3>1, Zenon
  <2>2. ASSUME Comes(t, p, o), <<p, o>> # r PROVE \E k \in DOMAIN Tail(t.todo) : Tail(t.todo)[k] = <<p, o>>
    <3>1. PICK k \in DOMAIN t.todo : t.todo[k] = <<p, o>>
      BY <1>3, <2>2, Zenon
    <3>2. k # 1
      BY <1>1, <2>2, <3>1, Zenon
    <3> QED  BY <1>6, <3>1, <3>2, Zenon
  <2> QED  BY <2>1, <2>2, Zenon
<1>9. r = <<r[1], e>> /\ e \in Offsets
  BY <1>0, <1>2, <1>4, <1>5, MemberFields, GroupAssumption DEF Offsets
<1> QED  BY <1>4, <1>5, <1>8, <1>9, Zenon DEF NextIs

\* The entries after the next record is registered.
Fresh(e) == [offset |-> e, done |-> FALSE]

Extended(d, q, e) ==
    /\ d \in Seq(Entry) /\ Len(d) = Len(q) + 1 /\ DOMAIN d = DOMAIN q \cup {Len(d)} /\ d # <<>>
    /\ DOMAIN d = 1..Len(d) /\ Len(q) \in Nat /\ DOMAIN q = 1..Len(q)
    /\ \A i \in DOMAIN q : d[i] = q[i] /\ i # Len(d)
    /\ d[Len(d)].offset = e /\ d[Len(d)].done = FALSE

\* Register appends one unfinished entry.
LEMMA AppendedEntries ==
    ASSUME NEW q \in Seq(Entry), NEW e \in Offsets
    PROVE  Extended(Append(q, Fresh(e)), q, e)
<1> DEFINE x == Fresh(e)
<1>1. x \in Entry /\ x.offset = e /\ x.done = FALSE
  BY Zenon DEF Entry, Fresh
<1> HIDE DEF x
<1> DEFINE d == Append(q, x)
<1>2. /\ d \in Seq(Entry) /\ Len(d) = Len(q) + 1 /\ DOMAIN d = 1..Len(d) /\ d[Len(d)] = x
      /\ \A i \in DOMAIN q : d[i] = q[i]
      /\ Len(q) \in Nat /\ DOMAIN q = 1..Len(q)
  BY <1>1
<1> HIDE DEF d
<1>3. DOMAIN d = DOMAIN q \cup {Len(d)} /\ \A i \in DOMAIN q : i # Len(d)
  BY <1>2
<1>4. d # <<>>
  BY <1>2
<1> QED  BY <1>1, <1>2, <1>3, <1>4, Zenon DEF Extended, d, x

\* Registering the next record keeps the entries and the position in step, and
\* nothing new counts as done.
LEMMA RegisteredEntries ==
    ASSUME NEW m, NEW t, NEW pos \in [Partitions -> 0..NumOffsets], NEW own, NEW han, NEW e, NEW p \in Partitions,
           NextIs(t, p, e), Tracks(m, t, p, pos, own, e), Lined(m, t.pending[p], p, pos, own),
           Marked(t.pending[p], p, han), t.pending[p] \in Seq(Entry)
    PROVE  LET d == Registered(t.pending[p], e) IN
           Extended(d, t.pending[p], e) /\ Marked(d, p, han) /\ Lined(m, d, p, pos, own)
<1> DEFINE q == t.pending[p]
           d == Append(q, Fresh(e))
<1>1. q \in Seq(Entry) /\ pos[p] \in Nat /\ Lined(m, q, p, pos, own) /\ Marked(q, p, han)
  BY GroupAssumption
<1>4. e \in Offsets /\ e \in Nat
  BY GroupAssumption DEF Offsets, NextIs
<1>5. \A i \in DOMAIN q : q[i].offset = e - Len(q) + i - 1
  BY Zenon DEF Tracks
<1>6. own[p] = m /\ q = <<>> => pos[p] = e
  BY Zenon DEF Tracks
<1> HIDE DEF q
<1>7. Extended(d, q, e)
  BY <1>1, <1>4, AppendedEntries, Zenon
<1>8. Registered(q, e) = d
  <2>1. ~(\E i \in DOMAIN q : q[i].offset = e)
    <3>1. Len(q) \in Nat /\ DOMAIN q = 1..Len(q)
      BY <1>7, Zenon DEF Extended
    <3> QED  BY <1>4, <1>5, <3>1
  <2> QED  BY <2>1, Zenon DEF Registered, Fresh
<1> HIDE DEF d
<1>9. Marked(d, p, han)
  BY <1>1, <1>7, Zenon DEF Marked, Extended
<1>10. /\ Len(q) \in Nat /\ Len(d) = Len(q) + 1 /\ DOMAIN q = 1..Len(q) /\ DOMAIN d = 1..(Len(q) + 1)
       /\ (q # <<>> => 1 \in DOMAIN q)
  BY <1>1, <1>7 DEF Extended
<1>11. \A i \in DOMAIN d : d[i].offset = e - Len(q) + i - 1
  <2>1. \A i \in DOMAIN q : d[i].offset = e - Len(q) + i - 1
    BY <1>5, <1>7, Zenon DEF Extended
  <2>2. d[Len(q) + 1].offset = e - Len(q) + (Len(q) + 1) - 1
    BY <1>4, <1>7, <1>10 DEF Extended
  <2>3. \A i \in DOMAIN d : i \in DOMAIN q \/ i = Len(q) + 1
    BY <1>10
  <2> QED  BY <2>1, <2>2, <2>3, Zenon
<1>12. d[1].offset = e - Len(q) /\ 1 \in DOMAIN d
  BY <1>4, <1>10, <1>11
<1>13. \A i \in DOMAIN d : d[i].offset = d[1].offset + i - 1
  BY <1>4, <1>10, <1>11, <1>12, Zenon
<1>14. ASSUME own[p] = m
       PROVE  /\ d[1].offset <= pos[p] /\ pos[p] <= d[1].offset + Len(d)
              /\ \A i \in DOMAIN d : d[i].offset < pos[p] => d[i].done
  <2>1. CASE q = <<>>
    <3>1. pos[p] = e /\ Len(q) = 0
      BY <1>6, <1>14, <2>1, Zenon
    <3>2. \A i \in DOMAIN d : ~(d[i].offset < pos[p])
      BY <1>4, <1>11, <1>10, <3>1
    <3> QED  BY <1>4, <1>10, <1>12, <3>1, <3>2
  <2>2. CASE q # <<>>
    <3>1. /\ q[1].offset <= pos[p] /\ pos[p] <= q[1].offset + Len(q)
          /\ \A i \in DOMAIN q : q[i].offset < pos[p] => q[i].done
      BY <1>1, <1>14, <2>2, Zenon DEF Lined
    <3>2. q[1].offset = e - Len(q)
      BY <1>4, <1>5, <1>10, <2>2
    <3>3. d[1].offset <= pos[p] /\ pos[p] <= d[1].offset + Len(d) /\ ~(e < pos[p])
      BY <1>1, <1>4, <1>10, <1>12, <3>1, <3>2
    <3>4. \A i \in DOMAIN d : d[i].offset < pos[p] => d[i].done
      BY <1>7, <3>1, <3>3, Zenon DEF Extended
    <3> QED  BY <3>3, <3>4, Zenon
  <2> QED  BY <2>1, <2>2, Zenon
<1>15. Lined(m, d, p, pos, own)
  BY <1>13, <1>14, Zenon DEF Lined
<1> QED  BY <1>7, <1>8, <1>9, <1>15, Zenon DEF q

\* What the invariant says of a healthy process before its next record.
LEMMA BeforeNext ==
    ASSUME NEW m, NEW t, NEW pos, NEW own, NEW han, MemberInv(m, t, pos, own, han),
           Healthy(t), ~t.registered, t.todo # <<>>
    PROVE  \E p \in Partitions, e \in Offsets :
              NextIs(t, p, e) /\ Tracks(m, t, p, pos, own, e) /\ Lined(m, t.pending[p], p, pos, own)
<1>1. t \in MemberState /\ Ordered(t.todo) /\ t.todo \in Seq(Records)
  BY MemberFields, Zenon DEF MemberInv
<1>2. PICK p \in Partitions : p = Head(t.todo)[1]
  BY <1>1, OrderedTail, Zenon DEF Records
<1>3. PICK e \in 0..NumOffsets : Tracks(m, t, p, pos, own, e)
  BY Zenon DEF MemberInv, Tracked
<1>4. AtNext(m, t, pos, own, e)
  BY <1>1, <1>2, <1>3, Zenon DEF AtNext
<1>5. NextIs(t, p, e)
  BY <1>2, <1>4, NextInOrder, Zenon
<1>6. e \in Offsets
  BY <1>5, Zenon DEF NextIs
<1>7. Lined(m, t.pending[p], p, pos, own)
  BY Zenon DEF MemberInv, Positioned
<1> QED  BY <1>3, <1>5, <1>6, <1>7, Zenon

\* A process that has registered its next record and waits with it.
LEMMA RegisteredKeeps ==
    ASSUME NEW m, NEW t, NEW pos \in [Partitions -> 0..NumOffsets], NEW own, NEW han, MemberInv(m, t, pos, own, han),
           Healthy(t), ~t.registered, NEW p \in Partitions, NEW e \in Offsets,
           NextIs(t, p, e), Tracks(m, t, p, pos, own, e),
           NEW han2, han \subseteq han2, Head(t.todo) \in Malformed => Head(t.todo) \in han2,
           NEW s \in MemberState, s.run = t.run, s.fatal = t.fatal, s.shutdown = t.shutdown, s.aborted = t.aborted,
           s.next = t.next, s.todo = t.todo, s.registered = TRUE, s.queue = t.queue, s.jobs = t.jobs, t.todo # <<>>,
           NEW d, Extended(d, t.pending[p], e), Marked(d, p, han), Lined(m, d, p, pos, own),
           s.pending = [t.pending EXCEPT ![p] = d]
    PROVE  MemberInv(m, s, pos, own, han2)
<1> DEFINE q == t.pending[p]
<1>1. /\ t \in MemberState /\ Between(t) /\ Bounded(t) /\ Ordered(t.todo) /\ Honest(t, han) /\ Flying(t)
      /\ Owns(m, t, own) /\ t.pending \in Coordinators /\ t.next[p] \in 0..NumOffsets
  BY MemberFields, Zenon DEF MemberInv, NextIs
<1>2. s.pending[p] = d /\ \A k \in Partitions \ {p} : s.pending[k] = t.pending[k]
  BY <1>1, Zenon DEF Coordinators
<1>3. \A k \in Partitions, o \in Nat : Comes(s, k, o) <=> Comes(t, k, o) /\ <<k, o>> # <<p, e>>
  <2>1. Rest(s) = Tail(t.todo)
    BY Zenon DEF Rest
  <2>2. \A k \in Partitions, o \in Nat :
           (\E i \in DOMAIN Tail(t.todo) : Tail(t.todo)[i] = <<k, o>>) <=> Comes(t, k, o) /\ <<k, o>> # <<p, e>>
    BY Zenon DEF NextIs
  <2>3. \A k, o : Comes(s, k, o) <=> \E i \in DOMAIN Tail(t.todo) : Tail(t.todo)[i] = <<k, o>>
    BY <2>1, Zenon DEF Comes
  <2>4. ASSUME NEW k \in Partitions, NEW o \in Nat PROVE Comes(s, k, o) <=> Comes(t, k, o) /\ <<k, o>> # <<p, e>>
    <3>1. Comes(s, k, o) <=> \E i \in DOMAIN Tail(t.todo) : Tail(t.todo)[i] = <<k, o>>
      BY <2>3, ZenonT(40)
    <3>2. (\E i \in DOMAIN Tail(t.todo) : Tail(t.todo)[i] = <<k, o>>) <=> Comes(t, k, o) /\ <<k, o>> # <<p, e>>
      BY <2>2, Zenon
    <3> QED  BY <3>1, <3>2, Zenon
  <2> QED  BY <2>4, ZenonT(40)
<1>4. \A x : InFlight(t, x) => InFlight(s, x)
  BY Zenon DEF InFlight
<1>5. InFlight(s, <<p, e>>)
  BY Zenon DEF InFlight, NextIs
<1>6. Extended(d, q, e) /\ q = t.pending[p]
  BY Zenon
<1> HIDE DEF q
<1>7. Flying(s)
  <2>1. ASSUME NEW k \in Partitions
        PROVE  /\ \A i \in DOMAIN t.pending[k] : ~t.pending[k][i].done => InFlight(s, <<k, t.pending[k][i].offset>>)
               /\ t.pending[k] # <<>> => ~t.pending[k][1].done
    BY <1>1, <1>4, Zenon DEF Flying
  <2>2. \A i \in DOMAIN d : ~d[i].done => InFlight(s, <<p, d[i].offset>>)
    <3>1. \A i \in DOMAIN q : ~q[i].done => InFlight(s, <<p, q[i].offset>>)
      BY <1>6, <2>1, Zenon
    <3> QED  BY <1>5, <1>6, <3>1, ZenonT(40) DEF Extended
  <2>3. ~d[1].done
    <3>1. CASE q = <<>>
      <4>1. Len(q) = 0
        BY <3>1, Zenon
      <4> QED  BY <1>6, <4>1 DEF Extended
    <3>2. CASE q # <<>>
      <4>1. Len(q) \in Nat /\ DOMAIN q = 1..Len(q) /\ q \in Seq(Entry)
        BY <1>1, <1>6, MemberFields, ZenonT(40) DEF Extended
      <4>2. 1 \in DOMAIN q /\ ~q[1].done
        BY <1>6, <2>1, <3>2, <4>1
      <4> QED  BY <1>6, <4>2, Zenon DEF Extended
    <3> QED  BY <3>1, <3>2, Zenon
  <2>4. ASSUME NEW k \in Partitions
        PROVE  /\ \A i \in DOMAIN s.pending[k] : ~s.pending[k][i].done => InFlight(s, <<k, s.pending[k][i].offset>>)
               /\ s.pending[k] # <<>> => ~s.pending[k][1].done
    <3>1. CASE k = p
      BY <1>2, <2>2, <2>3, <3>1, Zenon
    <3>2. CASE k # p
      <4>1. s.pending[k] = t.pending[k]
        BY <1>2, <3>2, Zenon
      <4> QED  BY <2>1, <4>1, Zenon
    <3> QED  BY <3>1, <3>2, Zenon
  <2> QED  BY <2>4, ZenonT(40) DEF Flying
<1>8. ASSUME NEW k \in Partitions PROVE Tracked(m, s, k, pos, own)
  <2>1. CASE k # p
    <3>1. PICK f \in 0..NumOffsets : Tracks(m, t, k, pos, own, f)
      BY Zenon DEF MemberInv, Tracked
    <3>2. \A o \in Nat : Comes(s, k, o) <=> Comes(t, k, o)
      BY <1>3, <2>1, Zenon
    <3>3. Tracks(m, s, k, pos, own, f)
      <4>1. s.pending[k] = t.pending[k]
        BY <1>2, <2>1, Zenon
      <4> QED  BY <3>1, <3>2, <4>1, Zenon DEF Tracks
    <3> QED  BY <3>3, SMTT(20) DEF Tracked
  <2>2. CASE k = p
    <3>1. e + 1 \in 0..NumOffsets /\ e + 1 <= s.next[p] /\ p \in DOMAIN s.next /\ e \in Nat
      BY <1>1, GroupAssumption DEF Offsets, NextIs
    <3>2. \A i \in DOMAIN d : d[i].offset = (e + 1) - Len(d) + i - 1
      <4>1. \A i \in DOMAIN q : d[i].offset = e - Len(q) + i - 1
        BY <1>6, SMTT(20) DEF Tracks, Extended
      <4>2. Len(q) \in Nat /\ DOMAIN q = 1..Len(q) /\ Len(d) = Len(q) + 1 /\ d[Len(q) + 1].offset = e
        BY <1>6, Zenon DEF Extended
      <4>3. \A i \in DOMAIN d : i \in DOMAIN q \/ i = Len(q) + 1
        BY <1>6, Zenon DEF Extended
      <4>4. \A i \in DOMAIN q : e - Len(q) + i - 1 = (e + 1) - Len(d) + i - 1
        BY <3>1, <4>2
      <4>5. e = (e + 1) - Len(d) + (Len(q) + 1) - 1
        BY <3>1, <4>2
      <4> QED  BY <4>1, <4>2, <4>3, <4>4, <4>5, ZenonT(40)
    <3>3. ASSUME NEW o \in Nat PROVE Comes(s, p, o) <=> p \in DOMAIN s.next /\ e + 1 <= o /\ o < s.next[p]
      <4>1. Comes(t, p, o) <=> e <= o /\ o < t.next[p]
        BY SMTT(20) DEF Tracks, NextIs
      <4>2. Comes(s, p, o) <=> e <= o /\ o < t.next[p] /\ o # e
        BY <1>3, <4>1, Zenon
      <4>3. e <= o /\ o # e <=> e + 1 <= o
        BY <3>1
      <4> QED  BY <3>1, <4>2, <4>3, Zenon
    <3>4. d # <<>>
      BY Zenon DEF Extended
    <3>5. Tracks(m, s, p, pos, own, e + 1)
      BY <1>2, <3>1, <3>2, <3>3, <3>4, ZenonT(40) DEF Tracks
    <3> QED  BY <2>2, <3>1, <3>5, SMTT(20) DEF Tracked
  <2> QED  BY <2>1, <2>2, Zenon
<1>9. ASSUME NEW k \in Partitions PROVE Lined(m, s.pending[k], k, pos, own) /\ Marked(s.pending[k], k, han)
  <2>1. CASE k # p
    <3>1. Lined(m, t.pending[k], k, pos, own) /\ Marked(t.pending[k], k, han)
      BY <1>1, ZenonT(40) DEF MemberInv, Positioned, Honest
    <3> QED  BY <1>2, <2>1, <3>1
  <2>2. CASE k = p
    BY <1>2, <2>2, SMTT(20)
  <2> QED  BY <2>1, <2>2, Zenon
<1>10. Honest(s, han2)
  <2>1. \A k \in Partitions : Marked(s.pending[k], k, han2)
    BY <1>9, SMTT(20) DEF Marked
  <2>2. \A j \in s.jobs : j.stage = "ack" => j.record \in han2
    BY <1>1, Zenon DEF Honest
  <2> QED  BY <2>1, <2>2, SMTT(20) DEF Honest
<1>11. Between(s) /\ Bounded(s) /\ Owns(m, s, own)
  BY <1>1, Zenon DEF Between, Bounded, Owns
<1>12. \A k \in Partitions : Tracked(m, s, k, pos, own) /\ Positioned(m, s, k, pos, own)
  BY <1>8, <1>9, Zenon DEF Positioned
<1> QED  BY <1>1, <1>7, <1>10, <1>11, <1>12, ZenonT(40) DEF MemberInv

\* The next record is registered, and submitted or dead-lettered later.
LEMMA RegisterMoves ==
    ASSUME IInv, NEW m \in Members, member[m].todo # <<>>, ~member[m].registered, ~RunContextDone(m),
           NEW r, r = Head(member[m].todo), handled \subseteq handled', handled' \subseteq Records,
           r \in Malformed => r \in handled', UNCHANGED <<position, owner>>,
           member' = [member EXCEPT ![m] = [[member[m] EXCEPT !.pending[r[1]] = Registered(@, r[2])] EXCEPT !.registered = TRUE]]
    PROVE  IInv'
<1> DEFINE t == member[m]
<1>1. /\ MemberInv(m, t, position, owner, handled) /\ position \in [Partitions -> 0..NumOffsets]
      /\ t \in MemberState /\ Honest(t, handled)
  BY Zenon DEF IInv, BrokerInv, MemberInv
<1>2. Healthy(t) /\ ~t.registered /\ t.todo # <<>>
  BY <1>1, Zenon DEF MemberInv, Between, Healthy, RunContextDone
<1>3. PICK p \in Partitions, e \in Offsets :
         NextIs(t, p, e) /\ Tracks(m, t, p, position, owner, e) /\ Lined(m, t.pending[p], p, position, owner)
  BY <1>1, <1>2, BeforeNext, Zenon
<1>4. r = <<p, e>> /\ r[1] = p /\ r[2] = e
  BY <1>3 DEF NextIs
<1> DEFINE d == Registered(t.pending[p], e)
<1>5. Marked(t.pending[p], p, handled) /\ t.pending[p] \in Seq(Entry) /\ t.pending \in Coordinators
  BY <1>1, MemberFields, Zenon DEF Honest
<1>6. Extended(d, t.pending[p], e) /\ Marked(d, p, handled) /\ Lined(m, d, p, position, owner)
  BY <1>1, <1>3, <1>5, RegisteredEntries, Zenon
<1>7. d \in Seq(Entry)
  BY <1>6, Zenon DEF Extended
<1> HIDE DEF d
<1> DEFINE s == [t EXCEPT !.pending = [t.pending EXCEPT ![p] = d], !.registered = TRUE]
<1>8. member' = [member EXCEPT ![m] = s]
  <2>1. [[t EXCEPT !.pending[r[1]] = Registered(@, r[2])] EXCEPT !.registered = TRUE] = s
    BY <1>1, <1>4, Zenon DEF d, MemberState
  <2> QED  BY <2>1, Zenon
<1>9. [t.pending EXCEPT ![p] = d] \in Coordinators
  BY <1>5, <1>7, Zenon DEF Coordinators
<1>10. /\ s \in MemberState /\ s.run = t.run /\ s.fatal = t.fatal /\ s.shutdown = t.shutdown
       /\ s.aborted = t.aborted /\ s.pending = [t.pending EXCEPT ![p] = d] /\ s.next = t.next /\ s.jobs = t.jobs
       /\ s.queue = t.queue /\ s.todo = t.todo /\ s.registered = TRUE
  BY <1>1, <1>9, Zenon DEF MemberState
<1> HIDE DEF s
<1>11. MemberInv(m, s, position, owner, handled')
  BY <1>1, <1>2, <1>3, <1>6, <1>10, RegisteredKeeps, Zenon
<1>12. BrokerInv'
  BY Zenon DEF IInv, BrokerInv, NothingSkipped
<1> QED  BY <1>8, <1>11, <1>12, MemberMoves, Zenon

\* A record is registered before it is submitted.
LEMMA RegisterKeeps ==
    ASSUME IInv, NEW m \in Members, Register(m)
    PROVE  IInv'
<1> DEFINE r == Head(member[m].todo)
<1>1. /\ member[m].todo # <<>> /\ ~member[m].registered /\ ~RunContextDone(m) /\ r \notin Malformed
      /\ UNCHANGED <<position, owner, handled>>
      /\ member' = [member EXCEPT ![m].pending[r[1]] = Registered(@, r[2]), ![m].registered = TRUE]
  BY Zenon DEF Register
<1>2. member \in [Members -> MemberState] /\ handled \subseteq Records
  BY Before, Zenon
<1>3. member' = [member EXCEPT ![m] = [[member[m] EXCEPT !.pending[r[1]] = Registered(@, r[2])] EXCEPT !.registered = TRUE]]
  BY <1>1, <1>2, Zenon
<1>4. handled \subseteq handled' /\ handled' \subseteq Records
  BY <1>1, <1>2, Zenon
<1> QED  BY <1>1, <1>3, <1>4, RegisterMoves, Zenon

\* The dead letter of a record that does not decode: its failure ends the batch
\* with the record registered and never acknowledged.
LEMMA DeadLetterMalformedKeeps ==
    ASSUME IInv, NEW m \in Members, DeadLetterMalformed(m)
    PROVE  IInv'
<1> DEFINE t == member[m]
           r == Head(t.todo)
           s1 == [t EXCEPT !.pending[r[1]] = Registered(@, r[2])]
<1>1. t.todo # <<>> /\ ~t.registered /\ ~RunContextDone(m) /\ r \in Malformed /\ UNCHANGED <<position, owner>>
  BY Zenon DEF DeadLetterMalformed
<1>2. \/ member' = [member EXCEPT ![m] = Aborting(s1)] /\ UNCHANGED handled
      \/ member' = [member EXCEPT ![m] = [s1 EXCEPT !.registered = TRUE]] /\ handled' = handled \cup {r}
  BY Zenon DEF DeadLetterMalformed
<1>3. /\ MemberInv(m, t, position, owner, handled) /\ position \in [Partitions -> 0..NumOffsets]
      /\ t \in MemberState /\ Honest(t, handled) /\ Between(t) /\ Bounded(t) /\ Owns(m, t, owner) /\ handled \subseteq Records
  BY Zenon DEF IInv, BrokerInv, MemberInv
<1>4. Healthy(t) /\ t.run = "batch"
  BY <1>1, <1>3 DEF Between, Healthy, RunContextDone
<1>5. CASE member' = [member EXCEPT ![m] = [s1 EXCEPT !.registered = TRUE]] /\ handled' = handled \cup {r}
  <2>1. handled \subseteq handled' /\ handled' \subseteq Records /\ r \in handled'
    BY <1>1, <1>3, <1>5, GroupAssumption, Zenon
  <2> QED  BY <1>1, <1>5, <2>1, RegisterMoves, Zenon
<1>6. CASE member' = [member EXCEPT ![m] = Aborting(s1)] /\ UNCHANGED handled
  <2>1. PICK p \in Partitions, e \in Offsets :
           NextIs(t, p, e) /\ Tracks(m, t, p, position, owner, e) /\ Lined(m, t.pending[p], p, position, owner)
    BY <1>1, <1>3, <1>4, BeforeNext, Zenon
  <2>2. r = <<p, e>> /\ r[1] = p /\ r[2] = e
    BY <2>1 DEF NextIs
  <2> DEFINE d == Registered(t.pending[p], e)
  <2>3. /\ Marked(t.pending[p], p, handled) /\ t.pending[p] \in Seq(Entry) /\ t.pending \in Coordinators
        /\ <<>> \in Seq(Records)
    BY <1>3, MemberFields DEF Honest
  <2>4. Extended(d, t.pending[p], e) /\ Marked(d, p, handled) /\ Lined(m, d, p, position, owner)
    BY <1>3, <2>1, <2>3, RegisteredEntries, ZenonT(40)
  <2>5. d \in Seq(Entry)
    BY <2>4, Zenon DEF Extended
  <2> HIDE DEF d
  <2> DEFINE s == [t EXCEPT !.pending = [t.pending EXCEPT ![p] = d], !.aborted = TRUE, !.todo = <<>>, !.registered = FALSE]
  <2>6. member' = [member EXCEPT ![m] = s]
    <3>1. Aborting(s1) = s
      BY <1>3, <2>2, Zenon DEF d, MemberState, Aborting, Leaving
    <3> QED  BY <1>6, <3>1, Zenon
  <2>7. [t.pending EXCEPT ![p] = d] \in Coordinators
    BY <2>3, <2>5, Zenon DEF Coordinators
  <2>8. /\ s \in MemberState /\ s.run = t.run /\ s.aborted = TRUE
        /\ s.pending = [t.pending EXCEPT ![p] = d] /\ s.next = t.next /\ s.jobs = t.jobs
        /\ s.queue = t.queue /\ s.todo = <<>> /\ s.registered = FALSE
    BY <1>3, <2>3, <2>7, Zenon DEF MemberState
  <2> HIDE DEF s
  <2>9. s.pending[p] = d /\ \A k \in Partitions \ {p} : s.pending[k] = t.pending[k]
    BY <2>3, <2>8, Zenon DEF Coordinators
  <2>10. ASSUME NEW k \in Partitions PROVE Lined(m, s.pending[k], k, position, owner) /\ Marked(s.pending[k], k, handled)
    <3>1. CASE k # p
      <4>1. Lined(m, t.pending[k], k, position, owner) /\ Marked(t.pending[k], k, handled)
        BY <1>3, <1>4, Zenon DEF MemberInv, Positioned, Honest
      <4> QED  BY <2>9, <3>1, <4>1, SMTT(20)
    <3>2. CASE k = p
      BY <2>4, <2>9, <3>2, SMTT(20)
    <3> QED  BY <3>1, <3>2, Zenon
  <2>11. ~Healthy(s) /\ Between(s) /\ Bounded(s) /\ Owns(m, s, owner) /\ Ordered(s.todo)
    <3>1. ~Healthy(s)
      BY <2>8, Zenon DEF Healthy
    <3>2. Between(s)
      BY <1>3, <1>4, <2>8, SMTT(30) DEF Between
    <3>3. Bounded(s)
      BY <1>3, <1>4, <2>8, Zenon DEF Bounded
    <3>4. Owns(m, s, owner)
      BY <1>3, <1>4, <2>8, Zenon DEF Owns
    <3>5. Ordered(s.todo)
      BY <2>8, SMTT(30) DEF Ordered
    <3> QED BY <3>1, <3>2, <3>3, <3>4, <3>5, Zenon
  <2>12. Honest(s, handled)
    BY <1>3, <2>8, <2>10, ZenonT(40) DEF Honest
  <2>13. Flying(s) /\ \A k \in Partitions : Tracked(m, s, k, position, owner) /\ Positioned(m, s, k, position, owner)
    BY <2>10, <2>11, Zenon DEF Flying, Tracked, Positioned
  <2>14. MemberInv(m, s, position, owner, handled)
    BY <2>8, <2>11, <2>12, <2>13 DEF MemberInv
  <2>15. MemberInv(m, s, position', owner', handled') /\ handled \subseteq handled'
    BY <1>1, <1>6, <2>14, Zenon
  <2>16. BrokerInv'
    BY <1>1, <1>6, Zenon DEF IInv, BrokerInv, NothingSkipped
  <2> QED  BY <1>1, <2>6, <2>15, <2>16, MemberMoves, Zenon
<1> QED  BY <1>2, <1>5, <1>6, Zenon

-----------------------------------------------------------------------------
(* Acknowledgements.                                                       *)

\* A handled record is marked.
LEMMA MarkKeeps ==
    ASSUME NEW q0 \in Seq(Entry), NEW o, NEW p, NEW m, NEW pos, NEW own, NEW han, <<p, o>> \in han,
           Marked(q0, p, han), Lined(m, q0, p, pos, own)
    PROVE  Marked(MarkDone(q0, o), p, han) /\ Lined(m, MarkDone(q0, o), p, pos, own)
<1> DEFINE q == MarkDone(q0, o)
<1>1. /\ q \in Seq(Entry) /\ Len(q) = Len(q0) /\ DOMAIN q = DOMAIN q0
      /\ \A i \in DOMAIN q0 : q[i].offset = q0[i].offset /\ (q[i].done <=> q0[i].done \/ q0[i].offset = o)
  BY MarkDoneFacts, Zenon
<1> HIDE DEF q
<1>2. Marked(q, p, han)
  BY <1>1, Zenon DEF Marked
<1>3. q # <<>> => q0 # <<>> /\ 1 \in DOMAIN q0
  BY <1>1
<1>4. \A i \in DOMAIN q : q[i].offset = q[1].offset + i - 1
  <2> SUFFICES ASSUME NEW i \in DOMAIN q PROVE q[i].offset = q[1].offset + i - 1
    BY Zenon
  <2>1. 1 \in DOMAIN q0
    BY <1>1
  <2> QED  BY <1>1, <2>1, Zenon DEF Lined
<1>5. Lined(m, q, p, pos, own)
  BY <1>1, <1>3, <1>4, Zenon DEF Lined
<1> QED  BY <1>2, <1>5, Zenon DEF q

\* The entries left by a commit of the finished prefix n of q, and the position.
Prefix(q, n) ==
    /\ q \in Seq(Entry) /\ n \in 1..Len(q) /\ \A i \in 1..n : q[i].done
    /\ n < Len(q) => ~q[n + 1].done

\* What a commit of the completed prefix leaves in the queue.
LEMMA Remainder ==
    ASSUME NEW q, NEW n, Prefix(q, n)
    PROVE  LET d == SubSeq(q, n + 1, Len(q)) IN
           /\ d \in Seq(Entry) /\ Len(d) = Len(q) - n /\ DOMAIN d = 1..(Len(q) - n)
           /\ \A i \in DOMAIN d : d[i] = q[n + i] /\ n + i \in DOMAIN q
           /\ d = <<>> => n = Len(q)
           /\ d # <<>> => 1 \in DOMAIN d /\ n < Len(q) /\ d[1] = q[n + 1]
<1> DEFINE d == SubSeq(q, n + 1, Len(q))
<1>1. /\ q \in Seq(Entry) /\ n \in 1..Len(q) /\ n \in Nat /\ Len(q) \in Nat /\ DOMAIN q = 1..Len(q)
  BY DEF Prefix
<1>2. n + 1 \in Nat /\ \A i \in 1..(Len(q) - n) : n + i \in 1..Len(q) /\ (n + 1) + i - 1 = n + i
  BY <1>1
<1>3. Len(q) - (n + 1) + 1 = Len(q) - n /\ Len(q) - n \in Nat
  BY <1>1
<1>4. d = [i \in 1..(Len(q) - n) |-> q[n + i]]
  <2>1. d = [i \in 1..(Len(q) - (n + 1) + 1) |-> q[(n + 1) + i - 1]]
    BY <1>1, <1>2
  <2> QED  BY <1>2, <1>3, <2>1, Zenon
<1> HIDE DEF d
<1>5. d \in [1..(Len(q) - n) -> Entry]
  BY <1>1, <1>2, <1>4
<1>6. d \in Seq(Entry) /\ Len(d) = Len(q) - n /\ DOMAIN d = 1..(Len(q) - n) /\ \A i \in DOMAIN d : d[i] = q[n + i] /\ n + i \in DOMAIN q
  BY <1>1, <1>2, <1>3, <1>4, <1>5
<1>7. d = <<>> => n = Len(q)
  <2> SUFFICES ASSUME d = <<>> PROVE n = Len(q)
    BY Zenon
  <2>1. Len(d) = 0
    BY Zenon
  <2>2. Len(q) - n = 0
    BY <1>6, <2>1, Zenon
  <2>3. \A k, l \in Nat : l - k = 0 => k = l
    OBVIOUS
  <2> QED  BY <1>1, <2>2, <2>3, Zenon
<1>8. ASSUME d # <<>> PROVE 1 \in DOMAIN d /\ n < Len(q) /\ d[1] = q[n + 1]
  <2>1. Len(d) # 0 /\ 1 \in DOMAIN d
    BY <1>6, <1>8
  <2>2. n < Len(q)
    <3>1. \A k, l \in Nat : 1 \in 1..(l - k) => k < l
      OBVIOUS
    <3> QED  BY <1>1, <1>6, <2>1, <3>1, Zenon
  <2> QED  BY <1>6, <2>1, <2>2, Zenon
<1> QED  BY <1>6, <1>7, <1>8, Zenon DEF d

\* A commit moves the position forward, over handled records only, and leaves
\* the entries in step with it whether they are removed or kept.
LEMMA CommitFacts ==
    ASSUME NEW q, NEW n, Prefix(q, n), NEW p \in Partitions, NEW m, NEW pos \in [Partitions -> 0..NumOffsets], NEW own, NEW han,
           own[p] = m, Marked(q, p, han), Lined(m, q, p, pos, own)
    PROVE  LET c == q[n].offset + 1
               pos2 == [pos EXCEPT ![p] = c]
               d == SubSeq(q, n + 1, Len(q))
           IN /\ c \in 0..NumOffsets /\ c >= pos[p]
              /\ \A o \in 0..(c - 1) : o >= pos[p] => <<p, o>> \in han
              /\ d \in Seq(Entry) /\ Len(d) = Len(q) - n /\ \A i \in DOMAIN d : d[i] = q[n + i] /\ n + i \in DOMAIN q
              /\ Marked(d, p, han) /\ Lined(m, d, p, pos2, own)
              /\ d # <<>> => ~d[1].done
              /\ Lined(m, q, p, pos2, own)
<1> DEFINE c == q[n].offset + 1
           pos2 == [pos EXCEPT ![p] = c]
           d == SubSeq(q, n + 1, Len(q))
           b == q[1].offset
<1>1. /\ q \in Seq(Entry) /\ n \in 1..Len(q) /\ n \in Nat /\ Len(q) \in Nat /\ DOMAIN q = 1..Len(q) /\ 1 \in DOMAIN q
      /\ n \in DOMAIN q /\ q # <<>>
  BY DEF Prefix
<1>2. \A i \in DOMAIN q : q[i].offset \in Offsets /\ q[i].offset \in Nat
  <2>1. \A i \in DOMAIN q : q[i] \in Entry
    BY <1>1
  <2>2. \A i \in DOMAIN q : q[i].offset \in Offsets
    BY <2>1, Zenon DEF Entry
  <2>3. \A o \in Offsets : o \in Nat
    BY GroupAssumption DEF Offsets
  <2> QED  BY <2>2, <2>3, Zenon
<1>3. b \in Nat /\ pos[p] \in Nat
  BY <1>1, <1>2, GroupAssumption
<1>4. /\ \A i \in DOMAIN q : q[i].offset = b + i - 1
      /\ b <= pos[p] /\ pos[p] <= b + Len(q)
      /\ \A i \in DOMAIN q : q[i].offset < pos[p] => q[i].done
  BY <1>1, Zenon DEF Lined
<1> HIDE DEF b
<1>5. c = b + n /\ c \in Nat
  <2>1. q[n].offset = b + n - 1
    BY <1>1, <1>4, Zenon
  <2> QED  BY <1>1, <1>3, <2>1
<1>6. c \in 0..NumOffsets
  <2>1. q[n].offset \in 0..(NumOffsets - 1)
    BY <1>1, <1>2, Zenon DEF Offsets
  <2> QED  BY <2>1, GroupAssumption
<1> HIDE DEF c
<1>7. c >= pos[p]
  <2> SUFFICES ASSUME c < pos[p] PROVE FALSE
    BY <1>3, <1>5
  <2>1. n < Len(q) /\ n + 1 \in DOMAIN q
    BY <1>1, <1>3, <1>4, <1>5
  <2>2. q[n + 1].offset = c
    <3>1. q[n + 1].offset = b + (n + 1) - 1
      BY <1>4, <2>1, Zenon
    <3> QED  BY <1>1, <1>3, <1>5, <3>1
  <2> QED  BY <1>4, <2>1, <2>2, Zenon DEF Prefix
<1>8. ASSUME NEW o \in 0..(c - 1), o >= pos[p] PROVE <<p, o>> \in han
  <2>1. o - b + 1 \in 1..n /\ o - b + 1 \in DOMAIN q
    BY <1>1, <1>3, <1>4, <1>5, <1>8
  <2>2. q[o - b + 1].offset = b + (o - b + 1) - 1 /\ q[o - b + 1].done
    BY <1>4, <2>1, Zenon DEF Prefix
  <2>3. b + (o - b + 1) - 1 = o
    BY <1>3
  <2> QED  BY <2>1, <2>2, <2>3, Zenon DEF Marked
<1>9. /\ d \in Seq(Entry) /\ Len(d) = Len(q) - n /\ DOMAIN d = 1..(Len(q) - n)
      /\ \A i \in DOMAIN d : d[i] = q[n + i] /\ n + i \in DOMAIN q
      /\ d # <<>> => 1 \in DOMAIN d /\ n < Len(q) /\ d[1] = q[n + 1]
  BY Remainder, Zenon
<1> HIDE DEF d
<1>10. Marked(d, p, han)
  BY <1>9, Zenon DEF Marked
<1>11. pos2[p] = c
  BY Zenon
<1> HIDE DEF pos2
<1>12. \A i \in DOMAIN d : d[i].offset = c + i - 1
  <2> SUFFICES ASSUME NEW i \in DOMAIN d
               PROVE  d[i].offset = c + i - 1
    BY Zenon
  <2>1. d[i].offset = b + (n + i) - 1
    BY <1>4, <1>9, Zenon
  <2>2. i \in 1..(Len(q) - n) /\ n \in Nat /\ Len(q) \in Nat /\ b \in Nat
    BY <1>1, <1>3, <1>9, Zenon
  <2>3. b + (n + i) - 1 = c + i - 1
    BY <1>5, <2>2
  <2> QED  BY <2>1, <2>3, Zenon
<1>13. d # <<>> => 1 \in DOMAIN d /\ d[1].offset = c /\ n < Len(q) /\ d[1] = q[n + 1]
  <2>1. 1 \in DOMAIN d => d[1].offset = c
    BY <1>5, <1>12
  <2> QED  BY <1>9, <2>1, Zenon
<1>14. \A i \in DOMAIN d : 1 \in DOMAIN d /\ d[1].offset = c
  <2>1. DOMAIN d # {} => d # <<>>
    OBVIOUS
  <2> QED  BY <1>13, <2>1, Zenon
<1>15. \A i \in DOMAIN d : d[i].offset = d[1].offset + i - 1
  BY <1>12, <1>14, Zenon
<1>16. d # <<>> => c <= pos2[p] /\ pos2[p] <= c + Len(d) /\ \A i \in DOMAIN d : ~(d[i].offset < pos2[p])
  BY <1>1, <1>5, <1>9, <1>11, <1>12
<1>17. Lined(m, d, p, pos2, own)
  BY <1>13, <1>15, <1>16, Zenon DEF Lined
<1>18. d # <<>> => ~d[1].done
  BY <1>13, Zenon DEF Prefix
<1>19. b <= pos2[p] /\ pos2[p] <= b + Len(q)
  BY <1>1, <1>3, <1>5, <1>11
<1>20. \A i \in DOMAIN q : q[i].offset < pos2[p] => q[i].done
  <2> SUFFICES ASSUME NEW i \in DOMAIN q, q[i].offset < pos2[p] PROVE q[i].done
    BY Zenon
  <2>1. i \in 1..n
    BY <1>1, <1>3, <1>4, <1>5, <1>11
  <2> QED  BY <2>1, Zenon DEF Prefix
<1>21. Lined(m, q, p, pos2, own)
  BY <1>4, <1>19, <1>20, Zenon DEF Lined, b
<1> QED  BY <1>6, <1>7, <1>8, <1>9, <1>10, <1>17, <1>18, <1>21, SMTT(20) DEF c, d, pos2

\* s is t after its poll loop or a worker has let go of record r, entries aside.
Settles(s, t, r, han) ==
    /\ s \in MemberState /\ s.pending = t.pending /\ s.next = t.next /\ s.run = t.run
    /\ Between(s) /\ Bounded(s) /\ Ordered(s.todo)
    /\ \A j \in s.jobs : j.stage = "ack" => j.record \in han
    /\ s.registered /\ Head(s.todo) \in Malformed => Head(s.todo) \in han
    /\ Healthy(s) => /\ Healthy(t) /\ Rest(s) = Rest(t)
                     /\ \A x : InFlight(t, x) /\ x # r => InFlight(s, x)

\* d is what an acknowledgement of offset o leaves of the entries q0.
Leaves(m, d, q0, o, p, pos2, own) ==
    /\ \A i \in DOMAIN d : ~d[i].done => \E k \in DOMAIN q0 : ~q0[k].done /\ q0[k].offset = d[i].offset /\ d[i].offset # o
    /\ d # <<>> => ~d[1].done
    /\ \A e \in 0..NumOffsets : (\A i \in DOMAIN q0 : q0[i].offset = e - Len(q0) + i - 1) =>
          /\ \A i \in DOMAIN d : d[i].offset = e - Len(d) + i - 1
          /\ own[p] = m /\ d = <<>> => pos2[p] = e

\* A process whose entries of one partition changed with an acknowledgement.
LEMMA EntriesKeep ==
    ASSUME NEW m, NEW t, NEW pos, NEW own, NEW han, MemberInv(m, t, pos, own, han), Active(t),
           NEW p \in Partitions, NEW o, NEW s, Settles(s, t, <<p, o>>, han),
           NEW d \in Seq(Entry), NEW pos2, \A k \in Partitions \ {p} : pos2[k] = pos[k],
           Marked(d, p, han), Lined(m, d, p, pos2, own),
           Healthy(s) => Leaves(m, d, t.pending[p], o, p, pos2, own)
    PROVE  MemberInv(m, [s EXCEPT !.pending[p] = d], pos2, own, han)
<1> DEFINE u == [s EXCEPT !.pending[p] = d]
           q0 == t.pending[p]
<1>1. t \in MemberState /\ Honest(t, han) /\ Flying(t) /\ Owns(m, t, own)
  BY Zenon DEF MemberInv
<1>2. /\ s \in MemberState /\ s.pending = t.pending /\ s.next = t.next /\ s.run = t.run
      /\ Between(s) /\ Bounded(s) /\ Ordered(s.todo)
  BY Zenon DEF Settles
<1>3. s.pending \in Coordinators /\ [s.pending EXCEPT ![p] = d] \in Coordinators
  BY <1>2, MemberFields, Zenon DEF Coordinators
<1>4. /\ u \in MemberState /\ u.run = s.run /\ u.fatal = s.fatal /\ u.shutdown = s.shutdown
      /\ u.aborted = s.aborted /\ u.pending = [s.pending EXCEPT ![p] = d] /\ u.next = s.next /\ u.jobs = s.jobs
      /\ u.queue = s.queue /\ u.todo = s.todo /\ u.registered = s.registered
  BY <1>2, <1>3, Zenon DEF MemberState
<1> HIDE DEF u
<1>5. u.pending[p] = d /\ \A k \in Partitions \ {p} : u.pending[k] = t.pending[k]
  BY <1>2, <1>3, <1>4, Zenon DEF Coordinators
<1>6. (Healthy(u) <=> Healthy(s)) /\ Rest(u) = Rest(s) /\ \A x : InFlight(u, x) <=> InFlight(s, x)
  BY <1>4, Zenon DEF Healthy, Rest, InFlight
<1>7. ASSUME NEW k \in Partitions PROVE Lined(m, u.pending[k], k, pos2, own) /\ Marked(u.pending[k], k, han)
  <2>1. CASE k # p
    <3>1. Lined(m, t.pending[k], k, pos, own) /\ Marked(t.pending[k], k, han)
      BY <1>1, Zenon DEF MemberInv, Positioned, Honest
    <3>2. pos2[k] = pos[k] /\ u.pending[k] = t.pending[k]
      BY <1>5, <2>1, Zenon
    <3> QED  BY <3>1, <3>2, Zenon DEF Lined
  <2>2. CASE k = p
    BY <1>5, <2>2, Zenon
  <2> QED  BY <2>1, <2>2, Zenon
<1>8. Honest(u, han)
  BY <1>4, <1>7, Zenon DEF Honest, Settles
<1>9. Between(u) /\ Bounded(u) /\ Ordered(u.todo)
  BY <1>2, <1>4, Zenon DEF Between, Bounded
<1>10. Owns(m, u, own)
  BY <1>1, <1>2, <1>4, Zenon DEF Owns
<1>11. ASSUME Healthy(u)
       PROVE  /\ Healthy(t) /\ \A x : InFlight(t, x) /\ x # <<p, o>> => InFlight(u, x)
              /\ \A k, x : Comes(u, k, x) <=> Comes(t, k, x)
              /\ Leaves(m, d, q0, o, p, pos2, own)
  <2>1. Healthy(s) /\ Rest(u) = Rest(t)
    BY <1>6, <1>11, Zenon DEF Settles
  <2>2. \A k, x : Comes(u, k, x) <=> Comes(t, k, x)
    BY <2>1, Zenon DEF Comes
  <2> QED  BY <1>6, <2>1, <2>2, Zenon DEF Settles
<1> HIDE DEF q0
<1>12. Flying(u)
  <2> SUFFICES ASSUME Healthy(u)
               PROVE  \A k \in Partitions :
                         /\ \A i \in DOMAIN u.pending[k] : ~u.pending[k][i].done => InFlight(u, <<k, u.pending[k][i].offset>>)
                         /\ u.pending[k] # <<>> => ~u.pending[k][1].done
    BY Zenon DEF Flying
  <2>1. ASSUME NEW k \in Partitions
        PROVE  /\ \A i \in DOMAIN t.pending[k] : ~t.pending[k][i].done => InFlight(t, <<k, t.pending[k][i].offset>>)
               /\ t.pending[k] # <<>> => ~t.pending[k][1].done
    BY <1>1, <1>11, Zenon DEF Flying
  <2>2. ASSUME NEW i \in DOMAIN d, ~d[i].done PROVE InFlight(u, <<p, d[i].offset>>)
    <3>1. PICK k \in DOMAIN q0 : ~q0[k].done /\ q0[k].offset = d[i].offset /\ d[i].offset # o
      BY <1>11, <2>2, Zenon DEF Leaves
    <3>2. InFlight(t, <<p, d[i].offset>>)
      BY <2>1, <3>1, Zenon DEF q0
    <3>3. <<p, d[i].offset>> # <<p, o>>
      BY <3>1, Zenon
    <3> QED  BY <1>11, <3>2, <3>3, Zenon
  <2>3. d # <<>> => ~d[1].done
    BY <1>11, Zenon DEF Leaves
  <2>4. ASSUME NEW k \in Partitions
        PROVE  /\ \A i \in DOMAIN u.pending[k] : ~u.pending[k][i].done => InFlight(u, <<k, u.pending[k][i].offset>>)
               /\ u.pending[k] # <<>> => ~u.pending[k][1].done
    <3>1. CASE k = p
      BY <1>5, <2>2, <2>3, <3>1, Zenon
    <3>2. CASE k # p
      <4>1. u.pending[k] = t.pending[k] /\ \A x : <<k, x>> # <<p, o>>
        BY <1>5, <3>2, Zenon
      <4> QED  BY <1>11, <2>1, <4>1, Zenon
    <3> QED  BY <3>1, <3>2, Zenon
  <2> QED  BY <2>4, Zenon
<1>13. ASSUME NEW k \in Partitions PROVE Tracked(m, u, k, pos2, own)
  <2> SUFFICES ASSUME Healthy(u) PROVE \E e \in 0..NumOffsets : Tracks(m, u, k, pos2, own, e)
    BY Zenon DEF Tracked
  <2>1. PICK e \in 0..NumOffsets : Tracks(m, t, k, pos, own, e)
    BY <1>11, Zenon DEF MemberInv, Tracked
  <2>2. /\ \A x \in Nat : Comes(u, k, x) <=> k \in DOMAIN u.next /\ e <= x /\ x < u.next[k]
        /\ k \in DOMAIN u.next => e <= u.next[k]
    BY <1>2, <1>4, <1>11, <2>1, Zenon DEF Tracks
  <2>3. /\ \A i \in DOMAIN u.pending[k] : u.pending[k][i].offset = e - Len(u.pending[k]) + i - 1
        /\ own[k] = m /\ u.pending[k] = <<>> => pos2[k] = e
    <3>1. CASE k # p
      BY <1>5, <2>1, <3>1, Zenon DEF Tracks
    <3>2. CASE k = p
      <4>1. \A i \in DOMAIN q0 : q0[i].offset = e - Len(q0) + i - 1
        BY <2>1, <3>2, Zenon DEF Tracks, q0
      <4>2. /\ \A i \in DOMAIN d : d[i].offset = e - Len(d) + i - 1
            /\ own[p] = m /\ d = <<>> => pos2[p] = e
        BY <1>11, <4>1, Zenon DEF Leaves
      <4> QED  BY <1>5, <3>2, <4>2, Zenon
    <3> QED  BY <3>1, <3>2, Zenon
  <2> QED  BY <2>2, <2>3, Zenon DEF Tracks
<1>14. \A k \in Partitions : Positioned(m, u, k, pos2, own)
  BY <1>7, Zenon DEF Positioned
<1>15. MemberInv(m, u, pos2, own, han)
  BY <1>4, <1>8, <1>9, <1>10, <1>12, <1>13, <1>14, Zenon DEF MemberInv
<1> QED  BY <1>15, Zenon DEF u

\* No finished prefix: the entries stay, one of them marked.
LEMMA LeavesMarked ==
    ASSUME NEW q0 \in Seq(Entry), NEW o, NEW p, NEW m, NEW pos, NEW own,
           \E i \in DOMAIN q0 : q0[i].offset = o, CompletedPrefix(MarkDone(q0, o)) = 0
    PROVE  Leaves(m, MarkDone(q0, o), q0, o, p, pos, own)
<1> DEFINE q == MarkDone(q0, o)
<1>1. /\ q \in Seq(Entry) /\ Len(q) = Len(q0) /\ DOMAIN q = DOMAIN q0
      /\ \A i \in DOMAIN q0 : q[i].offset = q0[i].offset /\ (q[i].done <=> q0[i].done \/ q0[i].offset = o)
  BY MarkDoneFacts, Zenon
<1> HIDE DEF q
<1>2. CompletedPrefix(q) < Len(q) => ~q[CompletedPrefix(q) + 1].done
  BY <1>1, PrefixFacts, Zenon
<1>3. CompletedPrefix(q) = 0
  BY Zenon DEF q
<1>4. q # <<>> /\ ~q[1].done
  BY <1>1, <1>2, <1>3
<1>5. \A i \in DOMAIN q : ~q[i].done => \E k \in DOMAIN q0 : ~q0[k].done /\ q0[k].offset = q[i].offset /\ q[i].offset # o
  BY <1>1, Zenon
<1>6. \A e \in 0..NumOffsets : (\A i \in DOMAIN q0 : q0[i].offset = e - Len(q0) + i - 1) =>
         \A i \in DOMAIN q : q[i].offset = e - Len(q) + i - 1
  BY <1>1, Zenon
<1> QED  BY <1>4, <1>5, <1>6, Zenon DEF Leaves, q

\* A finished prefix is removed once it is committed.
LEMMA LeavesCommitted ==
    ASSUME NEW q0 \in Seq(Entry), NEW o, NEW n, Prefix(MarkDone(q0, o), n), NEW p \in Partitions, NEW m,
           NEW pos \in [Partitions -> 0..NumOffsets], NEW own
    PROVE  LET q == MarkDone(q0, o) IN
           Leaves(m, SubSeq(q, n + 1, Len(q)), q0, o, p, [pos EXCEPT ![p] = q[n].offset + 1], own)
<1> DEFINE q == MarkDone(q0, o)
           d == SubSeq(q, n + 1, Len(q))
           pos2 == [pos EXCEPT ![p] = q[n].offset + 1]
<1>1. /\ q \in Seq(Entry) /\ Len(q) = Len(q0) /\ DOMAIN q = DOMAIN q0
      /\ \A i \in DOMAIN q0 : q[i].offset = q0[i].offset /\ (q[i].done <=> q0[i].done \/ q0[i].offset = o)
  BY MarkDoneFacts, Zenon
<1>2. pos2[p] = q[n].offset + 1
  BY Zenon
<1>3. Prefix(q, n)
  BY Zenon
<1> HIDE DEF q, pos2
<1>4. n \in 1..Len(q) /\ n \in Nat /\ Len(q) \in Nat /\ DOMAIN q = 1..Len(q)
  BY <1>1, <1>3 DEF Prefix
<1>5. /\ Len(d) = Len(q) - n /\ DOMAIN d = 1..(Len(q) - n) /\ \A i \in DOMAIN d : d[i] = q[n + i] /\ n + i \in DOMAIN q
      /\ d = <<>> => n = Len(q)
      /\ d # <<>> => 1 \in DOMAIN d /\ n < Len(q) /\ d[1] = q[n + 1]
  BY <1>3, Remainder, Zenon
<1> HIDE DEF d
<1>6. \A i \in DOMAIN d : ~d[i].done => \E k \in DOMAIN q0 : ~q0[k].done /\ q0[k].offset = d[i].offset /\ d[i].offset # o
  BY <1>1, <1>5
<1>7. d # <<>> => ~d[1].done
  BY <1>3, <1>5, Zenon DEF Prefix
<1>8. ASSUME NEW e \in 0..NumOffsets, \A i \in DOMAIN q0 : q0[i].offset = e - Len(q0) + i - 1
      PROVE  /\ \A i \in DOMAIN d : d[i].offset = e - Len(d) + i - 1
             /\ d = <<>> => pos2[p] = e
  <2>1. \A i \in DOMAIN q : q[i].offset = e - Len(q) + i - 1
    BY <1>1, <1>8, Zenon
  <2>2. \A i \in DOMAIN d : d[i].offset = e - Len(q) + (n + i) - 1
    BY <1>5, <2>1, Zenon
  <2>3. e \in Nat
    BY GroupAssumption
  <2>4. \A i \in DOMAIN d : e - Len(q) + (n + i) - 1 = e - Len(d) + i - 1
    <3>1. \A k, l, i \in Nat : e - l + (k + i) - 1 = e - (l - k) + i - 1
      BY <2>3
    <3>2. \A l, k \in Nat : \A i \in 1..(l - k) : i \in Nat
      OBVIOUS
    <3>3. Len(d) = Len(q) - n /\ DOMAIN d = 1..(Len(q) - n) /\ n \in Nat /\ Len(q) \in Nat
      BY <1>4, <1>5, Zenon
    <3>4. \A i \in DOMAIN d : i \in Nat
      BY <3>2, <3>3, Zenon
    <3> QED  BY <3>1, <3>3, <3>4
  <2>5. ASSUME d = <<>> PROVE pos2[p] = e
    <3>1. n = Len(q)
      BY <1>5, <2>5, Zenon
    <3>2. q[n].offset = e - Len(q) + n - 1
      BY <1>4, <2>1, Zenon
    <3> QED  BY <1>2, <1>4, <2>3, <3>1, <3>2
  <2> QED  BY <2>2, <2>4, <2>5, Zenon
<1> QED  BY <1>6, <1>7, <1>8, Zenon DEF Leaves, d, q, pos2

Forward == \A k \in Partitions : position'[k] >= position[k]

\* Ack keeps the invariant and moves no position back, for every way to go on
\* when it succeeds (good) and when it fails (bad).
LEMMA AckKeeps ==
    ASSUME IInv, NEW m \in Members, NEW r \in Records, r \in handled, Active(member[m]),
           NEW good, NEW bad, NEW contextDone, Ack(m, r, good, bad, contextDone), UNCHANGED <<owner, handled>>,
           Settles(good, member[m], r, handled), Settles(bad, member[m], r, handled), ~Healthy(bad)
    PROVE  IInv' /\ Forward
<1> DEFINE t == member[m]
<1>1. PICK p \in Partitions, o \in Offsets : r = <<p, o>> /\ r[1] = p /\ r[2] = o
  BY DEF Records
<1>2. /\ MemberInv(m, t, position, owner, handled) /\ position \in [Partitions -> 0..NumOffsets]
      /\ t \in MemberState /\ t.pending[p] \in Seq(Entry) /\ handled \subseteq Records /\ NothingSkipped
      /\ owner \in [Partitions -> Members \cup {NoMember}]
  BY MemberFields, Zenon DEF IInv, BrokerInv, MemberInv
<1>3. Marked(t.pending[p], p, handled) /\ Lined(m, t.pending[p], p, position, owner)
  BY <1>2, Zenon DEF MemberInv, Honest, Positioned
<1> DEFINE q == MarkDone(t.pending[p], o)
           n == CompletedPrefix(q)
<1>4. Marked(q, p, handled) /\ Lined(m, q, p, position, owner)
  BY <1>1, <1>2, <1>3, MarkKeeps, Zenon
<1>5. /\ q \in Seq(Entry) /\ DOMAIN q = DOMAIN t.pending[p]
      /\ \A i \in DOMAIN q : q[i].offset = t.pending[p][i].offset
  BY <1>2, MarkDoneFacts
<1>6. n \in 0..Len(q) /\ (\A i \in 1..n : q[i].done) /\ (n < Len(q) => ~q[n + 1].done)
  BY <1>5, PrefixFacts, Zenon
<1>7. \/ member' = [member EXCEPT ![m] = bad] /\ UNCHANGED position
      \/ /\ \E i \in DOMAIN q : q[i].offset = o
         /\ n = 0 /\ UNCHANGED position
         /\ member' = [member EXCEPT ![m] = [good EXCEPT !.pending[p] = q]]
      \/ n # 0 /\ Commit(m, p, q, n, good, bad, contextDone)
  BY <1>1, Zenon DEF Ack
<1> HIDE DEF n
<1>8. Settles(good, t, <<p, o>>, handled) /\ Settles(bad, t, <<p, o>>, handled)
  BY <1>1, Zenon
<1>9. ASSUME UNCHANGED position PROVE BrokerInv' /\ Forward
  <2>1. BrokerInv'
    BY <1>9, Zenon DEF IInv, BrokerInv, NothingSkipped
  <2>2. \A k \in Partitions : position[k] >= position[k]
    BY <1>2, GroupAssumption
  <2> QED  BY <1>9, <2>1, <2>2, Zenon DEF Forward
<1>10. CASE member' = [member EXCEPT ![m] = bad] /\ UNCHANGED position
  <2>1. MemberInv(m, bad, position, owner, handled)
    <3>1. /\ bad \in MemberState /\ bad.pending = t.pending /\ bad.next = t.next /\ bad.run = t.run
          /\ Between(bad) /\ Bounded(bad) /\ Ordered(bad.todo)
          /\ \A j \in bad.jobs : j.stage = "ack" => j.record \in handled
          /\ bad.registered /\ Head(bad.todo) \in Malformed => Head(bad.todo) \in handled
      BY <1>8, Zenon DEF Settles
    <3> QED  BY <1>2, <3>1, CoordinatorKept, Zenon
  <2>2. MemberInv(m, bad, position', owner', handled') /\ handled \subseteq handled'
    BY <1>10, <2>1, Zenon
  <2> QED  BY <1>9, <1>10, <2>2, MemberMoves, Zenon
<1>11. CASE /\ \E i \in DOMAIN q : q[i].offset = o
            /\ n = 0 /\ UNCHANGED position
            /\ member' = [member EXCEPT ![m] = [good EXCEPT !.pending[p] = q]]
  <2>1. Leaves(m, q, t.pending[p], o, p, position, owner)
    <3>1. \E i \in DOMAIN t.pending[p] : t.pending[p][i].offset = o
      BY <1>5, <1>11, Zenon
    <3> QED  BY <1>2, <1>11, <3>1, LeavesMarked, Zenon DEF n
  <2> HIDE DEF q
  <2>2. MemberInv(m, [good EXCEPT !.pending[p] = q], position, owner, handled)
    BY <1>2, <1>4, <1>5, <1>8, <2>1, EntriesKeep, Zenon
  <2>3. MemberInv(m, [good EXCEPT !.pending[p] = q], position', owner', handled') /\ handled \subseteq handled'
    BY <1>11, <2>2, Zenon
  <2> QED  BY <1>9, <1>11, <2>3, MemberMoves, Zenon
<1>12. CASE n # 0 /\ Commit(m, p, q, n, good, bad, contextDone)
  <2> DEFINE c == q[n].offset + 1
             pos2 == [position EXCEPT ![p] = c]
             d == SubSeq(q, n + 1, Len(q))
  <2>1. Prefix(q, n)
    BY <1>5, <1>6, <1>12 DEF Prefix
  <2>2. \/ owner[p] = m /\ position' = pos2 /\ member' = [member EXCEPT ![m] = [good EXCEPT !.pending[p] = d]]
        \/ /\ position' = position \/ (owner[p] = m /\ position' = pos2)
           /\ member' = [member EXCEPT ![m] = [bad EXCEPT !.pending[p] = q]]
    <3>1. \/ owner[p] = m /\ position' = pos2 /\ member' = [member EXCEPT ![m] = [good EXCEPT !.pending[p] = d]]
          \/ /\ position' \in IF owner[p] = m THEN {position, pos2} ELSE {position}
             /\ member' = [member EXCEPT ![m] = [bad EXCEPT !.pending[p] = q]]
      BY <1>12, Zenon DEF Commit
    <3> HIDE DEF q, pos2, d
    <3>2. position' \in (IF owner[p] = m THEN {position, pos2} ELSE {position}) =>
             position' = position \/ (owner[p] = m /\ position' = pos2)
      BY Zenon
    <3> QED  BY <3>1, <3>2, Zenon
  <2>3. Leaves(m, d, t.pending[p], o, p, pos2, owner)
    BY <1>2, <2>1, LeavesCommitted, Zenon
  <2> HIDE DEF q
  <2>4. ASSUME owner[p] = m
        PROVE  /\ c \in 0..NumOffsets /\ c >= position[p]
               /\ \A x \in 0..(c - 1) : x >= position[p] => <<p, x>> \in handled
               /\ d \in Seq(Entry) /\ Marked(d, p, handled) /\ Lined(m, d, p, pos2, owner)
               /\ Lined(m, q, p, pos2, owner)
    BY <1>2, <1>4, <2>1, <2>4, CommitFacts, Zenon
  <2>5. ASSUME owner[p] = m, position' = pos2 PROVE BrokerInv' /\ Forward
    <3>1. pos2[p] = c /\ \A k \in Partitions \ {p} : pos2[k] = position[k]
      BY <1>2, Zenon
    <3>2. pos2 \in [Partitions -> 0..NumOffsets]
      BY <1>2, <2>4, <2>5
    <3> HIDE DEF pos2, c
    <3>3. ASSUME NEW k \in Partitions, NEW x \in 0..(pos2[k] - 1) PROVE <<k, x>> \in handled
      <4>1. CASE k # p
        BY <1>2, <3>1, <3>3, <4>1, Zenon DEF NothingSkipped
      <4>2. CASE k = p
        <5>1. x \in 0..(c - 1)
          BY <3>1, <3>3, <4>2, Zenon
        <5>2. CASE x >= position[p]
          BY <2>4, <2>5, <4>2, <5>1, <5>2, Zenon
        <5>3. CASE ~(x >= position[p])
          <6>1. x \in 0..(position[p] - 1)
            BY <1>2, <5>1, <5>3, GroupAssumption
          <6> QED  BY <1>2, <4>2, <6>1 DEF NothingSkipped
        <5> QED  BY <5>2, <5>3
      <4> QED  BY <4>1, <4>2, Zenon
    <3>4. NothingSkipped'
      BY <2>5, <3>3, Zenon DEF NothingSkipped
    <3>5. \A k \in Partitions : pos2[k] >= position[k]
      BY <1>2, <2>4, <2>5, <3>1, GroupAssumption
    <3> QED  BY <1>2, <2>5, <3>2, <3>4, <3>5, Zenon DEF BrokerInv, Forward
  <2>6. \A k \in Partitions \ {p} : pos2[k] = position[k]
    BY <1>2, Zenon
  <2> HIDE DEF pos2, d, c
  <2>7. CASE owner[p] = m /\ position' = pos2 /\ member' = [member EXCEPT ![m] = [good EXCEPT !.pending[p] = d]]
    <3>1. d \in Seq(Entry) /\ Marked(d, p, handled) /\ Lined(m, d, p, pos2, owner)
      BY <2>4, <2>7
    <3>0. /\ MemberInv(m, t, position, owner, handled) /\ Active(t) /\ Settles(good, t, <<p, o>>, handled)
          /\ Leaves(m, d, t.pending[p], o, p, pos2, owner)
      BY <1>2, <1>8, <2>3, Zenon
    <3> HIDE DEF t
    <3>2. MemberInv(m, [good EXCEPT !.pending[p] = d], pos2, owner, handled)
      BY <2>6, <3>0, <3>1, EntriesKeep, Zenon
    <3>3. MemberInv(m, [good EXCEPT !.pending[p] = d], position', owner', handled') /\ handled \subseteq handled'
      BY <2>7, <3>2
    <3>4. \A k \in Partitions : owner'[k] # m => owner'[k] = NoMember \/ (owner'[k] = owner[k] /\ position'[k] = position[k])
      BY <2>6, <2>7, Zenon
    <3> QED  BY <2>5, <2>7, <3>3, <3>4, MemberMoves, Zenon
  <2>8. CASE /\ position' = position \/ (owner[p] = m /\ position' = pos2)
             /\ member' = [member EXCEPT ![m] = [bad EXCEPT !.pending[p] = q]]
    <3>1. Lined(m, q, p, position', owner) /\ \A k \in Partitions \ {p} : position'[k] = position[k]
      BY <1>4, <2>4, <2>6, <2>8
    <3>2. MemberInv(m, [bad EXCEPT !.pending[p] = q], position', owner, handled)
      BY <1>2, <1>4, <1>5, <1>8, <3>1, EntriesKeep, ZenonT(60)
    <3>3. MemberInv(m, [bad EXCEPT !.pending[p] = q], position', owner', handled') /\ handled \subseteq handled'
      BY <3>2, Zenon
    <3>4. \A k \in Partitions : owner'[k] # m => owner'[k] = NoMember \/ (owner'[k] = owner[k] /\ position'[k] = position[k])
      BY <2>6, <2>8, Zenon
    <3>5. BrokerInv' /\ Forward
      BY <1>9, <2>5, <2>8
    <3> QED  BY <2>8, <3>3, <3>4, <3>5, MemberMoves, Zenon
  <2> QED  BY <2>2, <2>7, <2>8, Zenon
<1> QED  BY <1>7, <1>10, <1>11, <1>12, Zenon

\* The acknowledgement of a worker.
LEMMA AckJobKeeps ==
    ASSUME IInv, NEW m \in Members, NEW j \in member[m].jobs, AckJob(m, j)
    PROVE  IInv' /\ Forward
<1> DEFINE t == member[m]
           g == [t EXCEPT !.jobs = t.jobs \ {j}]
           b == [t EXCEPT !.jobs = t.jobs \ {j}, !.fatal = TRUE]
<1>1. /\ t \in MemberState /\ Between(t) /\ Bounded(t) /\ Honest(t, handled) /\ Ordered(t.todo)
      /\ handled \subseteq Records
  BY Before, Zenon
<1>2. t.jobs \ {j} \in SUBSET Job /\ j \in Job
  BY <1>1, MemberFields, Zenon
<1>3. j.record \in Records /\ j.record \in handled /\ Active(t)
  BY <1>1, <1>2, Zenon DEF Job, AckJob, Honest, Active
<1>4. JobEnds(t, j) = g /\ Failing(JobEnds(t, j)) = b
  BY <1>1, Zenon DEF JobEnds, Failing, MemberState
<1>5. Ack(m, j.record, g, b, RunContextDone(m)) /\ UNCHANGED <<owner, handled>>
  BY <1>4, Zenon DEF AckJob
<1>6. ASSUME NEW s, s = g \/ s = b
      PROVE  /\ s \in MemberState /\ s.run = t.run /\ s.shutdown = t.shutdown
             /\ s.aborted = t.aborted /\ s.pending = t.pending /\ s.next = t.next /\ s.jobs = t.jobs \ {j}
             /\ s.queue = t.queue /\ s.todo = t.todo /\ s.registered = t.registered
  <2>1. CASE s = g
    BY <1>1, <1>2, <2>1, Zenon DEF MemberState
  <2>2. CASE s = b
    BY <1>1, <1>2, <2>2, Zenon DEF MemberState
  <2> QED  BY <1>6, <2>1, <2>2, Zenon
<1>7. g.fatal = t.fatal /\ b.fatal = TRUE
  BY <1>1, <1>2, Zenon DEF MemberState
<1> HIDE DEF g, b
<1>8. ~Healthy(b) /\ (Healthy(g) => Healthy(t))
  BY <1>6, <1>7, Zenon DEF Healthy
<1>9. ASSUME NEW s, s = g \/ s = b PROVE Settles(s, t, j.record, handled)
  <2>1. /\ s \in MemberState /\ s.run = t.run /\ s.shutdown = t.shutdown
        /\ s.aborted = t.aborted /\ s.pending = t.pending /\ s.next = t.next /\ s.jobs = t.jobs \ {j}
        /\ s.queue = t.queue /\ s.todo = t.todo /\ s.registered = t.registered
    BY <1>6, <1>9, Zenon
  <2>2. Between(s) /\ Ordered(s.todo)
    BY <1>1, <2>1, Zenon DEF Between
  <2>3. Bounded(s)
    <3>1. IsFiniteSet(t.jobs) /\ Cardinality(t.jobs) \in Nat
      BY <1>1, FS_CardinalityType, Zenon DEF Bounded
    <3>2. IsFiniteSet(s.jobs) /\ Cardinality(s.jobs) = Cardinality(t.jobs) - 1
      BY <2>1, <3>1, FS_RemoveElement
    <3> QED  BY <1>1, <2>1, <3>1, <3>2, GroupAssumption DEF Bounded
  <2>4. /\ \A i \in s.jobs : i.stage = "ack" => i.record \in handled
        /\ s.registered /\ Head(s.todo) \in Malformed => Head(s.todo) \in handled
    BY <1>1, <2>1, Zenon DEF Honest
  <2>5. Rest(s) = Rest(t) /\ \A x : InFlight(t, x) /\ x # j.record => InFlight(s, x)
    BY <2>1, Zenon DEF Rest, InFlight
  <2>6. Healthy(s) => Healthy(t)
    BY <1>8, <1>9
  <2> QED  BY <2>1, <2>2, <2>3, <2>4, <2>5, <2>6, Zenon DEF Settles
<1>10. Settles(g, t, j.record, handled) /\ Settles(b, t, j.record, handled)
  BY <1>9, Zenon
<1> QED  BY <1>3, <1>5, <1>8, <1>10, AckKeeps, Zenon

\* The acknowledgement of a dead letter by the poll loop.
LEMMA AckMalformedKeeps ==
    ASSUME IInv, NEW m \in Members, AckMalformed(m)
    PROVE  IInv' /\ Forward
<1> DEFINE t == member[m]
           r == Head(t.todo)
           g == [t EXCEPT !.todo = Tail(t.todo), !.registered = FALSE]
           b == [t EXCEPT !.aborted = TRUE, !.todo = <<>>, !.registered = FALSE]
<1>1. /\ t \in MemberState /\ Between(t) /\ Bounded(t) /\ Honest(t, handled) /\ Ordered(t.todo)
      /\ handled \subseteq Records
  BY Before, Zenon
<1>2. t.registered /\ r \in Malformed /\ UNCHANGED <<owner, handled>>
  BY Zenon DEF AckMalformed
<1>3. t.todo \in Seq(Records) /\ t.todo # <<>> /\ t.run = "batch" /\ <<>> \in Seq(Records) /\ ~t.aborted
  BY <1>1, <1>2, MemberFields DEF Between
<1>4. Ordered(Tail(t.todo)) /\ Tail(t.todo) \in Seq(Records) /\ r \in Records
  BY <1>1, <1>3, OrderedTail, Zenon
<1>5. r \in handled /\ Active(t)
  BY <1>1, <1>2, Zenon DEF Honest, Active
<1>6. Aborting(t) = b
  BY <1>1, Zenon DEF Aborting, Leaving, MemberState
<1>7. Ack(m, r, g, b, CommitContextDone(m))
  BY <1>6, Zenon DEF AckMalformed
<1>8. /\ g \in MemberState /\ g.run = t.run /\ g.fatal = t.fatal /\ g.shutdown = t.shutdown
      /\ g.aborted = t.aborted /\ g.pending = t.pending /\ g.next = t.next /\ g.jobs = t.jobs
      /\ g.queue = t.queue /\ g.todo = Tail(t.todo) /\ g.registered = FALSE
  BY <1>1, <1>4, Zenon DEF MemberState
<1>9. /\ b \in MemberState /\ b.run = t.run /\ b.aborted = TRUE
      /\ b.pending = t.pending /\ b.next = t.next /\ b.jobs = t.jobs
      /\ b.queue = t.queue /\ b.todo = <<>> /\ b.registered = FALSE
  BY <1>1, <1>3, Zenon DEF MemberState
<1> HIDE DEF g, b
<1>10. Settles(g, t, r, handled)
  <2>1. Between(g) /\ Ordered(g.todo) /\ Bounded(g)
    BY <1>1, <1>3, <1>4, <1>8, Zenon DEF Between, Bounded
  <2>2. \A i \in g.jobs : i.stage = "ack" => i.record \in handled
    BY <1>1, <1>8, Zenon DEF Honest
  <2>3. Rest(g) = Rest(t) /\ (Healthy(g) => Healthy(t)) /\ \A x : InFlight(t, x) /\ x # r => InFlight(g, x)
    BY <1>2, <1>8, Zenon DEF Rest, InFlight, Healthy
  <2> QED  BY <1>8, <2>1, <2>2, <2>3, Zenon DEF Settles
<1>11. ~Healthy(b)
  BY <1>9, Zenon DEF Healthy
<1>12. Settles(b, t, r, handled)
  <2>1. Between(b) /\ Ordered(b.todo) /\ Bounded(b)
    BY <1>1, <1>3, <1>9 DEF Between, Bounded, Ordered
  <2>2. \A i \in b.jobs : i.stage = "ack" => i.record \in handled
    BY <1>1, <1>9, Zenon DEF Honest
  <2> QED  BY <1>9, <1>11, <2>1, <2>2, Zenon DEF Settles
<1> QED  BY <1>2, <1>4, <1>5, <1>7, <1>10, <1>11, <1>12, AckKeeps, Zenon

-----------------------------------------------------------------------------
(* The group and the processes.                                            *)

\* A process that has just started or stopped and owns nothing.
LEMMA FreshKeeps ==
    ASSUME NEW m, NEW s, s = Started \/ s = Stopped, NEW pos, NEW own, NEW han, \A p \in Partitions : own[p] # m
    PROVE  MemberInv(m, s, pos, own, han)
<1>1. /\ s.run \in {"polling", "stopped"} /\ s.fatal = FALSE /\ s.shutdown = FALSE /\ s.next = <<>> /\ s.todo = <<>>
      /\ s.registered = FALSE /\ s.aborted = FALSE /\ s.pending = [p \in Partitions |-> <<>>]
      /\ s.queue = <<>> /\ s.jobs = {}
  BY DEF Started, Stopped
<1>2. s \in MemberState
  <2>1. <<>> \in NextMaps
    <3>1. <<>> \in [{} -> 0..NumOffsets] /\ {} \in SUBSET Partitions
      OBVIOUS
    <3> QED  BY <3>1, Zenon DEF NextMaps
  <2>2. [p \in Partitions |-> <<>>] \in Coordinators /\ <<>> \in Seq(Records)
    BY DEF Coordinators
  <2>3. Started \in MemberState
    BY <2>1, <2>2, Zenon DEF MemberState, Started
  <2>4. Stopped \in MemberState
    BY <2>3, Zenon DEF MemberState, Stopped
  <2> QED  BY <2>3, <2>4, Zenon
<1>3. \A p \in Partitions : s.pending[p] = <<>>
  BY <1>1, Zenon
<1>4. Between(s) /\ Bounded(s) /\ Ordered(s.todo)
  BY <1>1, FS_EmptySet, GroupAssumption DEF Between, Bounded, Ordered
<1>5. Honest(s, han) /\ Flying(s) /\ Owns(m, s, own)
  BY <1>1, <1>3 DEF Honest, Marked, Flying, Owns
<1>6. ASSUME NEW p \in Partitions PROVE Tracked(m, s, p, pos, own) /\ Positioned(m, s, p, pos, own)
  <2>1. \A o : ~Comes(s, p, o)
    BY <1>1 DEF Comes, Rest
  <2>2. Tracks(m, s, p, pos, own, 0)
    BY <1>1, <1>3, <2>1 DEF Tracks
  <2>3. 0 \in 0..NumOffsets
    BY GroupAssumption
  <2>4. Lined(m, s.pending[p], p, pos, own)
    BY <1>3 DEF Lined
  <2> QED  BY <2>2, <2>3, <2>4, Zenon DEF Tracked, Positioned
<1> QED  BY <1>2, <1>4, <1>5, <1>6, Zenon DEF MemberInv

\* A healthy process whose gate is open has an empty coordinator, and fetches
\* next what follows its last entry.
LEMMA OpenIsClean ==
    ASSUME NEW m, NEW t, NEW pos, NEW own, NEW han, MemberInv(m, t, pos, own, han),
           t.run = "polling", ~t.fatal, ~t.shutdown
    PROVE  /\ Healthy(t) /\ ~t.registered
           /\ \A p \in Partitions : t.pending[p] = <<>>
           /\ \A p \in Partitions : own[p] = m => pos[p] = t.next[p]
<1>1. /\ Healthy(t) /\ ~t.registered /\ t.todo = <<>> /\ t.queue = <<>> /\ t.jobs = {} /\ t \in MemberState
      /\ Rest(t) = <<>>
  BY Zenon DEF MemberInv, Between, Healthy, Rest
<1>2. \A r : ~InFlight(t, r)
  BY <1>1 DEF InFlight
<1>3. ASSUME NEW p \in Partitions PROVE t.pending[p] = <<>>
  <2> SUFFICES ASSUME t.pending[p] # <<>> PROVE FALSE
    BY Zenon
  <2>1. t.pending[p] \in Seq(Entry)
    BY <1>1, MemberFields, Zenon
  <2>2. 1 \in DOMAIN t.pending[p]
    BY <2>1
  <2>3. ~t.pending[p][1].done /\ InFlight(t, <<p, t.pending[p][1].offset>>)
    BY <1>1, <2>2, Zenon DEF MemberInv, Flying
  <2> QED  BY <1>2, <2>3, Zenon
<1>4. ASSUME NEW p \in Partitions, own[p] = m PROVE pos[p] = t.next[p]
  <2>1. PICK e \in 0..NumOffsets : Tracks(m, t, p, pos, own, e)
    BY <1>1, Zenon DEF MemberInv, Tracked
  <2>2. p \in DOMAIN t.next /\ t.next[p] \in 0..NumOffsets
    BY <1>1, <1>4, MemberFields, Zenon DEF MemberInv, Owns
  <2>3. ~Comes(t, p, e)
    BY <1>1 DEF Comes
  <2>4. e \in Nat /\ e <= t.next[p] /\ ~(e < t.next[p]) /\ pos[p] = e /\ t.next[p] \in Nat
    BY <1>3, <1>4, <2>1, <2>2, <2>3, GroupAssumption DEF Tracks
  <2> QED  BY <2>4
<1> QED  BY <1>1, <1>3, <1>4, Zenon

\* Partitions come and go while the gate is open.
LEMMA FetchPositionsChange ==
    ASSUME NEW m, NEW t, NEW pos \in [Partitions -> 0..NumOffsets], NEW own, NEW han, MemberInv(m, t, pos, own, han),
           t.run = "polling", NEW next \in NextMaps, NEW own2,
           \A k \in Partitions : own2[k] = m => k \in DOMAIN next /\ next[k] = IF own[k] = m THEN t.next[k] ELSE pos[k]
    PROVE  MemberInv(m, [t EXCEPT !.next = next], pos, own2, han)
<1> DEFINE s == [t EXCEPT !.next = next]
<1>1. t \in MemberState /\ Between(t) /\ Bounded(t) /\ Honest(t, han) /\ Ordered(t.todo) /\ Flying(t)
  BY Zenon DEF MemberInv
<1>2. /\ s \in MemberState /\ s.run = t.run /\ s.fatal = t.fatal /\ s.shutdown = t.shutdown
      /\ s.aborted = t.aborted /\ s.pending = t.pending /\ s.next = next /\ s.jobs = t.jobs
      /\ s.queue = t.queue /\ s.todo = t.todo /\ s.registered = t.registered
  BY <1>1, Zenon DEF MemberState
<1> HIDE DEF s
<1>3. Between(s) /\ Bounded(s) /\ Honest(s, han) /\ Ordered(s.todo)
  BY <1>1, <1>2, Zenon DEF Between, Bounded, Honest
<1>4. (Healthy(s) <=> Healthy(t)) /\ ~Active(s) /\ Rest(s) = <<>> /\ \A r : InFlight(s, r) <=> InFlight(t, r)
  BY <1>1, <1>2, Zenon DEF Healthy, Active, Between, Rest, InFlight
<1>5. Flying(s)
  BY <1>1, <1>2, <1>4, Zenon DEF Flying
<1>6. Owns(m, s, own2)
  BY <1>2, Zenon DEF Owns
<1>7. ASSUME Healthy(s), NEW p \in Partitions
      PROVE  Tracked(m, s, p, pos, own2) /\ Positioned(m, s, p, pos, own2)
  <2>1. s.pending[p] = <<>> /\ (own[p] = m => pos[p] = t.next[p])
    BY <1>2, <1>4, <1>7, OpenIsClean DEF Healthy
  <2>2. own2[p] = m => p \in DOMAIN next /\ next[p] = pos[p]
    BY <2>1, Zenon
  <2> DEFINE e == IF p \in DOMAIN next THEN next[p] ELSE 0
  <2>3. e \in 0..NumOffsets /\ e \in Nat
    BY <1>2, MemberFields, GroupAssumption
  <2>4. \A o : ~Comes(s, p, o)
    BY <1>4 DEF Comes
  <2>5. \A o \in Nat : ~(p \in DOMAIN s.next /\ e <= o /\ o < s.next[p])
    BY <1>2, <2>3
  <2>6. /\ p \in DOMAIN s.next => e <= s.next[p]
        /\ own2[p] = m => pos[p] = e
    BY <1>2, <2>2, <2>3
  <2>7. Tracks(m, s, p, pos, own2, e)
    BY <2>1, <2>4, <2>5, <2>6 DEF Tracks
  <2>8. Lined(m, s.pending[p], p, pos, own2)
    BY <2>1 DEF Lined
  <2> QED  BY <2>3, <2>7, <2>8, Zenon DEF Tracked, Positioned
<1>8. \A p \in Partitions : Tracked(m, s, p, pos, own2) /\ Positioned(m, s, p, pos, own2)
  BY <1>4, <1>7, Zenon DEF Tracked, Positioned
<1>9. MemberInv(m, s, pos, own2, han)
  BY <1>2, <1>3, <1>5, <1>6, <1>8, Zenon DEF MemberInv
<1> QED  BY <1>9, Zenon DEF s

\* A process ends, in order or not; its partitions are free.
LEMMA StopKeeps ==
    ASSUME IInv, NEW m \in Members, RunReturns(m) \/ Crash(m)
    PROVE  IInv' /\ UNCHANGED position
<1>1. /\ member' = [member EXCEPT ![m] = Stopped] /\ UNCHANGED <<position, handled>>
      /\ owner' = [p \in Partitions |-> IF owner[p] = m THEN NoMember ELSE owner[p]]
  BY Zenon DEF RunReturns, Crash
<1>2. owner \in [Partitions -> Members \cup {NoMember}]
  BY Zenon DEF IInv, BrokerInv
<1>3. \A p \in Partitions : owner'[p] # m /\ (owner'[p] = NoMember \/ owner'[p] = owner[p])
  BY <1>1, <1>2, GroupAssumption, Zenon
<1>4. MemberInv(m, Stopped, position', owner', handled')
  BY <1>3, FreshKeeps, Zenon
<1>5. BrokerInv'
  <2>1. owner' \in [Partitions -> Members \cup {NoMember}]
    BY <1>1, <1>2, Zenon
  <2> QED  BY <1>1, <2>1, Zenon DEF IInv, BrokerInv, NothingSkipped
<1>6. \A p \in Partitions : owner'[p] # m => owner'[p] = NoMember \/ (owner'[p] = owner[p] /\ position'[p] = position[p])
  BY <1>1, <1>3, Zenon
<1>7. handled \subseteq handled'
  BY <1>1, Zenon
<1> QED  BY <1>1, <1>4, <1>5, <1>6, <1>7, MemberMoves, Zenon

\* A process that starts again owns nothing and has nothing pending.
LEMMA RestartKeeps ==
    ASSUME IInv, NEW m \in Members, Restart(m)
    PROVE  IInv' /\ UNCHANGED position
<1>1. /\ member' = [member EXCEPT ![m] = Started] /\ UNCHANGED <<position, owner, handled>> /\ member[m].run = "stopped"
  BY Zenon DEF Restart
<1>2. MemberInv(m, member[m], position, owner, handled)
  BY Zenon DEF IInv
<1>3. \A p \in Partitions : owner'[p] # m
  BY <1>1, <1>2, Zenon DEF MemberInv, Owns
<1>4. MemberInv(m, Started, position', owner', handled')
  BY <1>3, FreshKeeps, Zenon
<1>5. BrokerInv'
  BY <1>1, Zenon DEF IInv, BrokerInv, NothingSkipped
<1>6. handled \subseteq handled' /\ \A p \in Partitions : owner'[p] # m => owner'[p] = NoMember \/ (owner'[p] = owner[p] /\ position'[p] = position[p])
  BY <1>1
<1> QED  BY <1>1, <1>4, <1>5, <1>6, MemberMoves, Zenon

\* A new owner starts to fetch at the committed position.
LEMMA AssignKeeps ==
    ASSUME IInv, NEW m \in Members, NEW p \in Partitions, Assign(p, m)
    PROVE  IInv' /\ UNCHANGED position
<1> DEFINE t == member[m]
           next == [k \in DOMAIN t.next \cup {p} |-> IF k = p THEN position[p] ELSE t.next[k]]
<1>1. owner[p] = NoMember /\ t.run = "polling" /\ owner' = [owner EXCEPT ![p] = m] /\ UNCHANGED <<position, handled>>
  BY Zenon DEF Assign, GateOpen
<1>2. /\ t \in MemberState /\ MemberInv(m, t, position, owner, handled) /\ position \in [Partitions -> 0..NumOffsets]
      /\ owner \in [Partitions -> Members \cup {NoMember}] /\ member \in [Members -> MemberState]
  BY Zenon DEF IInv, BrokerInv, MemberInv
<1>3. member' = [member EXCEPT ![m] = [t EXCEPT !.next = next]]
  BY <1>2, Zenon DEF Assign
<1>4. DOMAIN t.next \subseteq Partitions /\ \A k \in DOMAIN t.next : t.next[k] \in 0..NumOffsets
  BY <1>2, MemberFields, Zenon
<1>5. next \in NextMaps
  <2>1. next \in [DOMAIN t.next \cup {p} -> 0..NumOffsets] /\ DOMAIN t.next \cup {p} \in SUBSET Partitions
    BY <1>2, <1>4, Zenon
  <2> HIDE DEF next
  <2> QED  BY <2>1, Zenon DEF NextMaps
<1>6. owner'[p] = m /\ \A k \in Partitions \ {p} : owner'[k] = owner[k]
  BY <1>1, <1>2, Zenon
<1>7. ASSUME NEW k \in Partitions, owner'[k] = m
      PROVE  k \in DOMAIN next /\ next[k] = IF owner[k] = m THEN t.next[k] ELSE position[k]
  <2>1. CASE k = p
    BY <1>1, <2>1, GroupAssumption, Zenon
  <2>2. CASE k # p
    <3>1. owner[k] = m /\ k \in DOMAIN t.next
      BY <1>2, <1>6, <1>7, <2>2, Zenon DEF MemberInv, Owns
    <3> QED  BY <2>2, <3>1, Zenon
  <2> QED  BY <2>1, <2>2
<1> HIDE DEF next
<1>8. MemberInv(m, [t EXCEPT !.next = next], position, owner', handled)
  BY <1>1, <1>2, <1>5, <1>7, FetchPositionsChange, Zenon
<1>9. MemberInv(m, [t EXCEPT !.next = next], position', owner', handled') /\ handled \subseteq handled'
  BY <1>1, <1>8, Zenon
<1>10. BrokerInv'
  <2>1. owner' \in [Partitions -> Members \cup {NoMember}]
    BY <1>1, <1>2, Zenon
  <2> QED  BY <1>1, <2>1 DEF IInv, BrokerInv, NothingSkipped
<1>11. \A k \in Partitions : owner'[k] # m => owner'[k] = NoMember \/ (owner'[k] = owner[k] /\ position'[k] = position[k])
  BY <1>1, <1>6, Zenon
<1> QED  BY <1>1, <1>3, <1>9, <1>10, <1>11, MemberMoves, Zenon

\* A process learns, with its gate open, that a partition is not its own.
LEMMA LoseKeeps ==
    ASSUME IInv, NEW m \in Members, NEW p \in Partitions, member[m].run = "polling",
           member' = [member EXCEPT ![m] = [member[m] EXCEPT !.next = [k \in DOMAIN member[m].next \ {p} |-> member[m].next[k]]]],
           UNCHANGED <<position, handled>>,
           (owner[p] # m /\ owner' = owner) \/ owner' = [owner EXCEPT ![p] = NoMember]
    PROVE  IInv'
<1> DEFINE t == member[m]
           next == [k \in DOMAIN t.next \ {p} |-> t.next[k]]
<1>1. /\ t \in MemberState /\ MemberInv(m, t, position, owner, handled) /\ position \in [Partitions -> 0..NumOffsets]
      /\ owner \in [Partitions -> Members \cup {NoMember}]
  BY Zenon DEF IInv, BrokerInv, MemberInv
<1>2. DOMAIN t.next \subseteq Partitions /\ \A k \in DOMAIN t.next : t.next[k] \in 0..NumOffsets
  BY <1>1, MemberFields, Zenon
<1>3. next \in NextMaps
  <2>1. next \in [DOMAIN t.next \ {p} -> 0..NumOffsets] /\ DOMAIN t.next \ {p} \in SUBSET Partitions
    BY <1>2, Zenon
  <2> HIDE DEF next
  <2> QED  BY <2>1, Zenon DEF NextMaps
<1>4. owner'[p] # m /\ (\A k \in Partitions : owner'[k] = owner[k] \/ owner'[k] = NoMember) /\ NoMember # m
  BY <1>1, GroupAssumption, Zenon
<1>5. ASSUME NEW k \in Partitions, owner'[k] = m
      PROVE  k \in DOMAIN next /\ next[k] = IF owner[k] = m THEN t.next[k] ELSE position[k]
  <2>1. k # p /\ owner[k] = m
    BY <1>4, <1>5, Zenon
  <2>2. k \in DOMAIN t.next
    BY <1>1, <2>1, Zenon DEF MemberInv, Owns
  <2> QED  BY <2>1, <2>2, Zenon
<1>6. member' = [member EXCEPT ![m] = [t EXCEPT !.next = next]]
  BY Zenon
<1> HIDE DEF next
<1>7. MemberInv(m, [t EXCEPT !.next = next], position, owner', handled)
  BY <1>1, <1>3, <1>5, FetchPositionsChange, Zenon
<1>8. MemberInv(m, [t EXCEPT !.next = next], position', owner', handled') /\ handled \subseteq handled'
  BY <1>7, Zenon
<1>9. BrokerInv'
  <2>1. owner' \in [Partitions -> Members \cup {NoMember}]
    BY <1>1, Zenon
  <2> QED  BY <2>1, Zenon DEF IInv, BrokerInv, NothingSkipped
<1>10. \A k \in Partitions : owner'[k] # m => owner'[k] = NoMember \/ (owner'[k] = owner[k] /\ position'[k] = position[k])
  BY <1>4, Zenon
<1> QED  BY <1>6, <1>8, <1>9, <1>10, MemberMoves, Zenon

\* The owner gives a partition up with the gate open, all its records settled.
LEMMA RevokeKeeps ==
    ASSUME IInv, NEW p \in Partitions, Revoke(p)
    PROVE  IInv' /\ UNCHANGED position
<1> DEFINE m == owner[p]
<1>1. /\ m # NoMember /\ member[m].run = "polling" /\ UNCHANGED <<position, handled>>
      /\ owner' = [owner EXCEPT ![p] = NoMember]
  BY Zenon DEF Revoke, GateOpen
<1>2. owner \in [Partitions -> Members \cup {NoMember}] /\ member \in [Members -> MemberState]
  BY Zenon DEF IInv, BrokerInv
<1>3. PICK n \in Members : n = owner[p]
  BY <1>1, <1>2, Zenon
<1>4. member' = [member EXCEPT ![n] = [member[n] EXCEPT !.next = [k \in DOMAIN member[n].next \ {p} |-> member[n].next[k]]]]
  BY <1>2, <1>3, Zenon DEF Revoke
<1> QED  BY <1>1, <1>3, <1>4, LoseKeeps, Zenon

\* A member learns that a partition it was evicted from is gone.
LEMMA LostKeeps ==
    ASSUME IInv, NEW m \in Members, NEW p \in Partitions, Lost(p, m)
    PROVE  IInv' /\ UNCHANGED position
<1>1. owner[p] # m /\ member[m].run = "polling" /\ UNCHANGED <<position, owner, handled>>
  BY Zenon DEF Lost, GateOpen
<1>2. member \in [Members -> MemberState]
  BY Zenon DEF IInv
<1>3. member' = [member EXCEPT ![m] = [member[m] EXCEPT !.next = [k \in DOMAIN member[m].next \ {p} |-> member[m].next[k]]]]
  BY <1>2, Zenon DEF Lost
<1> QED  BY <1>1, <1>3, LoseKeeps, Zenon

\* The broker takes a partition; the member does not know.
LEMMA EvictKeeps ==
    ASSUME IInv, NEW p \in Partitions, Evict(p)
    PROVE  IInv' /\ UNCHANGED position
<1>1. owner' = [owner EXCEPT ![p] = NoMember] /\ UNCHANGED <<position, member, handled>>
  BY Zenon DEF Evict
<1>2. owner \in [Partitions -> Members \cup {NoMember}]
  BY Zenon DEF IInv, BrokerInv
<1>3. BrokerInv'
  <2>1. owner' \in [Partitions -> Members \cup {NoMember}]
    BY <1>1, <1>2, Zenon
  <2> QED  BY <1>1, <2>1 DEF IInv, BrokerInv, NothingSkipped
<1>4. ASSUME NEW m \in Members PROVE MemberInv(m, member[m], position, owner', handled)
  <2>1. \A k \in Partitions : owner'[k] = m => owner[k] = m
    BY <1>1, <1>2, GroupAssumption
  <2>2. MemberInv(m, member[m], position, owner, handled)
    BY Zenon DEF IInv
  <2> QED  BY <2>1, <2>2, MemberKept, Zenon
<1> QED  BY <1>1, <1>3, <1>4, Zenon DEF IInv

-----------------------------------------------------------------------------
(* The poll.                                                               *)

\* A batch holds what was fetched, each partition in the order of its offsets.
LEMMA BatchFacts ==
    ASSUME NEW F \in SUBSET Records, NEW b \in Batches(F)
    PROVE  /\ b \in Seq(Records) /\ Ordered(b)
           /\ \A x : (\E i \in DOMAIN b : b[i] = x) <=> x \in F
<1> DEFINE c == Cardinality(F)
<1>1. IsFiniteSet(F) /\ c \in Nat
  <2>1. IsFiniteSet(Partitions) /\ IsFiniteSet(Offsets)
    BY FS_Interval, GroupAssumption DEF Partitions, Offsets
  <2>2. IsFiniteSet(Records)
    BY <2>1, FS_Product, Zenon DEF Records
  <2> QED  BY <2>2, FS_Subset, FS_CardinalityType
<1>2. /\ b \in [1..c -> F] /\ \A x \in F : \E i \in 1..c : b[i] = x
      /\ \A i, j \in DOMAIN b : i < j => b[i][1] < b[j][1] \/ (b[i][1] = b[j][1] /\ b[i][2] < b[j][2])
  BY Zenon DEF Batches, Bijection, Injection, Surjection
<1> HIDE DEF c
<1>3. b \in Seq(Records)
  <2>1. b \in [1..c -> Records]
    BY <1>2, Zenon
  <2> QED  BY <1>1, <2>1
<1>4. \A i \in DOMAIN b : b[i] \in Records /\ b[i][1] \in Int
  BY <1>3 DEF Records, Partitions
<1>5. Ordered(b)
  <2> SUFFICES ASSUME NEW i \in DOMAIN b, NEW j \in DOMAIN b, i < j, b[i][1] = b[j][1] PROVE b[i][2] < b[j][2]
    BY Zenon DEF Ordered
  <2>1. ~(b[i][1] < b[j][1])
    BY <1>4
  <2> QED  BY <1>2, <2>1, Zenon
<1>7. \A x \in F : \E i \in DOMAIN b : b[i] = x
  BY <1>2, Zenon
<1>8. \A i \in DOMAIN b : b[i] \in F
  BY <1>2, Zenon
<1> QED  BY <1>3, <1>5, <1>7, <1>8, Zenon

\* A poll continues every partition where the last one ended.
LEMMA PollKeeps ==
    ASSUME IInv, NEW m \in Members, Poll(m)
    PROVE  IInv'
<1> DEFINE t == member[m]
<1>1. t.run = "polling" /\ UNCHANGED <<position, owner, handled>>
  BY Zenon DEF Poll
<1>2. /\ t \in MemberState /\ MemberInv(m, t, position, owner, handled) /\ Between(t) /\ Bounded(t) /\ Owns(m, t, owner)
      /\ Honest(t, handled) /\ member \in [Members -> MemberState]
  BY Zenon DEF IInv, MemberInv
<1>3. /\ t.todo = <<>> /\ ~t.registered /\ ~t.aborted /\ t.queue = <<>> /\ t.jobs = {}
      /\ DOMAIN t.next \subseteq Partitions /\ \A p \in DOMAIN t.next : t.next[p] \in 0..NumOffsets
  BY <1>1, <1>2, MemberFields, Zenon DEF Between
<1> DEFINE F(n) == {r \in Records : r[1] \in DOMAIN t.next /\ r[2] \in t.next[r[1]]..(t.next[r[1]] + n[r[1]] - 1)}
<1>4. PICK n \in [DOMAIN t.next -> 0..PollLimit] :
         /\ \A p \in DOMAIN t.next : t.next[p] + n[p] <= NumOffsets
         /\ \E batch \in Batches(F(n)) :
               member' = [member EXCEPT ![m].run = "batch",
                                        ![m].next = [p \in DOMAIN t.next |-> t.next[p] + n[p]],
                                        ![m].todo = batch]
  BY ZenonT(60) DEF Poll
<1>5. PICK batch \in Batches(F(n)) :
         member' = [member EXCEPT ![m].run = "batch",
                                  ![m].next = [p \in DOMAIN t.next |-> t.next[p] + n[p]],
                                  ![m].todo = batch]
  BY <1>4, Zenon
<1>6. /\ batch \in Seq(Records) /\ Ordered(batch)
      /\ \A x : (\E i \in DOMAIN batch : batch[i] = x) <=> x \in F(n)
  <2>1. F(n) \in SUBSET Records
    OBVIOUS
  <2> QED  BY <2>1, BatchFacts, Zenon
<1> DEFINE next == [p \in DOMAIN t.next |-> t.next[p] + n[p]]
           s == [t EXCEPT !.run = "batch", !.next = next, !.todo = batch]
<1>7. /\ DOMAIN next = DOMAIN t.next /\ next \in NextMaps
      /\ \A p \in DOMAIN t.next : next[p] = t.next[p] + n[p] /\ t.next[p] \in Nat /\ n[p] \in Nat
  <2>1. \A p \in DOMAIN t.next : t.next[p] \in Nat /\ n[p] \in Nat /\ t.next[p] + n[p] \in 0..NumOffsets
    <3>1. \A p \in DOMAIN t.next : t.next[p] + n[p] <= NumOffsets
      BY <1>4, Zenon
    <3>2. NumOffsets \in Nat /\ PollLimit \in Nat
      BY GroupAssumption, Zenon
    <3>3. \A p \in DOMAIN t.next : n[p] \in 0..PollLimit
      BY Zenon
    <3> QED  BY <1>3, <3>1, <3>2, <3>3
  <2>2. next \in [DOMAIN t.next -> 0..NumOffsets] /\ DOMAIN t.next \in SUBSET Partitions
    BY <1>3, <2>1
  <2> QED  BY <2>1, <2>2, Zenon DEF NextMaps
<1>8. member' = [member EXCEPT ![m] = s]
  BY <1>2, <1>5, Zenon
<1> HIDE DEF next
<1>9. /\ s \in MemberState /\ s.run = "batch" /\ s.fatal = t.fatal /\ s.shutdown = t.shutdown
      /\ s.aborted = t.aborted /\ s.pending = t.pending /\ s.next = next /\ s.jobs = t.jobs
      /\ s.queue = t.queue /\ s.todo = batch /\ s.registered = t.registered
  BY <1>2, <1>6, <1>7, Zenon DEF MemberState
<1> HIDE DEF s
<1>10. Between(s) /\ Bounded(s) /\ Owns(m, s, owner) /\ Ordered(s.todo)
  BY <1>2, <1>3, <1>6, <1>7, <1>9, Zenon DEF Between, Bounded, Owns
<1>11. Honest(s, handled)
  BY <1>2, <1>3, <1>9, Zenon DEF Honest
<1>12. ~Active(s) /\ (Healthy(s) => Healthy(t))
  BY <1>3, <1>9, SMTT(20) DEF Active, Healthy
<1>13. ASSUME Healthy(s)
       PROVE  /\ \A p \in Partitions : s.pending[p] = <<>>
              /\ \A p \in Partitions : owner[p] = m => position[p] = t.next[p]
  <2>1. t.run = "polling" /\ ~t.fatal /\ ~t.shutdown /\ MemberInv(m, t, position, owner, handled)
    BY <1>1, <1>2, <1>3, <1>12, <1>13, Zenon DEF Healthy
  <2>2. /\ \A p \in Partitions : t.pending[p] = <<>>
        /\ \A p \in Partitions : owner[p] = m => position[p] = t.next[p]
    BY <2>1, OpenIsClean, SMTT(30)
  <2> QED BY <1>9, <2>2, Zenon
<1>14. Flying(s)
  BY <1>13 DEF Flying
<1>15. ASSUME Healthy(s), NEW p \in Partitions
       PROVE  \E e \in 0..NumOffsets : Tracks(m, s, p, position, owner, e)
  <2> DEFINE e == IF p \in DOMAIN next THEN t.next[p] ELSE 0
  <2>1. e \in 0..NumOffsets
    BY <1>3, <1>7, GroupAssumption
  <2>2. ASSUME NEW o \in Nat PROVE Comes(s, p, o) <=> p \in DOMAIN s.next /\ e <= o /\ o < s.next[p]
    <3>1. Comes(s, p, o) <=> \E i \in DOMAIN batch : batch[i] = <<p, o>>
      BY <1>3, <1>9, Zenon DEF Comes, Rest
    <3>2. Comes(s, p, o) <=> <<p, o>> \in F(n)
      BY <1>6, <3>1, Zenon
    <3>3. CASE p \notin DOMAIN next
      BY <1>7, <1>9, <3>2, <3>3, Zenon
    <3>4. CASE p \in DOMAIN next
      <4>1. /\ t.next[p] \in Nat /\ n[p] \in Nat /\ next[p] = t.next[p] + n[p] /\ t.next[p] + n[p] <= NumOffsets
            /\ NumOffsets \in Nat
        BY <1>4, <1>7, <3>4, GroupAssumption, Zenon
      <4>2. <<p, o>> \in F(n) <=> o \in Offsets /\ o \in t.next[p]..(t.next[p] + n[p] - 1)
        BY <1>7, <3>4, Zenon DEF Records
      <4>3. o \in Offsets /\ o \in t.next[p]..(t.next[p] + n[p] - 1) <=> t.next[p] <= o /\ o < next[p]
        BY <4>1 DEF Offsets
      <4> QED  BY <1>9, <3>2, <3>4, <4>2, <4>3, Zenon
    <3> QED  BY <3>3, <3>4, Zenon
  <2>3. p \in DOMAIN s.next => e <= s.next[p]
    BY <1>7, <1>9
  <2>4. owner[p] = m => position[p] = e
    <3>1. owner[p] = m => p \in DOMAIN next
      BY <1>2, <1>7, Zenon DEF Owns
    <3> QED  BY <1>13, <1>15, <3>1, Zenon
  <2>5. s.pending[p] = <<>>
    BY <1>13, <1>15, Zenon
  <2> HIDE DEF e
  <2>6. Tracks(m, s, p, position, owner, e)
    BY <2>2, <2>3, <2>4, <2>5 DEF Tracks
  <2> QED  BY <2>1, <2>6, Zenon
<1>16. \A p \in Partitions : Tracked(m, s, p, position, owner) /\ Positioned(m, s, p, position, owner)
  <2>1. ASSUME NEW p \in Partitions, Healthy(s) PROVE Lined(m, s.pending[p], p, position, owner)
    BY <1>13, <2>1 DEF Lined
  <2> QED  BY <1>12, <1>15, <2>1, Zenon DEF Tracked, Positioned
<1>17. MemberInv(m, s, position, owner, handled)
  BY <1>9, <1>10, <1>11, <1>14, <1>16, Zenon DEF MemberInv
<1>18. MemberInv(m, s, position', owner', handled') /\ handled \subseteq handled'
  BY <1>1, <1>17, Zenon
<1>19. BrokerInv'
  BY <1>1, Zenon DEF IInv, BrokerInv, NothingSkipped
<1>20. \A p \in Partitions : owner'[p] # m => owner'[p] = NoMember \/ (owner'[p] = owner[p] /\ position'[p] = position[p])
  BY <1>1, Zenon
<1> QED  BY <1>8, <1>18, <1>19, <1>20, MemberMoves, Zenon

-----------------------------------------------------------------------------
(* The theorems.                                                           *)

\* Before the first poll nothing is owned, pending or committed.
LEMMA InitHolds == Init => IInv
<1> SUFFICES ASSUME Init PROVE IInv
  BY Zenon
<1>1. \A m \in Members : member[m] = Started /\ \A p \in Partitions : owner[p] # m
  BY GroupAssumption, Zenon DEF Init
<1>2. \A m \in Members : MemberInv(m, member[m], position, owner, handled)
  BY <1>1, FreshKeeps
<1>3. BrokerInv
  BY GroupAssumption DEF Init, BrokerInv, NothingSkipped
<1>4. member \in [Members -> MemberState]
  <2>1. \A m \in Members : member[m] \in MemberState
    BY <1>2, Zenon DEF MemberInv
  <2> QED  BY <2>1, Zenon DEF Init
<1> QED  BY <1>2, <1>3, <1>4 DEF IInv

\* A position that is left alone did not go back.
LEMMA StayForward ==
    ASSUME IInv, UNCHANGED position
    PROVE  Forward
<1>1. \A p \in Partitions : position[p] \in Int
  BY GroupAssumption DEF IInv, BrokerInv
<1>2. \A p \in Partitions : position[p] >= position[p]
  BY <1>1
<1> QED  BY <1>2, Zenon DEF Forward

\* Every step keeps the invariant and moves positions forward only.
LEMMA NextKeeps ==
    ASSUME IInv, [Next]_vars
    PROVE  IInv' /\ Forward
<1>1. ASSUME NEW m \in Members, PollLoop(m) PROVE IInv' /\ Forward
  <2>1. CASE Poll(m)
    BY <2>1, PollKeeps, StayForward, Zenon DEF Poll
  <2>2. CASE Register(m)
    BY <2>2, RegisterKeeps, StayForward, Zenon DEF Register
  <2>3. CASE Submit(m)
    BY <2>3, SubmitKeeps, StayForward, Zenon DEF Submit
  <2>4. CASE SubmitStops(m)
    BY <2>4, SubmitStopsKeeps, StayForward, Zenon DEF SubmitStops
  <2>5. CASE DeadLetterMalformed(m)
    BY <2>5, DeadLetterMalformedKeeps, StayForward, Zenon DEF DeadLetterMalformed
  <2>6. CASE AckMalformed(m)
    BY <2>6, AckMalformedKeeps, Zenon
  <2>7. CASE BatchEnds(m)
    BY <2>7, FlagKeeps, StayForward, Zenon DEF BatchEnds
  <2>8. CASE RunReturns(m)
    BY <2>8, StopKeeps, StayForward
  <2> QED  BY <1>1, <2>1, <2>2, <2>3, <2>4, <2>5, <2>6, <2>7, <2>8 DEF PollLoop
<1>2. ASSUME NEW m \in Members, Pool(m) PROVE IInv' /\ Forward
  <2>1. CASE Take(m)
    BY <2>1, TakeKeeps, StayForward, Zenon DEF Take
  <2>2. ASSUME NEW j \in member[m].jobs, Process(m, j) \/ DeadLetter(m, j) PROVE IInv' /\ Forward
    BY <2>2, WorkKeeps, StayForward DEF Process, DeadLetter
  <2>3. ASSUME NEW j \in member[m].jobs, DeadLetterFails(m, j) PROVE IInv' /\ Forward
    BY <2>3, DeadLetterFailsKeeps, StayForward, Zenon DEF DeadLetterFails
  <2>4. ASSUME NEW j \in member[m].jobs, AckJob(m, j) PROVE IInv' /\ Forward
    BY <2>4, AckJobKeeps, Zenon
  <2> QED  BY <1>2, <2>1, <2>2, <2>3, <2>4, Zenon DEF Pool
<1>3. ASSUME NEW m \in Members, PollFails(m) \/ Shutdown(m) PROVE IInv' /\ Forward
  BY <1>3, FlagKeeps, StayForward DEF PollFails, Shutdown
<1>4. ASSUME NEW m \in Members, Crash(m) \/ Restart(m) PROVE IInv' /\ Forward
  BY <1>4, StopKeeps, RestartKeeps, StayForward, Zenon
<1>5. ASSUME NEW p \in Partitions, Revoke(p) \/ Evict(p) PROVE IInv' /\ Forward
  BY <1>5, RevokeKeeps, EvictKeeps, StayForward
<1>6. ASSUME NEW p \in Partitions, NEW m \in Members, Assign(p, m) \/ Lost(p, m) PROVE IInv' /\ Forward
  BY <1>6, AssignKeeps, LostKeeps, StayForward, Zenon
<1>7. CASE UNCHANGED vars
  <2>1. IInv'
    BY <1>7 DEF vars, IInv, BrokerInv, NothingSkipped
  <2> QED  BY <1>7, <2>1, StayForward, Zenon DEF vars
<1> QED  BY <1>1, <1>2, <1>3, <1>4, <1>5, <1>6, <1>7, Zenon DEF Next

\* The inductive invariant holds throughout.
THEOREM Invariance == Spec => []IInv
<1>1. IInv /\ [Next]_vars => IInv'
  BY NextKeeps, Zenon
<1> QED  BY InitHolds, <1>1, PTL DEF Spec

\* The invariant says what the run checks.
LEMMA InvariantIsSafe == IInv => OffsetsSafe
<1> SUFFICES ASSUME IInv PROVE OffsetsSafe
  BY Zenon
<1>1. ASSUME NEW m \in Members
      PROVE  LET s == member[m] IN
             /\ s.run \in {"polling", "batch", "stopped"}
             /\ {s.fatal, s.shutdown, s.registered, s.aborted} \subseteq BOOLEAN
             /\ DOMAIN s.next \subseteq Partitions
             /\ \A p \in DOMAIN s.next : s.next[p] \in 0..NumOffsets
             /\ s.todo \in Seq(Records) /\ s.queue \in Seq(Records)
             /\ Len(s.queue) <= QueueCapacity
             /\ Cardinality(s.jobs) <= Workers
             /\ \A j \in s.jobs : j.attempt \in 1..MaxAttempts
  <2> DEFINE s == member[m]
  <2>1. s \in MemberState /\ Bounded(s)
    BY DEF IInv, MemberInv
  <2>2. \A j \in s.jobs : j.attempt \in 1..MaxAttempts
    BY <2>1, MemberFields, Zenon DEF Job
  <2> QED  BY <2>1, <2>2, MemberFields, Zenon DEF Bounded
<1>2. TypeOK
  BY <1>1, Zenon DEF TypeOK, IInv, BrokerInv
<1>3. GateOpensClean
  <2> SUFFICES ASSUME NEW m \in Members, member[m].run = "polling", ~RunContextDone(m)
               PROVE  \A p \in Partitions : member[m].pending[p] = <<>>
    BY Zenon DEF GateOpensClean
  <2>1. MemberInv(m, member[m], position, owner, handled) /\ ~member[m].fatal /\ ~member[m].shutdown
    BY Zenon DEF IInv, RunContextDone
  <2> QED  BY <2>1, OpenIsClean, Zenon
<1> QED  BY <1>2, <1>3 DEF OffsetsSafe, IInv, BrokerInv

\* Every record below a committed position was processed or is in the
\* dead-letter topic, and a healthy member's gate opens with no entry left:
\* whatever the number of members, partitions, records and workers, and however
\* often processes crash, commits fail and partitions move.
THEOREM Safety == Spec => []OffsetsSafe
BY Invariance, InvariantIsSafe, PTL

\* No committed position goes back: neither a failed commit that was applied,
\* nor a member that was evicted and still commits, undoes one.
THEOREM Monotonicity == Spec => PositionMonotone
<1>1. IInv /\ [Next]_vars => [\A p \in Partitions : position'[p] >= position[p]]_vars
  BY NextKeeps, Zenon DEF Forward
<1> QED  BY <1>1, Invariance, PTL DEF Spec, PositionMonotone
=============================================================================
