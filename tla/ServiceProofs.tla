--------------------------- MODULE ServiceProofs ----------------------------
(***************************************************************************)
(* What is proved of the services beside the event path, each under its    *)
(* own specification: the lock-free ring, the configuration lifecycle, the *)
(* control loop and the fabric status.                                     *)
(***************************************************************************)
EXTENDS FastRing, Lifecycle, Autonomy, FabricStatus, TLAPS

-----------------------------------------------------------------------------
(***************************************************************************)
(* The ring: every buffer is in one place, for any number of slots,        *)
(* goroutines and positions.                                               *)
(***************************************************************************)

RingSpec == RingInit /\ [][RingNext]_ringVars

Pushing == {"push", "pushSeq", "pushCAS", "pushValue", "pushFull"}
Popping == {"pop", "popSeq", "popCAS", "popValue", "popEmpty"}
Indices == 0..(Slots - 1)
Thread == [at : Pushing \cup Popping \cup {"out", "pushDone", "popClear", "popDone"},
           position : Nat, attempts : Nat]

RingTyped ==
    /\ enqueue \in Nat /\ dequeue \in Nat
    /\ slotSeq \in [Indices -> Nat]
    /\ slotValue \in [Indices -> SUBSET Buffers]
    /\ thread \in [Goroutines -> Thread]
    /\ held \in [Goroutines -> SUBSET Buffers]
    /\ unused \subseteq Buffers

\* g has taken a position of the ring and not yet handed its slot on.
Filling(g) == thread[g].at \in {"pushValue", "pushDone"}
Draining(g) == thread[g].at \in {"popValue", "popClear", "popDone"}
Place(g) == Slot(thread[g].position)

\* The sequence of a slot is the position that may be pushed to it next, at
\* most a lap ahead of the consumers, or one more than the position that may be
\* popped from it, at most a lap behind the producers.
Sequenced ==
    /\ dequeue <= enqueue /\ enqueue <= dequeue + Slots
    /\ \A i \in Indices : \A p \in Nat : Slot(p) = i =>
          /\ slotSeq[i] = p => dequeue <= p /\ p < dequeue + Slots
          /\ slotSeq[i] = p + 1 => p < enqueue /\ enqueue <= p + Slots

\* A position is taken by one goroutine, and its slot waits for that one.
Claimed ==
    /\ \A g \in Goroutines : Filling(g) =>
          thread[g].position < enqueue /\ slotSeq[Place(g)] = thread[g].position
    /\ \A g \in Goroutines : Draining(g) =>
          thread[g].position < dequeue /\ slotSeq[Place(g)] = thread[g].position + 1
    /\ \A g, h \in Goroutines : thread[g].position = thread[h].position /\ g # h =>
          ~(Filling(g) /\ Filling(h)) /\ ~(Draining(g) /\ Draining(h))

\* The sequence that was compared is still there unless the position is gone.
Compared ==
    \A g \in Goroutines :
        /\ thread[g].at = "pushCAS" /\ enqueue <= thread[g].position => slotSeq[Place(g)] = thread[g].position
        /\ thread[g].at = "popCAS" /\ dequeue <= thread[g].position => slotSeq[Place(g)] = thread[g].position + 1

\* A slot has its value from before it is published until it is popped.
Valued ==
    /\ \A i \in Indices : \A p \in Nat : Slot(p) = i /\ slotSeq[i] = p + 1 /\ dequeue <= p => slotValue[i] # {}
    /\ \A g \in Goroutines :
          /\ thread[g].at \in {"pushDone", "popValue"} => slotValue[Place(g)] # {}
          /\ thread[g].at \in Pushing \cup {"popClear", "popDone"} => held[g] # {}
          /\ thread[g].at \in Popping \cup {"pushDone"} => held[g] = {}

\* The buffers that wait in slot i.
Waits(i) == IF i \in Emptying THEN {} ELSE slotValue[i]

Exclusive ==
    /\ \A g \in Goroutines : held[g] \cap unused = {}
    /\ \A g, h \in Goroutines : g # h => held[g] \cap held[h] = {}
    /\ \A i \in Indices : Waits(i) \cap unused = {}
    /\ \A i, j \in Indices : i # j => Waits(i) \cap Waits(j) = {}
    /\ \A g \in Goroutines, i \in Indices : held[g] \cap Waits(i) = {}

RingInv == RingTyped /\ Sequenced /\ Claimed /\ Compared /\ Valued /\ Exclusive
-----------------------------------------------------------------------------
(* Positions and slots.                                                    *)

\* Division with remainder.
LEMMA Euclid ==
    ASSUME NEW N \in Nat \ {0, 1}, NEW p \in Nat
    PROVE  p = (N * (p \div N)) + (p % N) /\ p \div N \in Int /\ p % N \in 0..(N - 1)
OBVIOUS

\* Two multiples of N are at least N apart.
LEMMA Apart ==
    ASSUME NEW N \in Nat \ {0, 1}, NEW a \in Int, NEW b \in Int, a < b
    PROVE  N * a + N <= N * b
<1>1. PICK k \in Int : k = b - a
  OBVIOUS
<1>2. N * k >= N
  <2>1. \A x, y \in Nat : y >= 1 => x * y >= x
    OBVIOUS
  <2> QED  BY <1>1, <2>1
<1>3. N * b = N * a + N * k
  BY <1>1
<1> QED  BY <1>2, <1>3

\* The remainder is unique.
LEMMA UniqueRemainder ==
    ASSUME NEW N \in Nat \ {0, 1}, NEW a \in Int, NEW b \in Int, NEW r \in 0..(N - 1), NEW s \in 0..(N - 1),
           N * a + r = N * b + s
    PROVE  r = s
<1>1. N * a \in Int /\ N * b \in Int
  OBVIOUS
<1>2. a < b => N * a + N <= N * b
  BY Apart, Zenon
<1>3. b < a => N * b + N <= N * a
  BY Apart, Zenon
<1>4. ~(a < b) /\ ~(b < a)
  BY <1>1, <1>2, <1>3
<1>5. a = b
  BY <1>4
<1> QED  BY <1>1, <1>5

\* A position has a slot, the slot of the position one lap later and not that of
\* its neighbour.
LEMMA SlotFacts ==
    ASSUME NEW p \in Nat
    PROVE  Slot(p) \in Indices /\ Slot(p + Slots) = Slot(p) /\ Slot(p + 1) # Slot(p)
<1> DEFINE N == Slots
<1>1. N \in Nat \ {0, 1}
  BY RingAssumption, Zenon DEF RingAssumption
<1>2. PICK a \in Int, r \in 0..(N - 1) : p = N * a + r /\ r = p % N
  BY <1>1, Euclid, Zenon
<1>3. PICK q \in Nat : q = p + N
  BY <1>1
<1>4. PICK b \in Int, s \in 0..(N - 1) : q = N * b + s /\ s = q % N
  BY <1>1, Euclid, Zenon
<1>5. PICK c \in Int, u \in 0..(N - 1) : p + 1 = N * c + u /\ u = (p + 1) % N
  <2>1. PICK x \in Nat : x = p + 1
    OBVIOUS
  <2> QED  BY <1>1, <2>1, Euclid, Zenon
<1> HIDE DEF N
<1>6. r = s
  <2>1. PICK d \in Int : d = a + 1
    OBVIOUS
  <2>2. N * d = N * a + N /\ N * a \in Int
    BY <1>1, <2>1
  <2>3. N * d + r = N * b + s
    BY <1>1, <1>2, <1>3, <1>4, <2>2
  <2> QED  BY <1>1, <2>3, UniqueRemainder, Zenon
<1>7. r # u
  <2> SUFFICES ASSUME r = u PROVE FALSE
    BY Zenon
  <2>1. N * c = N * a + 1 /\ N * a \in Int /\ N * c \in Int
    BY <1>1, <1>2, <1>5
  <2>2. a < c => N * a + N <= N * c
    BY <1>1, Apart, Zenon
  <2>3. c < a => N * c + N <= N * a
    BY <1>1, Apart, Zenon
  <2>4. a = c
    BY <1>1, <2>1, <2>2, <2>3
  <2> QED  BY <2>1, <2>4
<1> QED  BY <1>2, <1>3, <1>4, <1>5, <1>6, <1>7, Zenon DEF Slot, Indices, N
-----------------------------------------------------------------------------
(* The steps of the ring.                                                  *)

\* The state of one goroutine changes.
LEMMA ThreadMoves ==
    ASSUME RingTyped, NEW g \in Goroutines, NEW t \in Thread, thread' = [thread EXCEPT ![g] = t]
    PROVE  /\ thread' \in [Goroutines -> Thread] /\ thread'[g] = t
           /\ \A h \in Goroutines \ {g} : thread'[h] = thread[h]
BY Zenon DEF RingTyped

\* What a state of a goroutine outside its slot must satisfy.
Outside(g, t) ==
    /\ t \in Thread
    /\ t.at \notin {"pushValue", "pushDone", "popValue", "popClear", "popDone"}
    /\ t.at = "pushCAS" /\ enqueue <= t.position => slotSeq[Slot(t.position)] = t.position
    /\ t.at = "popCAS" /\ dequeue <= t.position => slotSeq[Slot(t.position)] = t.position + 1
    /\ t.at \in Pushing => held[g] # {}
    /\ t.at \in Popping => held[g] = {}

\* A step of one goroutine that takes and hands on nothing.
LEMMA QuietKeeps ==
    ASSUME RingInv, NEW g \in Goroutines, NEW t, Outside(g, t), thread' = [thread EXCEPT ![g] = t],
           ~Filling(g), ~Draining(g), UNCHANGED <<enqueue, dequeue, slotSeq, slotValue, held, unused>>
    PROVE  RingInv'
<1>1. /\ thread' \in [Goroutines -> Thread] /\ thread'[g] = t
      /\ \A h \in Goroutines \ {g} : thread'[h] = thread[h]
  BY ThreadMoves, Zenon DEF RingInv, Outside
<1>2. RingTyped'
  BY <1>1, Zenon DEF RingInv, RingTyped
<1>3. Sequenced'
  BY Zenon DEF RingInv, Sequenced
<1>4. ~Filling(g)' /\ ~Draining(g)' /\ \A h \in Goroutines \ {g} :
         (Filling(h)' <=> Filling(h)) /\ (Draining(h)' <=> Draining(h)) /\ Place(h)' = Place(h)
  BY <1>1, Zenon DEF Outside, Filling, Draining, Place
<1>5. Claimed'
  BY <1>1, <1>4, Zenon DEF RingInv, Claimed
<1>6. Compared'
  BY <1>1, <1>4, Zenon DEF RingInv, Compared, Outside, Place
<1>7. Valued'
  BY <1>1, <1>4, Zenon DEF RingInv, Valued, Outside, Place, Pushing, Popping
<1>8. Emptying' = Emptying
  BY <1>1, Zenon DEF Emptying, Outside, Draining
<1>9. Exclusive'
  BY <1>8, Zenon DEF RingInv, Exclusive, Waits
<1> QED  BY <1>2, <1>3, <1>5, <1>6, <1>7, <1>9, Zenon DEF RingInv

\* The fields of a goroutine that moves on, begins or tries again.
LEMMA ThreadFields ==
    ASSUME RingTyped, NEW g \in Goroutines, NEW at, at \in Pushing \cup Popping \cup {"out", "pushDone", "popClear", "popDone"}
    PROVE  /\ thread[g] \in Thread
           /\ [thread[g] EXCEPT !.at = at] \in Thread
           /\ [thread[g] EXCEPT !.at = at].at = at
           /\ [thread[g] EXCEPT !.at = at].position = thread[g].position
           /\ [thread EXCEPT ![g].at = at] = [thread EXCEPT ![g] = [thread[g] EXCEPT !.at = at]]
           /\ \A p, n \in Nat : [at |-> at, position |-> p, attempts |-> n] \in Thread
BY Zenon DEF RingTyped, Thread

\* A goroutine tries again or gives up.
LEMMA AgainKeeps ==
    ASSUME RingInv, NEW g \in Goroutines, NEW at, NEW gaveUp, Again(g, at, gaveUp), ~Filling(g), ~Draining(g),
           \/ at = "push" /\ gaveUp = "pushFull" /\ held[g] # {}
           \/ at = "pop" /\ gaveUp = "popEmpty" /\ held[g] = {},
           UNCHANGED <<enqueue, dequeue, slotSeq, slotValue, held, unused>>
    PROVE  RingInv'
<1>1. RingTyped /\ thread[g].attempts + 1 \in Nat
  BY DEF RingInv, RingTyped, Thread
<1>2. CASE thread[g].attempts + 1 < MaxAttempts
  <2> DEFINE t == [at |-> at, position |-> 0, attempts |-> thread[g].attempts + 1]
  <2>1. thread' = [thread EXCEPT ![g] = t]
    BY <1>2, Zenon DEF Again
  <2>2. Outside(g, t)
    BY <1>1, ThreadFields, Zenon DEF Outside, Pushing, Popping
  <2> QED  BY <2>1, <2>2, QuietKeeps, Zenon
<1>3. CASE ~(thread[g].attempts + 1 < MaxAttempts)
  <2> DEFINE t == [thread[g] EXCEPT !.at = gaveUp]
  <2>1. thread' = [thread EXCEPT ![g] = t]
    BY <1>1, <1>3, ThreadFields, Zenon DEF Again, Pushing, Popping
  <2>2. t \in Thread /\ t.at = gaveUp
    BY <1>1, ThreadFields, Zenon DEF Pushing, Popping
  <2> HIDE DEF t
  <2>3. Outside(g, t)
    BY <2>2, Zenon DEF Outside, Pushing, Popping
  <2> QED  BY <2>1, <2>3, QuietKeeps, Zenon
<1> QED  BY <1>2, <1>3, Zenon

\* Put begins: the goroutine has a buffer.
LEMMA PutKeeps ==
    ASSUME RingInv, NEW g \in Goroutines, Put(g)
    PROVE  RingInv'
<1> DEFINE t == [thread[g] EXCEPT !.at = "push"]
<1>1. /\ t \in Thread /\ t.at = "push" /\ thread' = [thread EXCEPT ![g] = t]
      /\ ~Filling(g) /\ ~Draining(g) /\ held[g] # {}
  BY ThreadFields, Zenon DEF Put, Moves, RingInv, Filling, Draining, Pushing
<1> HIDE DEF t
<1>2. Outside(g, t)
  BY <1>1, Zenon DEF Outside, Popping
<1> QED  BY <1>1, <1>2, QuietKeeps, Zenon DEF Put

\* Get begins: the goroutine has no buffer.
LEMMA GetKeeps ==
    ASSUME RingInv, NEW g \in Goroutines, Get(g)
    PROVE  RingInv'
<1> DEFINE t == [thread[g] EXCEPT !.at = "pop"]
<1>1. /\ t \in Thread /\ t.at = "pop" /\ thread' = [thread EXCEPT ![g] = t]
      /\ ~Filling(g) /\ ~Draining(g) /\ held[g] = {}
  BY ThreadFields, Zenon DEF Get, Moves, RingInv, Filling, Draining, Popping
<1> HIDE DEF t
<1>2. Outside(g, t)
  BY <1>1, Zenon DEF Outside, Pushing
<1> QED  BY <1>1, <1>2, QuietKeeps, Zenon DEF Get

\* TryPush and TryPop load a position.
LEMMA LoadKeeps ==
    ASSUME RingInv, NEW g \in Goroutines, PushLoads(g) \/ PopLoads(g)
    PROVE  RingInv'
<1>1. PICK at \in {"pushSeq", "popSeq"}, p \in Nat :
         /\ thread' = [thread EXCEPT ![g].at = at, ![g].position = p]
         /\ at = "pushSeq" => thread[g].at = "push"
         /\ at = "popSeq" => thread[g].at = "pop"
  BY Zenon DEF PushLoads, PopLoads, RingInv, RingTyped
<1> DEFINE t == [thread[g] EXCEPT !.at = at, !.position = p]
<1>2. thread' = [thread EXCEPT ![g] = t] /\ t \in Thread /\ t.at = at
  BY <1>1, Zenon DEF RingInv, RingTyped, Thread, Pushing, Popping
<1> HIDE DEF t
<1>3. Outside(g, t)
  BY <1>1, <1>2, Zenon DEF Outside, RingInv, Valued, Pushing, Popping
<1>4. ~Filling(g) /\ ~Draining(g)
  BY <1>1, Zenon DEF Filling, Draining
<1> QED  BY <1>2, <1>3, <1>4, QuietKeeps, Zenon DEF PushLoads, PopLoads

\* TryPush and TryPop compare the sequence of the slot with the position.
LEMMA CompareKeeps ==
    ASSUME RingInv, NEW g \in Goroutines, PushCompare(g) \/ PopCompare(g)
    PROVE  RingInv'
<1>1. /\ UNCHANGED <<enqueue, dequeue, slotSeq, slotValue, held, unused>> /\ ~Filling(g) /\ ~Draining(g)
      /\ PushCompare(g) => held[g] # {}
      /\ PopCompare(g) => held[g] = {}
  BY Zenon DEF PushCompare, PopCompare, RingInv, Valued, Filling, Draining, Pushing, Popping
<1>2. /\ thread[g].position \in Nat /\ slotSeq[Place(g)] \in Nat
  BY SlotFacts, Zenon DEF RingInv, RingTyped, Thread, Place
<1>3. CASE Again(g, "push", "pushFull") /\ PushCompare(g)
  BY <1>1, <1>3, AgainKeeps, Zenon
<1>4. CASE Again(g, "pop", "popEmpty") /\ PopCompare(g)
  BY <1>1, <1>4, AgainKeeps, Zenon
<1>5. ASSUME NEW at, Moves(g, at),
             \/ at = "pushCAS" /\ held[g] # {} /\ slotSeq[Place(g)] = thread[g].position
             \/ at = "popCAS" /\ held[g] = {} /\ slotSeq[Place(g)] = thread[g].position + 1
             \/ at = "pushFull" /\ held[g] # {}
             \/ at = "popEmpty" /\ held[g] = {}
      PROVE  RingInv'
  <2> DEFINE t == [thread[g] EXCEPT !.at = at]
  <2>1. t \in Thread /\ t.at = at /\ t.position = thread[g].position /\ thread' = [thread EXCEPT ![g] = t]
    BY <1>5, ThreadFields, Zenon DEF RingInv, Moves, Pushing, Popping
  <2> HIDE DEF t
  <2>2. Outside(g, t)
    BY <1>5, <2>1, Zenon DEF Outside, Place, Pushing, Popping
  <2> QED  BY <1>1, <2>1, <2>2, QuietKeeps, Zenon
<1>6. CASE PushCompare(g)
  <2> DEFINE d == slotSeq[Place(g)] - thread[g].position
  <2>1. \/ d = 0 /\ Moves(g, "pushCAS")
        \/ Moves(g, "pushFull")
        \/ Again(g, "push", "pushFull")
    BY <1>2, <1>6, Zenon DEF PushCompare, Place
  <2>2. d = 0 => slotSeq[Place(g)] = thread[g].position
    BY <1>2
  <2> QED  BY <1>1, <1>3, <1>5, <1>6, <2>1, <2>2, Zenon
<1>7. CASE PopCompare(g)
  <2> DEFINE d == slotSeq[Place(g)] - (thread[g].position + 1)
  <2>1. \/ d = 0 /\ Moves(g, "popCAS")
        \/ Moves(g, "popEmpty")
        \/ Again(g, "pop", "popEmpty")
    BY <1>2, <1>7, Zenon DEF PopCompare, Place
  <2>2. d = 0 => slotSeq[Place(g)] = thread[g].position + 1
    BY <1>2
  <2> QED  BY <1>1, <1>4, <1>5, <1>7, <2>1, <2>2, Zenon
<1> QED  BY <1>6, <1>7, Zenon

\* TryPush takes its position: the slot is free, and a lap behind no consumer.
LEMMA PushCASKeeps ==
    ASSUME RingInv, NEW g \in Goroutines, PushCAS(g)
    PROVE  RingInv'
<1>1. /\ UNCHANGED <<dequeue, slotSeq, slotValue, held, unused>> /\ ~Filling(g) /\ ~Draining(g)
      /\ held[g] # {} /\ thread[g].at = "pushCAS"
  BY Zenon DEF PushCAS, RingInv, Valued, Filling, Draining, Pushing
<1>2. CASE enqueue # thread[g].position
  <2>1. UNCHANGED enqueue /\ Again(g, "push", "pushFull")
    BY <1>2, Zenon DEF PushCAS
  <2> QED  BY <1>1, <2>1, AgainKeeps, Zenon
<1>3. CASE enqueue = thread[g].position
  <2> DEFINE t == [thread[g] EXCEPT !.at = "pushValue"]
  <2>1. enqueue' = enqueue + 1 /\ Moves(g, "pushValue")
    BY <1>3, Zenon DEF PushCAS
  <2>2. t \in Thread /\ t.at = "pushValue" /\ t.position = enqueue /\ thread' = [thread EXCEPT ![g] = t]
    BY <1>3, <2>1, ThreadFields, Zenon DEF RingInv, Moves, Pushing
  <2> HIDE DEF t
  <2>3. /\ thread' \in [Goroutines -> Thread] /\ thread'[g] = t
        /\ \A h \in Goroutines \ {g} : thread'[h] = thread[h]
    BY <2>2, ThreadMoves, Zenon DEF RingInv
  <2>4. PICK e \in Nat : e = enqueue /\ enqueue' = e + 1
    BY <2>1, Zenon DEF RingInv, RingTyped
  <2>5. /\ dequeue \in Nat /\ Slots \in Nat \ {0, 1} /\ Slot(e) \in Indices /\ Place(g) = Slot(e) /\ slotSeq[Slot(e)] = e
        /\ \A p \in Nat : Slot(p + Slots) = Slot(p) /\ Slot(p + 1) # Slot(p)
    BY <1>1, <1>3, <2>4, SlotFacts, RingAssumption DEF RingInv, RingTyped, Compared, Place, RingAssumption
  <2>6. RingTyped'
    BY <1>1, <2>3, <2>4 DEF RingInv, RingTyped
  <2>7. Sequenced'
    <3>1. dequeue <= e /\ e < dequeue + Slots /\ \A i \in Indices : \A p \in Nat : Slot(p) = i =>
            /\ slotSeq[i] = p => dequeue <= p /\ p < dequeue + Slots
            /\ slotSeq[i] = p + 1 => p < e /\ e <= p + Slots
      BY <2>4, <2>5, Zenon DEF RingInv, Sequenced
    <3>2. ASSUME NEW i \in Indices, NEW p \in Nat, Slot(p) = i, slotSeq[i] = p + 1
          PROVE  p < e + 1 /\ e + 1 <= p + Slots
      <4>1. p < e /\ e <= p + Slots
        BY <3>1, <3>2, Zenon
      <4>2. e # p + Slots
        BY <2>5, <3>2, Zenon
      <4> QED  BY <2>5, <4>1, <4>2
    <3> QED  BY <1>1, <2>4, <2>5, <3>1, <3>2 DEF Sequenced
  <2>8. /\ Filling(g)' /\ ~Draining(g)' /\ Place(g)' = Slot(e)
        /\ \A h \in Goroutines \ {g} :
              (Filling(h)' <=> Filling(h)) /\ (Draining(h)' <=> Draining(h)) /\ Place(h)' = Place(h)
    BY <2>2, <2>3, <2>4, Zenon DEF Filling, Draining, Place
  <2>9. Claimed'
    <3>1. \A h \in Goroutines : Filling(h) => thread[h].position < e
      BY <2>4, Zenon DEF RingInv, Claimed
    <3>2. \A h \in Goroutines : thread[h].position \in Nat
      BY Zenon DEF RingInv, RingTyped, Thread
    <3>3. \A h \in Goroutines : Filling(h)' => thread'[h].position < e + 1 /\ slotSeq[Place(h)'] = thread'[h].position
      BY <1>1, <2>2, <2>3, <2>4, <2>5, <2>8, <3>1, <3>2 DEF RingInv, Claimed
    <3>4. \A h \in Goroutines : Draining(h)' => thread'[h].position < dequeue /\ slotSeq[Place(h)'] = thread'[h].position + 1
      BY <2>3, <2>8, Zenon DEF RingInv, Claimed
    <3>5. \A h, k \in Goroutines : thread'[h].position = thread'[k].position /\ h # k =>
             ~(Filling(h)' /\ Filling(k)') /\ ~(Draining(h)' /\ Draining(k)')
      BY <2>2, <2>3, <2>4, <2>8, <3>1, <3>2 DEF RingInv, Claimed
    <3> QED  BY <1>1, <2>4, <3>3, <3>4, <3>5, Zenon DEF Claimed
  <2>10. Compared'
    <3>1. \A h \in Goroutines : thread[h].position \in Nat
      BY Zenon DEF RingInv, RingTyped, Thread
    <3>2. \A h \in Goroutines \ {g} : thread'[h].at = thread[h].at /\ thread'[h].position = thread[h].position
      BY <2>3, Zenon
    <3> QED  BY <1>1, <2>2, <2>3, <2>4, <2>8, <3>1, <3>2 DEF RingInv, Compared
  <2>11. Valued'
    BY <1>1, <2>2, <2>3, <2>8 DEF RingInv, Valued, Pushing, Popping
  <2>12. Emptying' = Emptying
    BY <1>1, <2>2, <2>3, Zenon DEF Emptying
  <2>13. Exclusive'
    BY <1>1, <2>12, Zenon DEF RingInv, Exclusive, Waits
  <2> QED  BY <2>6, <2>7, <2>9, <2>10, <2>11, <2>13, Zenon DEF RingInv
<1> QED  BY <1>2, <1>3, Zenon

\* TryPop takes its position: the slot is published, and a producer was there.
LEMMA PopCASKeeps ==
    ASSUME RingInv, NEW g \in Goroutines, PopCAS(g)
    PROVE  RingInv'
<1>1. /\ UNCHANGED <<enqueue, slotSeq, slotValue, held, unused>> /\ ~Filling(g) /\ ~Draining(g)
      /\ held[g] = {} /\ thread[g].at = "popCAS"
  BY Zenon DEF PopCAS, RingInv, Valued, Filling, Draining, Popping
<1>2. CASE dequeue # thread[g].position
  <2>1. UNCHANGED dequeue /\ Again(g, "pop", "popEmpty")
    BY <1>2, Zenon DEF PopCAS
  <2> QED  BY <1>1, <2>1, AgainKeeps, Zenon
<1>3. CASE dequeue = thread[g].position
  <2> DEFINE t == [thread[g] EXCEPT !.at = "popValue"]
  <2>1. dequeue' = dequeue + 1 /\ Moves(g, "popValue")
    BY <1>3, Zenon DEF PopCAS
  <2>2. t \in Thread /\ t.at = "popValue" /\ t.position = dequeue /\ thread' = [thread EXCEPT ![g] = t]
    BY <1>3, <2>1, ThreadFields, Zenon DEF RingInv, Moves, Popping
  <2> HIDE DEF t
  <2>3. /\ thread' \in [Goroutines -> Thread] /\ thread'[g] = t
        /\ \A h \in Goroutines \ {g} : thread'[h] = thread[h]
    BY <2>2, ThreadMoves, Zenon DEF RingInv
  <2>4. PICK d \in Nat : d = dequeue /\ dequeue' = d + 1
    BY <2>1, Zenon DEF RingInv, RingTyped
  <2>5. /\ enqueue \in Nat /\ Slots \in Nat \ {0, 1} /\ Slot(d) \in Indices /\ Place(g) = Slot(d) /\ slotSeq[Slot(d)] = d + 1
    BY <1>1, <1>3, <2>4, SlotFacts, RingAssumption DEF RingInv, RingTyped, Compared, Place, RingAssumption
  <2>6. RingTyped'
    BY <1>1, <2>3, <2>4 DEF RingInv, RingTyped
  <2>7. Sequenced'
    <3>1. d < enqueue /\ enqueue <= d + Slots /\ \A i \in Indices : \A p \in Nat : Slot(p) = i =>
            /\ slotSeq[i] = p => d <= p /\ p < d + Slots
            /\ slotSeq[i] = p + 1 => p < enqueue /\ enqueue <= p + Slots
      BY <2>4, <2>5, Zenon DEF RingInv, Sequenced
    <3>2. ASSUME NEW i \in Indices, NEW p \in Nat, Slot(p) = i, slotSeq[i] = p
          PROVE  d + 1 <= p /\ p < d + 1 + Slots
      <4>1. d <= p /\ p < d + Slots
        BY <3>1, <3>2, Zenon
      <4>2. d # p
        BY <2>5, <3>2
      <4> QED  BY <2>5, <4>1, <4>2
    <3> QED  BY <1>1, <2>4, <2>5, <3>1, <3>2 DEF Sequenced
  <2>8. /\ ~Filling(g)' /\ Draining(g)' /\ Place(g)' = Slot(d)
        /\ \A h \in Goroutines \ {g} :
              (Filling(h)' <=> Filling(h)) /\ (Draining(h)' <=> Draining(h)) /\ Place(h)' = Place(h)
    BY <2>2, <2>3, <2>4, Zenon DEF Filling, Draining, Place
  <2>9. Claimed'
    <3>1. \A h \in Goroutines : Draining(h) => thread[h].position < d
      BY <2>4, Zenon DEF RingInv, Claimed
    <3>2. \A h \in Goroutines : thread[h].position \in Nat
      BY Zenon DEF RingInv, RingTyped, Thread
    <3>3. \A h \in Goroutines : Draining(h)' => thread'[h].position < d + 1 /\ slotSeq[Place(h)'] = thread'[h].position + 1
      BY <1>1, <2>2, <2>3, <2>4, <2>5, <2>8, <3>1, <3>2 DEF RingInv, Claimed
    <3>4. \A h \in Goroutines : Filling(h)' => thread'[h].position < enqueue /\ slotSeq[Place(h)'] = thread'[h].position
      BY <2>3, <2>8, Zenon DEF RingInv, Claimed
    <3>5. \A h, k \in Goroutines : thread'[h].position = thread'[k].position /\ h # k =>
             ~(Filling(h)' /\ Filling(k)') /\ ~(Draining(h)' /\ Draining(k)')
      BY <2>2, <2>3, <2>4, <2>8, <3>1, <3>2 DEF RingInv, Claimed
    <3> QED  BY <1>1, <2>4, <3>3, <3>4, <3>5, Zenon DEF Claimed
  <2>10. Compared'
    <3>1. \A h \in Goroutines : thread[h].position \in Nat
      BY Zenon DEF RingInv, RingTyped, Thread
    <3>2. \A h \in Goroutines \ {g} : thread'[h].at = thread[h].at /\ thread'[h].position = thread[h].position
      BY <2>3, Zenon
    <3> QED  BY <1>1, <2>2, <2>3, <2>4, <2>8, <3>1, <3>2 DEF RingInv, Compared
  <2>11. Valued'
    <3>1. slotValue[Slot(d)] # {}
      BY <2>4, <2>5 DEF RingInv, Valued
    <3> QED  BY <1>1, <2>2, <2>3, <2>4, <2>8, <3>1 DEF RingInv, Valued, Pushing, Popping
  <2>12. Emptying' = Emptying
    BY <1>1, <2>2, <2>3, Zenon DEF Emptying
  <2>13. Exclusive'
    BY <1>1, <2>12, Zenon DEF RingInv, Exclusive, Waits
  <2> QED  BY <2>6, <2>7, <2>9, <2>10, <2>11, <2>13, Zenon DEF RingInv
<1> QED  BY <1>2, <1>3, Zenon

\* What the invariant says of two goroutines at one slot.
LEMMA SlotIsOwn ==
    ASSUME Claimed, RingTyped, NEW g \in Goroutines, NEW h \in Goroutines, g # h, Place(g) = Place(h),
           Filling(g) \/ Draining(g)
    PROVE  ~Filling(h) /\ ~Draining(h)
<1>1. thread[g].position \in Nat /\ thread[h].position \in Nat
  BY Zenon DEF RingTyped, Thread
<1>2. \A p \in Nat : Slot(p + 1) # Slot(p)
  BY SlotFacts, Zenon
<1> QED  BY <1>1, <1>2 DEF Claimed, Place

\* TryPush writes its value: no other goroutine is at the slot.
LEMMA PushValueKeeps ==
    ASSUME RingInv, NEW g \in Goroutines, PushValue(g)
    PROVE  RingInv'
<1> DEFINE t == [thread[g] EXCEPT !.at = "pushDone"]
<1>1. /\ UNCHANGED <<enqueue, dequeue, slotSeq, unused>> /\ thread[g].at = "pushValue" /\ Filling(g) /\ ~Draining(g)
      /\ held[g] # {}
  BY Zenon DEF PushValue, RingInv, Valued, Filling, Draining, Pushing
<1>2. /\ t \in Thread /\ t.at = "pushDone" /\ t.position = thread[g].position /\ thread' = [thread EXCEPT ![g] = t]
  BY ThreadFields, Zenon DEF PushValue, RingInv, Moves
<1> HIDE DEF t
<1>3. /\ thread' \in [Goroutines -> Thread] /\ thread'[g] = t
      /\ \A h \in Goroutines \ {g} : thread'[h] = thread[h]
  BY <1>2, ThreadMoves, Zenon DEF RingInv
<1>4. PICK i \in Indices : i = Place(g)
  BY SlotFacts, Zenon DEF RingInv, RingTyped, Thread, Place
<1>5. /\ slotValue' \in [Indices -> SUBSET Buffers] /\ slotValue'[i] = held[g]
      /\ \A j \in Indices \ {i} : slotValue'[j] = slotValue[j]
  BY <1>4, Zenon DEF PushValue, RingInv, RingTyped, Place
<1>6. /\ held' \in [Goroutines -> SUBSET Buffers] /\ held'[g] = {}
      /\ \A h \in Goroutines \ {g} : held'[h] = held[h]
  BY Zenon DEF PushValue, RingInv, RingTyped
<1>7. RingTyped'
  BY <1>1, <1>3, <1>5, <1>6, Zenon DEF RingInv, RingTyped
<1>8. /\ Filling(g)' /\ ~Draining(g)' /\ \A h \in Goroutines : Place(h)' = Place(h)
      /\ \A h \in Goroutines \ {g} : (Filling(h)' <=> Filling(h)) /\ (Draining(h)' <=> Draining(h))
      /\ \A h \in Goroutines : thread'[h].position = thread[h].position
  BY <1>2, <1>3, Zenon DEF Filling, Draining, Place
<1>9. Sequenced'
  BY <1>1, Zenon DEF RingInv, Sequenced
<1>10. Claimed'
  BY <1>1, <1>8 DEF RingInv, Claimed
<1>11. Compared'
  BY <1>1, <1>2, <1>3, <1>8, Zenon DEF RingInv, Compared
<1>12. \A h \in Goroutines \ {g} : Place(h) = i => ~Filling(h) /\ ~Draining(h)
  BY <1>1, <1>4, SlotIsOwn, Zenon DEF RingInv
<1>13. Valued'
  <2>1. \A j \in Indices : slotValue[j] # {} => slotValue'[j] # {}
    BY <1>1, <1>5, Zenon
  <2>2. \A h \in Goroutines \ {g} : thread'[h].at = thread[h].at /\ held'[h] = held[h] /\ Place(h) \in Indices
    BY <1>3, <1>6, SlotFacts, Zenon DEF RingInv, RingTyped, Thread, Place
  <2>3. thread'[g].at = "pushDone" /\ slotValue'[Place(g)] # {} /\ held'[g] = {}
    BY <1>1, <1>2, <1>3, <1>4, <1>5, <1>6, Zenon
  <2> QED  BY <1>1, <1>8, <2>1, <2>2, <2>3 DEF RingInv, Valued, Pushing, Popping
<1>14. Emptying' = Emptying /\ i \notin Emptying
  <2>1. \A h \in Goroutines : thread'[h].at = "popClear" <=> thread[h].at = "popClear"
    BY <1>1, <1>2, <1>3, Zenon
  <2>2. Emptying' = Emptying
    BY <1>8, <2>1, Zenon DEF Emptying, Place
  <2> QED  BY <1>1, <1>12, <2>2, Zenon DEF Emptying, Place, Draining
<1>15. Waits(i)' = held[g] /\ \A j \in Indices \ {i} : Waits(j)' = Waits(j)
  BY <1>5, <1>14, Zenon DEF Waits
<1>16. Exclusive'
  BY <1>1, <1>6, <1>15 DEF RingInv, Exclusive
<1> QED  BY <1>7, <1>9, <1>10, <1>11, <1>13, <1>16, Zenon DEF RingInv

\* An operation ends.
LEMMA ReturnsFacts ==
    ASSUME RingTyped, NEW g \in Goroutines, Returns(g)
    PROVE  /\ thread' \in [Goroutines -> Thread] /\ thread'[g].at = "out" /\ thread'[g].position = 0
           /\ \A h \in Goroutines \ {g} : thread'[h] = thread[h]
           /\ ~Filling(g)' /\ ~Draining(g)'
           /\ \A h \in Goroutines \ {g} :
                 (Filling(h)' <=> Filling(h)) /\ (Draining(h)' <=> Draining(h)) /\ Place(h)' = Place(h)
<1> DEFINE t == [at |-> "out", position |-> 0, attempts |-> 0]
<1>1. t \in Thread /\ thread' = [thread EXCEPT ![g] = t]
  BY Zenon DEF Thread, Returns
<1>2. /\ thread' \in [Goroutines -> Thread] /\ thread'[g] = t
      /\ \A h \in Goroutines \ {g} : thread'[h] = thread[h]
  BY <1>1, ThreadMoves, Zenon
<1> QED  BY <1>2 DEF Filling, Draining, Place

\* TryPush publishes its value.
LEMMA PushStoresKeeps ==
    ASSUME RingInv, NEW g \in Goroutines, PushStores(g)
    PROVE  RingInv'
<1>1. /\ UNCHANGED <<enqueue, dequeue, slotValue, held, unused>> /\ thread[g].at = "pushDone" /\ Filling(g) /\ RingTyped
      /\ Returns(g)
  BY Zenon DEF PushStores, RingInv, Filling
<1>2. /\ thread' \in [Goroutines -> Thread] /\ thread'[g].at = "out"
      /\ \A h \in Goroutines \ {g} : thread'[h] = thread[h]
      /\ ~Filling(g)' /\ ~Draining(g)'
      /\ \A h \in Goroutines \ {g} :
            (Filling(h)' <=> Filling(h)) /\ (Draining(h)' <=> Draining(h)) /\ Place(h)' = Place(h)
  BY <1>1, ReturnsFacts, Zenon
<1>3. PICK p \in Nat, i \in Indices : p = thread[g].position /\ i = Slot(p) /\ i = Place(g)
  BY SlotFacts, Zenon DEF RingInv, RingTyped, Thread, Place
<1>4. /\ slotSeq[i] = p /\ slotSeq' \in [Indices -> Nat] /\ slotSeq'[i] = p + 1
      /\ \A j \in Indices \ {i} : slotSeq'[j] = slotSeq[j]
  BY <1>1, <1>3 DEF PushStores, RingInv, RingTyped, Claimed
<1>5. \A q \in Nat : Slot(q + 1) # Slot(q) /\ Slot(q) \in Indices
  BY SlotFacts, Zenon
<1>6. enqueue \in Nat /\ dequeue \in Nat /\ Slots \in Nat
  BY RingAssumption, Zenon DEF RingInv, RingTyped, RingAssumption
<1>7. RingTyped'
  BY <1>1, <1>2, <1>4, Zenon DEF RingTyped
<1>8. Sequenced'
  <2>1. p < enqueue /\ enqueue <= p + Slots
    <3>1. p < enqueue /\ dequeue <= p /\ enqueue <= dequeue + Slots
      BY <1>1, <1>3, <1>4, Zenon DEF RingInv, Sequenced, Claimed
    <3> QED  BY <1>6, <3>1
  <2>2. ASSUME NEW q \in Nat, Slot(q) = i
        PROVE  slotSeq'[i] # q /\ (slotSeq'[i] = q + 1 => q < enqueue /\ enqueue <= q + Slots)
    <3>1. Slot(p + 1) # i
      BY <1>3, <1>5, Zenon
    <3>2. slotSeq'[i] # q
      BY <1>4, <2>2, <3>1, Zenon
    <3>3. slotSeq'[i] = q + 1 => q = p
      BY <1>4
    <3> QED  BY <2>1, <3>2, <3>3, Zenon
  <2>3. \A j \in Indices : \A q \in Nat : Slot(q) = j =>
          /\ slotSeq'[j] = q => dequeue <= q /\ q < dequeue + Slots
          /\ slotSeq'[j] = q + 1 => q < enqueue /\ enqueue <= q + Slots
    BY <1>4, <2>2, Zenon DEF RingInv, Sequenced
  <2> QED  BY <1>1, <2>3, Zenon DEF RingInv, Sequenced
<1>9. \A h \in Goroutines \ {g} : Filling(h) \/ Draining(h) => Place(h) \in Indices \ {i}
  <2>1. \A h \in Goroutines : Place(h) \in Indices
    BY <1>5, Zenon DEF RingInv, RingTyped, Thread, Place
  <2> QED  BY <1>1, <1>3, <2>1, SlotIsOwn, Zenon DEF RingInv
<1>10. Claimed'
  BY <1>1, <1>2, <1>4, <1>9 DEF RingInv, Claimed
<1>11. Compared'
  <2>1. ASSUME NEW h \in Goroutines \ {g}, Place(h) = i
        PROVE  /\ ~(thread[h].at = "pushCAS" /\ enqueue <= thread[h].position)
               /\ ~(thread[h].at = "popCAS" /\ dequeue <= thread[h].position)
    <3>1. PICK q \in Nat : q = thread[h].position /\ Slot(q) = i
      BY <2>1, Zenon DEF RingInv, RingTyped, Thread, Place
    <3>2. p < enqueue
      BY <1>1, <1>3, Zenon DEF RingInv, Claimed
    <3>3. thread[h].at = "pushCAS" /\ enqueue <= q => q = p
      BY <1>4, <2>1, <3>1, Zenon DEF RingInv, Compared
    <3>4. thread[h].at = "popCAS" /\ dequeue <= q => q + 1 = p
      BY <1>4, <2>1, <3>1, Zenon DEF RingInv, Compared
    <3>5. p # q + 1
      BY <1>3, <1>5, <3>1, Zenon
    <3>6. ~(enqueue <= p)
      BY <1>6, <3>2
    <3> QED  BY <3>1, <3>3, <3>4, <3>5, <3>6, Zenon
  <2>2. \A h \in Goroutines : Place(h) \in Indices
    BY <1>5, Zenon DEF RingInv, RingTyped, Thread, Place
  <2> QED  BY <1>1, <1>2, <1>4, <2>1, <2>2 DEF RingInv, Compared
<1>12. Valued'
  <2>1. slotValue[i] # {}
    BY <1>1, <1>3, Zenon DEF RingInv, Valued
  <2>2. \A j \in Indices : \A q \in Nat : Slot(q) = j /\ slotSeq'[j] = q + 1 /\ dequeue <= q => slotValue[j] # {}
    BY <1>4, <2>1, Zenon DEF RingInv, Valued
  <2> QED  BY <1>1, <1>2, <2>2, Zenon DEF RingInv, Valued, Pushing, Popping
<1>13. Emptying' = Emptying
  BY <1>1, <1>2, Zenon DEF Emptying
<1>14. Exclusive'
  BY <1>1, <1>13, Zenon DEF RingInv, Exclusive, Waits
<1> QED  BY <1>7, <1>8, <1>10, <1>11, <1>12, <1>14, Zenon DEF RingInv

\* TryPop hands its slot to the next lap.
LEMMA PopStoresKeeps ==
    ASSUME RingInv, NEW g \in Goroutines, PopStores(g)
    PROVE  RingInv'
<1>1. /\ UNCHANGED <<enqueue, dequeue, slotValue, held, unused>> /\ thread[g].at = "popDone" /\ Draining(g) /\ RingTyped
      /\ Returns(g)
  BY Zenon DEF PopStores, RingInv, Draining
<1>2. /\ thread' \in [Goroutines -> Thread] /\ thread'[g].at = "out"
      /\ \A h \in Goroutines \ {g} : thread'[h] = thread[h]
      /\ ~Filling(g)' /\ ~Draining(g)'
      /\ \A h \in Goroutines \ {g} :
            (Filling(h)' <=> Filling(h)) /\ (Draining(h)' <=> Draining(h)) /\ Place(h)' = Place(h)
  BY <1>1, ReturnsFacts, Zenon
<1>3. PICK p \in Nat, i \in Indices : p = thread[g].position /\ i = Slot(p) /\ i = Place(g)
  BY SlotFacts, Zenon DEF RingInv, RingTyped, Thread, Place
<1>4. enqueue \in Nat /\ dequeue \in Nat /\ Slots \in Nat
  BY RingAssumption, Zenon DEF RingInv, RingTyped, RingAssumption
<1>5. /\ slotSeq[i] = p + 1 /\ slotSeq' \in [Indices -> Nat] /\ slotSeq'[i] = p + Slots
      /\ \A j \in Indices \ {i} : slotSeq'[j] = slotSeq[j]
  BY <1>1, <1>3, <1>4 DEF PopStores, RingInv, RingTyped, Claimed
<1>6. \A q \in Nat : Slot(q + 1) # Slot(q) /\ Slot(q + Slots) = Slot(q) /\ Slot(q) \in Indices
  BY SlotFacts, Zenon
<1>7. RingTyped'
  BY <1>1, <1>2, <1>5, Zenon DEF RingTyped
<1>8. \A q \in Nat : Slot(q) = i => slotSeq'[i] # q + 1
  BY <1>3, <1>5, <1>6, Zenon
<1>9. Sequenced'
  <2>1. p < dequeue /\ enqueue <= p + Slots /\ dequeue <= enqueue
    BY <1>1, <1>3, <1>5, Zenon DEF RingInv, Sequenced, Claimed
  <2>2. dequeue <= p + Slots /\ p + Slots < dequeue + Slots
    BY <1>4, <2>1
  <2>3. \A j \in Indices : \A q \in Nat : Slot(q) = j =>
          /\ slotSeq'[j] = q => dequeue <= q /\ q < dequeue + Slots
          /\ slotSeq'[j] = q + 1 => q < enqueue /\ enqueue <= q + Slots
    BY <1>5, <1>8, <2>2, Zenon DEF RingInv, Sequenced
  <2> QED  BY <1>1, <2>3, Zenon DEF RingInv, Sequenced
<1>10. \A h \in Goroutines \ {g} : Filling(h) \/ Draining(h) => Place(h) \in Indices \ {i}
  <2>1. \A h \in Goroutines : Place(h) \in Indices
    BY <1>6, Zenon DEF RingInv, RingTyped, Thread, Place
  <2> QED  BY <1>1, <1>3, <2>1, SlotIsOwn, Zenon DEF RingInv
<1>11. Claimed'
  BY <1>1, <1>2, <1>5, <1>10 DEF RingInv, Claimed
<1>12. Compared'
  <2>1. ASSUME NEW h \in Goroutines \ {g}, Place(h) = i
        PROVE  /\ ~(thread[h].at = "pushCAS" /\ enqueue <= thread[h].position)
               /\ ~(thread[h].at = "popCAS" /\ dequeue <= thread[h].position)
    <3>1. PICK q \in Nat : q = thread[h].position /\ Slot(q) = i
      BY <2>1, Zenon DEF RingInv, RingTyped, Thread, Place
    <3>2. p < dequeue
      BY <1>1, <1>3, Zenon DEF RingInv, Claimed
    <3>3. thread[h].at = "pushCAS" /\ enqueue <= q => q = p + 1
      BY <1>5, <2>1, <3>1, Zenon DEF RingInv, Compared
    <3>4. thread[h].at = "popCAS" /\ dequeue <= q => q + 1 = p + 1
      BY <1>5, <2>1, <3>1, Zenon DEF RingInv, Compared
    <3>5. q # p + 1
      BY <1>3, <1>6, <3>1, Zenon
    <3>6. q + 1 = p + 1 => ~(dequeue <= q)
      BY <1>4, <3>2
    <3> QED  BY <3>1, <3>3, <3>4, <3>5, <3>6, Zenon
  <2>2. \A h \in Goroutines : Place(h) \in Indices
    BY <1>6, Zenon DEF RingInv, RingTyped, Thread, Place
  <2> QED  BY <1>1, <1>2, <1>5, <2>1, <2>2 DEF RingInv, Compared
<1>13. Valued'
  <2>1. \A j \in Indices : \A q \in Nat : Slot(q) = j /\ slotSeq'[j] = q + 1 /\ dequeue <= q => slotValue[j] # {}
    BY <1>5, <1>8, Zenon DEF RingInv, Valued
  <2> QED  BY <1>1, <1>2, <2>1, Zenon DEF RingInv, Valued, Pushing, Popping
<1>14. Emptying' = Emptying
  BY <1>1, <1>2, Zenon DEF Emptying
<1>15. Exclusive'
  BY <1>1, <1>14, Zenon DEF RingInv, Exclusive, Waits
<1> QED  BY <1>7, <1>9, <1>11, <1>12, <1>13, <1>15, Zenon DEF RingInv

\* TryPop reads the value of its slot: nobody else has it.
LEMMA PopValueKeeps ==
    ASSUME RingInv, NEW g \in Goroutines, PopValue(g)
    PROVE  RingInv'
<1> DEFINE t == [thread[g] EXCEPT !.at = "popClear"]
<1>1. /\ UNCHANGED <<enqueue, dequeue, slotSeq, slotValue, unused>> /\ thread[g].at = "popValue"
      /\ ~Filling(g) /\ Draining(g)
  BY Zenon DEF PopValue, Filling, Draining
<1>2. /\ t \in Thread /\ t.at = "popClear" /\ t.position = thread[g].position /\ thread' = [thread EXCEPT ![g] = t]
  BY ThreadFields, Zenon DEF PopValue, RingInv, Moves
<1> HIDE DEF t
<1>3. /\ thread' \in [Goroutines -> Thread] /\ thread'[g] = t
      /\ \A h \in Goroutines \ {g} : thread'[h] = thread[h]
  BY <1>2, ThreadMoves, Zenon DEF RingInv
<1>4. PICK i \in Indices : i = Place(g)
  BY SlotFacts, Zenon DEF RingInv, RingTyped, Thread, Place
<1>5. /\ held' \in [Goroutines -> SUBSET Buffers] /\ held'[g] = slotValue[i]
      /\ \A h \in Goroutines \ {g} : held'[h] = held[h]
  BY <1>4, Zenon DEF PopValue, RingInv, RingTyped, Place
<1>6. RingTyped'
  BY <1>1, <1>3, <1>5, Zenon DEF RingInv, RingTyped
<1>7. /\ ~Filling(g)' /\ Draining(g)' /\ \A h \in Goroutines : Place(h)' = Place(h)
      /\ \A h \in Goroutines \ {g} : (Filling(h)' <=> Filling(h)) /\ (Draining(h)' <=> Draining(h))
      /\ \A h \in Goroutines : thread'[h].position = thread[h].position
  BY <1>2, <1>3, Zenon DEF Filling, Draining, Place
<1>8. Sequenced'
  BY <1>1, Zenon DEF RingInv, Sequenced
<1>9. Claimed'
  BY <1>1, <1>7, Zenon DEF RingInv, Claimed
<1>10. Compared'
  BY <1>1, <1>2, <1>3, <1>7, Zenon DEF RingInv, Compared
<1>11. \A h \in Goroutines \ {g} : Place(h) = i => ~Filling(h) /\ ~Draining(h)
  BY <1>1, <1>4, SlotIsOwn, Zenon DEF RingInv
<1>12. Valued'
  <2>1. slotValue[i] # {}
    BY <1>1, <1>4, Zenon DEF RingInv, Valued
  <2> QED  BY <1>1, <1>2, <1>3, <1>5, <1>7, <2>1 DEF RingInv, Valued, Pushing, Popping
<1>13. i \notin Emptying /\ Emptying' = Emptying \cup {i}
  <2>1. i \notin Emptying
    BY <1>1, <1>11, Zenon DEF Emptying, Place, Draining
  <2>2. \A j : j \in Emptying' <=> j \in Emptying \/ j = i
    <3>1. \A j : j \in Emptying <=> \E h \in Goroutines : thread[h].at = "popClear" /\ Place(h) = j
      BY Zenon DEF Emptying, Place
    <3>2. \A j : j \in Emptying' <=> \E h \in Goroutines : thread'[h].at = "popClear" /\ Place(h) = j
      BY <1>7, Zenon DEF Emptying, Place
    <3>3. \A h \in Goroutines : thread'[h].at = "popClear" <=> thread[h].at = "popClear" \/ h = g
      BY <1>1, <1>2, <1>3, Zenon
    <3> QED  BY <1>4, <3>1, <3>2, <3>3, Zenon
  <2> QED  BY <2>1, <2>2, Zenon
<1>14. /\ Waits(i) = slotValue[i] /\ Waits(i)' = {}
       /\ \A j \in Indices \ {i} : Waits(j)' = Waits(j)
  BY <1>1, <1>13, Zenon DEF Waits
<1>15. Exclusive'
  BY <1>1, <1>5, <1>14 DEF RingInv, Exclusive
<1> QED  BY <1>6, <1>8, <1>9, <1>10, <1>12, <1>15, Zenon DEF RingInv

\* TryPop clears its slot: the buffer was in its hands already.
LEMMA PopClearsKeeps ==
    ASSUME RingInv, NEW g \in Goroutines, PopClears(g)
    PROVE  RingInv'
<1> DEFINE t == [thread[g] EXCEPT !.at = "popDone"]
<1>1. /\ UNCHANGED <<enqueue, dequeue, slotSeq, held, unused>> /\ thread[g].at = "popClear"
      /\ ~Filling(g) /\ Draining(g)
  BY Zenon DEF PopClears, Filling, Draining
<1>2. /\ t \in Thread /\ t.at = "popDone" /\ t.position = thread[g].position /\ thread' = [thread EXCEPT ![g] = t]
  BY ThreadFields, Zenon DEF PopClears, RingInv, Moves
<1> HIDE DEF t
<1>3. /\ thread' \in [Goroutines -> Thread] /\ thread'[g] = t
      /\ \A h \in Goroutines \ {g} : thread'[h] = thread[h]
  BY <1>2, ThreadMoves, Zenon DEF RingInv
<1>4. PICK p \in Nat, i \in Indices : p = thread[g].position /\ i = Place(g) /\ i = Slot(p)
  BY SlotFacts, Zenon DEF RingInv, RingTyped, Thread, Place
<1>5. /\ slotValue' \in [Indices -> SUBSET Buffers] /\ slotValue'[i] = {}
      /\ \A j \in Indices \ {i} : slotValue'[j] = slotValue[j]
  BY <1>4, Zenon DEF PopClears, RingInv, RingTyped, Place
<1>6. RingTyped'
  BY <1>1, <1>3, <1>5, Zenon DEF RingInv, RingTyped
<1>7. /\ ~Filling(g)' /\ Draining(g)' /\ \A h \in Goroutines : Place(h)' = Place(h)
      /\ \A h \in Goroutines \ {g} : (Filling(h)' <=> Filling(h)) /\ (Draining(h)' <=> Draining(h))
      /\ \A h \in Goroutines : thread'[h].position = thread[h].position
  BY <1>2, <1>3, Zenon DEF Filling, Draining, Place
<1>8. Sequenced'
  BY <1>1, Zenon DEF RingInv, Sequenced
<1>9. Claimed'
  BY <1>1, <1>7, Zenon DEF RingInv, Claimed
<1>10. Compared'
  BY <1>1, <1>2, <1>3, <1>7, Zenon DEF RingInv, Compared
<1>11. \A h \in Goroutines \ {g} : Place(h) = i => ~Filling(h) /\ ~Draining(h)
  BY <1>1, <1>4, SlotIsOwn, Zenon DEF RingInv
<1>12. Valued'
  <2>1. \A q \in Nat : ~(slotSeq[i] = q + 1 /\ dequeue <= q)
    <3>1. p < dequeue /\ slotSeq[i] = p + 1 /\ dequeue \in Nat
      BY <1>1, <1>4, Zenon DEF RingInv, RingTyped, Claimed
    <3> QED  BY <3>1
  <2>2. \A j \in Indices : \A q \in Nat : Slot(q) = j /\ slotSeq[j] = q + 1 /\ dequeue <= q => slotValue'[j] # {}
    BY <1>5, <2>1, Zenon DEF RingInv, Valued
  <2>3. \A h \in Goroutines \ {g} : thread[h].at \in {"pushDone", "popValue"} => slotValue'[Place(h)] # {}
    <3>1. \A h \in Goroutines : Place(h) \in Indices
      BY SlotFacts, Zenon DEF RingInv, RingTyped, Thread, Place
    <3> QED  BY <1>5, <1>11, <3>1, Zenon DEF RingInv, Valued, Filling, Draining
  <2>4. held[g] # {}
    BY <1>1, Zenon DEF RingInv, Valued
  <2>5. \A h \in Goroutines : thread'[h].at \in {"pushDone", "popValue"} => slotValue'[Place(h)'] # {}
    <3>1. thread'[g].at \notin {"pushDone", "popValue"}
      BY <1>2, <1>3, Zenon
    <3> QED  BY <1>3, <1>7, <2>3, <3>1, Zenon
  <2>6. \A h \in Goroutines : thread'[h].at \in Pushing \cup {"popClear", "popDone"} => held'[h] # {}
    BY <1>1, <1>3, <2>4, Zenon DEF RingInv, Valued
  <2>7. \A h \in Goroutines : thread'[h].at \in Popping \cup {"pushDone"} => held'[h] = {}
    <3>1. thread'[g].at \notin Popping \cup {"pushDone"}
      BY <1>2, <1>3, Zenon DEF Popping
    <3> QED  BY <1>1, <1>3, <3>1, Zenon DEF RingInv, Valued
  <2> QED  BY <1>1, <2>2, <2>5, <2>6, <2>7, Zenon DEF Valued
<1>13. \A j : j \in Emptying' <=> j \in Emptying /\ j # i
  <2>1. \A j : j \in Emptying <=> \E h \in Goroutines : thread[h].at = "popClear" /\ Place(h) = j
    BY Zenon DEF Emptying, Place
  <2>2. \A j : j \in Emptying' <=> \E h \in Goroutines : thread'[h].at = "popClear" /\ Place(h) = j
    BY <1>7, Zenon DEF Emptying, Place
  <2>3. \A h \in Goroutines : thread'[h].at = "popClear" <=> thread[h].at = "popClear" /\ h # g
    BY <1>2, <1>3, Zenon
  <2>4. \A h \in Goroutines : thread[h].at = "popClear" /\ h # g => Place(h) # i
    BY <1>11, Zenon DEF Draining
  <2> QED  BY <1>4, <2>1, <2>2, <2>3, <2>4, Zenon
<1>14. i \in Emptying
  BY <1>1, <1>4, Zenon DEF Emptying, Place
<1>15. Waits(i) = {} /\ Waits(i)' = {} /\ \A j \in Indices \ {i} : Waits(j)' = Waits(j)
  BY <1>5, <1>13, <1>14, Zenon DEF Waits
<1>16. Exclusive'
  BY <1>1, <1>15, Zenon DEF RingInv, Exclusive
<1> QED  BY <1>6, <1>8, <1>9, <1>10, <1>12, <1>16, Zenon DEF RingInv

\* A goroutine that is at no slot returns, with other buffers in its hands.
LEMMA HandsKeep ==
    ASSUME RingInv, NEW g \in Goroutines, Returns(g), ~Filling(g), ~Draining(g),
           UNCHANGED <<enqueue, dequeue, slotSeq, slotValue>>,
           NEW S \in SUBSET Buffers, held' = [held EXCEPT ![g] = S],
           unused' \subseteq unused, S \subseteq unused, S \cap unused' = {}
    PROVE  RingInv'
<1>1. /\ thread' \in [Goroutines -> Thread] /\ thread'[g].at = "out"
      /\ \A h \in Goroutines \ {g} : thread'[h] = thread[h]
      /\ ~Filling(g)' /\ ~Draining(g)'
      /\ \A h \in Goroutines \ {g} :
            (Filling(h)' <=> Filling(h)) /\ (Draining(h)' <=> Draining(h)) /\ Place(h)' = Place(h)
  BY ReturnsFacts, Zenon DEF RingInv
<1>2. /\ held' \in [Goroutines -> SUBSET Buffers] /\ held'[g] = S
      /\ \A h \in Goroutines \ {g} : held'[h] = held[h]
  BY Zenon DEF RingInv, RingTyped
<1>3. RingTyped'
  BY <1>1, <1>2, Zenon DEF RingInv, RingTyped
<1>4. Sequenced'
  BY Zenon DEF RingInv, Sequenced
<1>5. Claimed'
  BY <1>1, Zenon DEF RingInv, Claimed
<1>6. Compared'
  BY <1>1, Zenon DEF RingInv, Compared
<1>7. Valued'
  BY <1>1, <1>2 DEF RingInv, Valued, Pushing, Popping
<1>8. Emptying' = Emptying
  BY <1>1, Zenon DEF Emptying, Draining
<1>9. \A i \in Indices : Waits(i)' = Waits(i)
  BY <1>8, Zenon DEF Waits
<1>10. Exclusive'
  BY <1>2, <1>9 DEF RingInv, Exclusive
<1> QED  BY <1>3, <1>4, <1>5, <1>6, <1>7, <1>10, Zenon DEF RingInv

\* Put drops a buffer that the ring did not take.
LEMMA DiscardKeeps ==
    ASSUME RingInv, NEW g \in Goroutines, Discard(g)
    PROVE  RingInv'
BY HandsKeep, Zenon DEF Discard, Filling, Draining

\* Get allocates a buffer when the ring has none.
LEMMA AllocateKeeps ==
    ASSUME RingInv, NEW g \in Goroutines, Allocate(g)
    PROVE  RingInv'
<1>1. PICK b \in unused : held' = [held EXCEPT ![g] = {b}] /\ unused' = unused \ {b}
  BY Zenon DEF Allocate
<1>2. Returns(g) /\ ~Filling(g) /\ ~Draining(g) /\ UNCHANGED <<enqueue, dequeue, slotSeq, slotValue>>
  BY Zenon DEF Allocate, Filling, Draining
<1>3. {b} \in SUBSET Buffers /\ unused' \subseteq unused /\ {b} \subseteq unused /\ {b} \cap unused' = {}
  BY <1>1, Zenon DEF RingInv, RingTyped
<1> QED  BY <1>1, <1>2, <1>3, HandsKeep, Zenon

\* An empty ring.
LEMMA RingInitHolds == RingInit => RingInv
<1> SUFFICES ASSUME RingInit PROVE RingInv
  BY Zenon
<1>1. Slots \in Nat \ {0, 1}
  BY RingAssumption, Zenon DEF RingAssumption
<1>2. RingTyped
  BY <1>1 DEF RingInit, RingTyped, Indices, Thread
<1>3. \A p \in Nat : Slot(p) \in Indices /\ Slot(p + 1) # Slot(p)
  BY SlotFacts, Zenon
<1>4. \A i \in Indices : slotSeq[i] = i /\ i \in Nat /\ i < Slots /\ slotValue[i] = {}
  BY <1>1 DEF RingInit, Indices
<1>5. \A i \in Indices : Slot(i) = i
  BY <1>1 DEF Indices, Slot
<1>6. \A i \in Indices : \A p \in Nat : Slot(p) = i => slotSeq[i] # p + 1
  <2> SUFFICES ASSUME NEW i \in Indices, NEW p \in Nat, Slot(p) = i, i = p + 1 PROVE FALSE
    BY <1>4, Zenon
  <2>1. Slot(p + 1) = i
    BY <1>5, Zenon
  <2> QED  BY <1>3, <2>1, Zenon
<1>7. Sequenced
  BY <1>1, <1>4, <1>6 DEF RingInit, Sequenced
<1>8. \A g \in Goroutines : thread[g].at = "out" /\ held[g] = {}
  BY Zenon DEF RingInit
<1>9. Claimed /\ Compared
  BY <1>8, Zenon DEF Claimed, Compared, Filling, Draining
<1>10. Valued
  BY <1>6, <1>8, Zenon DEF Valued, Pushing, Popping
<1>11. Exclusive
  BY <1>4, <1>8, Zenon DEF Exclusive, Waits
<1> QED  BY <1>2, <1>7, <1>9, <1>10, <1>11, Zenon DEF RingInv

\* The invariant holds in every interleaving.
THEOREM RingInvariance == RingSpec => []RingInv
<1>1. RingInv /\ [RingNext]_ringVars => RingInv'
  <2> SUFFICES ASSUME RingInv, [RingNext]_ringVars PROVE RingInv'
    BY Zenon
  <2>1. CASE RingNext
    BY <2>1, PutKeeps, LoadKeeps, CompareKeeps, PushCASKeeps, PushValueKeeps, PushStoresKeeps, DiscardKeeps,
       GetKeeps, PopCASKeeps, PopValueKeeps, PopClearsKeeps, PopStoresKeeps, AllocateKeeps, Zenon DEF RingNext
  <2>2. CASE UNCHANGED ringVars
    <3>1. UNCHANGED <<enqueue, dequeue, slotSeq, slotValue, thread, held, unused>>
      BY <2>2, Zenon DEF ringVars
    <3>2. RingTyped' /\ Sequenced'
      BY <3>1, Zenon DEF RingInv, RingTyped, Sequenced
    <3>3. Claimed' /\ Compared' /\ Valued'
      BY <3>1, Zenon DEF RingInv, Claimed, Compared, Valued, Filling, Draining, Place
    <3>4. Exclusive'
      BY <3>1 DEF RingInv, Exclusive, Waits, Emptying
    <3> QED  BY <3>2, <3>3, <3>4, Zenon DEF RingInv
  <2> QED  BY <2>1, <2>2, Zenon
<1> QED  BY <1>1, RingInitHolds, PTL DEF RingSpec

\* RingSafe: no buffer is in two places, a published slot has a buffer for the
\* goroutine that pops it, and neither end overtakes the other by more than the
\* ring has slots, in every interleaving of the atomic accesses of TryPush and
\* TryPop, for any number of goroutines, slots and laps.
THEOREM RingIsSafe == RingSpec => []RingSafe
<1>1. RingInv => RingSafe
  <2> SUFFICES ASSUME RingInv PROVE RingSafe
    BY Zenon
  <2>1. ASSUME NEW b \in Buffers
        PROVE  LET users == {g \in Goroutines : b \in held[g]}
                   waiting == {i \in DOMAIN slotValue \ Emptying : b \in slotValue[i]}
               IN /\ \A g, h \in users : g = h
                  /\ \A i, j \in waiting : i = j
                  /\ users = {} \/ waiting = {}
                  /\ b \in unused => users = {} /\ waiting = {}
    <3> DEFINE G == {g \in Goroutines : b \in held[g]}
               I == {i \in DOMAIN slotValue \ Emptying : b \in slotValue[i]}
    <3>1. \A i \in I : i \in Indices /\ b \in Waits(i)
      BY Zenon DEF RingInv, RingTyped, Waits
    <3>2. \A g, h \in G : g = h
      BY Zenon DEF RingInv, Exclusive
    <3>3. \A i, j \in I : i = j
      BY <3>1, Zenon DEF RingInv, Exclusive
    <3>4. G = {} \/ I = {}
      BY <3>1, Zenon DEF RingInv, Exclusive
    <3>5. b \in unused => G = {} /\ I = {}
      BY <3>1, Zenon DEF RingInv, Exclusive
    <3> QED  BY <3>2, <3>3, <3>4, <3>5, Zenon
  <2>2. BufferExclusive
    BY <2>1, Zenon DEF BufferExclusive
  <2>3. PopFull
    BY Zenon DEF RingInv, Valued, PopFull
  <2>4. RingBounded
    <3>1. enqueue \in Nat /\ dequeue \in Nat /\ Slots \in Nat
      BY RingAssumption, Zenon DEF RingInv, RingTyped, RingAssumption
    <3> QED  BY <3>1 DEF RingInv, Sequenced, RingBounded
  <2> QED  BY <2>2, <2>3, <2>4, Zenon DEF RingSafe
<1> QED  BY <1>1, RingInvariance, PTL

-----------------------------------------------------------------------------
(***************************************************************************)
(* The configuration lifecycle: what a call has established when it reads  *)
(* stays true until it writes, whatever other calls write in between.      *)
(***************************************************************************)

LifecycleSpec == LifecycleInit /\ [][LifecycleNext]_lifecycleVars

RowStates == {"draft", "shadow", "approved", "scheduled", "active", "retired"}

ArtifactRows == [state : RowStates, by : Operators, due : {"none", "later", "now"}]

CallSteps == {"update", "approve", "gates", "retire", "activate", "retirement", "audit"}

CallRecords == [action : AuditActions, id : Artifacts, step : CallSteps, victims : SUBSET Artifacts]

LifecycleTyped ==
    /\ artifacts \in [Artifacts -> SUBSET ArtifactRows]
    /\ approvals \in [Artifacts -> SUBSET Operators]
    /\ evidence \in [Artifacts -> SUBSET {"pass", "waived", "fail"}]
    /\ calls \in [Operators -> SUBSET CallRecords]

\* An artifact has one row, and an operator one call.
Single ==
    /\ \A a \in Artifacts : \A r, s \in artifacts[a] : r = s
    /\ \A o \in Operators : \A c, d \in calls[o] : c = d

\* The unique indexes, on the rows as they are.
Unique(S) == \A a, b \in Artifacts : InState(a, S) /\ InState(b, S) => a = b

Cleared(a) == approvals[a] # {} /\ evidence[a] \cap {"pass", "waived"} # {}

Activation(a) == IF a \in rolledBack THEN "rollback" ELSE "activate"

\* The activation of an artifact is in the audit, or is known to be missing
\* there, or the call that made it has yet to write it.
Recorded(a) ==
    \/ <<Activation(a), a>> \in audit \cup unaudited
    \/ \E o \in Operators : \E c \in calls[o] :
          c.step = "audit" /\ c.id = a /\ c.action = Activation(a)

\* What holds of the row of artifact a.
RowGoverned(a) ==
    /\ approvals[a] # {} => artifacts[a] # {}
    /\ \A r \in artifacts[a] :
          /\ r.by \notin approvals[a]
          /\ r.state \in {"approved", "scheduled"} => approvals[a] # {}
          /\ r.state = "active" => (a \in rolledBack \/ Cleared(a)) /\ Recorded(a)

\* What an audit entry claims of artifact a.
Done(action, a) ==
    /\ artifacts[a] # {}
    /\ action = "approve" => approvals[a] # {}
    /\ action = "evidence" => evidence[a] # {}
    /\ action = "activate" => Cleared(a)

AuditHonest == \A action \in AuditActions, a \in Artifacts : <<action, a>> \in audit => Done(action, a)

\* What a call has established and no other call can undo.
CallHonest(o, c) ==
    /\ artifacts[c.id] # {}
    /\ c.step = "update" => c.action \in {"shadow", "schedule"}
    /\ c.step = "approve" => c.action = "approve" /\ \A r \in artifacts[c.id] : r.by # o
    /\ c.step = "gates" => c.action = "activate"
    /\ c.step = "retirement" => c.action = "retire"
    /\ c.step = "audit" => Done(c.action, c.id)
    /\ c.step \in {"retire", "activate"} => c.action = "rollback" \/ (c.action = "activate" /\ Cleared(c.id))

CallsHonest == \A o \in Operators : \A c \in calls[o] : CallHonest(o, c)

LifecycleInv ==
    /\ LifecycleTyped /\ Single
    /\ Unique({"active"}) /\ Unique(Candidate)
    /\ \A a \in Artifacts : RowGoverned(a)
    /\ CallsHonest /\ AuditHonest

-----------------------------------------------------------------------------

\* The indexes allow what they say.
LEMMA IndexFacts ==
    ASSUME NEW rows, UniqueIndexes(rows), artifacts' = rows
    PROVE  Unique({"active"})' /\ Unique(Candidate)'
BY Zenon DEF UniqueIndexes, Unique, InState

\* A step that changes one call, and nothing else of the lifecycle.
LEMMA CallMoves ==
    ASSUME LifecycleInv, NEW o \in Operators, NEW S \in SUBSET CallRecords,
           \A c \in calls[o] : c.step # "audit",
           \A c, d \in S : c = d,
           \A c \in S : CallHonest(o, c),
           calls' = [calls EXCEPT ![o] = S],
           UNCHANGED <<artifacts, approvals, evidence, audit, rolledBack, unaudited>>
    PROVE  LifecycleInv'
<1>1. /\ calls \in [Operators -> SUBSET CallRecords]
      /\ \A p \in Operators : calls'[p] = IF p = o THEN S ELSE calls[p]
  BY Zenon DEF LifecycleInv, LifecycleTyped
<1>2. LifecycleTyped'
  BY <1>1, Zenon DEF LifecycleInv, LifecycleTyped
<1>3. Single'
  BY <1>1, Zenon DEF LifecycleInv, Single
<1>4. Unique({"active"})' /\ Unique(Candidate)'
  BY Zenon DEF LifecycleInv, Unique, InState
<1>5. /\ \A a : (Cleared(a) <=> Cleared(a)') /\ Activation(a)' = Activation(a)
      /\ \A action, a : Done(action, a) <=> Done(action, a)'
  BY Zenon DEF Cleared, Activation, Done
<1>6. ASSUME NEW a \in Artifacts, Recorded(a)
      PROVE  Recorded(a)'
  <2>1. CASE <<Activation(a), a>> \in audit \cup unaudited
    BY <1>5, <2>1, Zenon DEF Recorded
  <2>2. CASE \E p \in Operators : \E c \in calls[p] :
                 c.step = "audit" /\ c.id = a /\ c.action = Activation(a)
    BY <1>1, <1>5, <2>2, Zenon DEF Recorded
  <2> QED  BY <1>6, <2>1, <2>2, Zenon DEF Recorded
<1>7. \A a \in Artifacts : RowGoverned(a)'
  BY <1>5, <1>6, Zenon DEF LifecycleInv, RowGoverned
<1>8. CallsHonest'
  <2> SUFFICES ASSUME NEW p \in Operators, NEW c \in calls'[p] PROVE CallHonest(p, c)'
    BY Zenon DEF CallsHonest
  <2>1. CallHonest(p, c)
    BY <1>1, Zenon DEF LifecycleInv, CallsHonest
  <2> QED  BY <1>5, <2>1, Zenon DEF CallHonest
<1>9. AuditHonest'
  BY <1>5, Zenon DEF LifecycleInv, AuditHonest
<1> QED  BY <1>2, <1>3, <1>4, <1>7, <1>8, <1>9, Zenon DEF LifecycleInv

\* A read of an idle operator starts a call that is honest about the artifact.
LEMMA ReadKeeps ==
    ASSUME LifecycleInv, NEW o \in Operators, NEW a \in Artifacts,
           NEW action \in AuditActions, NEW s \in CallSteps, ReadArtifact(o, a, action, s),
           CallHonest(o, [action |-> action, id |-> a, step |-> s, victims |-> {}])
    PROVE  LifecycleInv'
<1> DEFINE c == [action |-> action, id |-> a, step |-> s, victims |-> {}]
<1>1. c \in CallRecords
  BY Zenon DEF CallRecords
<1>2. calls[o] = {} /\ calls' = [calls EXCEPT ![o] = {c}]
  BY Zenon DEF ReadArtifact, Idling
<1>3. UNCHANGED <<artifacts, approvals, evidence, audit, rolledBack, unaudited>>
  BY Zenon DEF ReadArtifact
<1> QED  BY <1>1, <1>2, <1>3, CallMoves, Zenon

\* A call that fails leaves nothing behind.
LEMMA FailKeeps ==
    ASSUME LifecycleInv, NEW o \in Operators, NEW c \in calls[o], c.step # "audit", CallFails(o)
    PROVE  LifecycleInv'
<1>1. \A d \in calls[o] : d.step # "audit"
  BY Zenon DEF LifecycleInv, Single
<1>2. calls' = [calls EXCEPT ![o] = {}] /\ UNCHANGED <<artifacts, approvals, evidence, audit, rolledBack, unaudited>>
  BY Zenon DEF CallFails
<1>3. {} \in SUBSET CallRecords
  BY Zenon
<1> QED  BY <1>1, <1>2, <1>3, CallMoves, Zenon

\* The operations that only read before they write.
LEMMA ReadsKeep ==
    ASSUME LifecycleInv, NEW o \in Operators, NEW a \in Artifacts,
           \/ SetLifecycleShadow(o, a) \/ ScheduleLifecycle(o, a) \/ ApproveLifecycle(o, a)
           \/ ActivateLifecycle(o, a) \/ ActivateDueLifecycle(o, a)
           \/ RollbackLifecycle(o, a) \/ RetireLifecycle(o, a)
    PROVE  LifecycleInv'
<1> DEFINE c(action, s) == [action |-> action, id |-> a, step |-> s, victims |-> {}]
<1>1. \A S : InState(a, S) => artifacts[a] # {}
  BY Zenon DEF InState
<1>2. CASE SetLifecycleShadow(o, a)
  <2>1. artifacts[a] # {} /\ ReadArtifact(o, a, "shadow", "update")
    BY <1>1, <1>2, Zenon DEF SetLifecycleShadow
  <2>2. CallHonest(o, c("shadow", "update"))
    BY <2>1, Zenon DEF CallHonest
  <2> QED  BY <2>1, <2>2, ReadKeeps, Zenon DEF CallSteps, AuditActions
<1>3. CASE ScheduleLifecycle(o, a)
  <2>1. artifacts[a] # {} /\ ReadArtifact(o, a, "schedule", "update")
    BY <1>1, <1>3, Zenon DEF ScheduleLifecycle
  <2>2. CallHonest(o, c("schedule", "update"))
    BY <2>1, Zenon DEF CallHonest
  <2> QED  BY <2>1, <2>2, ReadKeeps, Zenon DEF CallSteps, AuditActions
<1>4. CASE ApproveLifecycle(o, a)
  <2>1. artifacts[a] # {} /\ ReadArtifact(o, a, "approve", "approve") /\ Row(a).by # o
    BY <1>1, <1>4, Zenon DEF ApproveLifecycle
  <2>2. \A r \in artifacts[a] : r = Row(a)
    BY Zenon DEF Row, LifecycleInv, Single
  <2>3. CallHonest(o, c("approve", "approve"))
    BY <2>1, <2>2, Zenon DEF CallHonest
  <2> QED  BY <2>1, <2>3, ReadKeeps, Zenon DEF CallSteps, AuditActions
<1>5. CASE ActivateLifecycle(o, a) \/ ActivateDueLifecycle(o, a)
  <2>1. artifacts[a] # {} /\ ReadArtifact(o, a, "activate", "gates")
    BY <1>1, <1>5, Zenon DEF ActivateLifecycle, ActivateDueLifecycle
  <2>2. CallHonest(o, c("activate", "gates"))
    BY <2>1, Zenon DEF CallHonest
  <2> QED  BY <2>1, <2>2, ReadKeeps, Zenon DEF CallSteps, AuditActions
<1>6. CASE RollbackLifecycle(o, a)
  <2>1. artifacts[a] # {} /\ ReadArtifact(o, a, "rollback", "retire")
    BY <1>1, <1>6, Zenon DEF RollbackLifecycle
  <2>2. CallHonest(o, c("rollback", "retire"))
    BY <2>1, Zenon DEF CallHonest
  <2> QED  BY <2>1, <2>2, ReadKeeps, Zenon DEF CallSteps, AuditActions
<1>7. CASE RetireLifecycle(o, a)
  <2>1. artifacts[a] # {} /\ ReadArtifact(o, a, "retire", "retirement")
    BY <1>1, <1>7, Zenon DEF RetireLifecycle
  <2>2. CallHonest(o, c("retire", "retirement"))
    BY <2>1, Zenon DEF CallHonest
  <2> QED  BY <2>1, <2>2, ReadKeeps, Zenon DEF CallSteps, AuditActions
<1> QED  BY <1>2, <1>3, <1>4, <1>5, <1>6, <1>7, Zenon

\* The gates let an activation pass that is approved and has evidence.
LEMMA GatesKeep ==
    ASSUME LifecycleInv, NEW o \in Operators, lifecycleActivationGates(o)
    PROVE  LifecycleInv'
<1>1. PICK c \in calls[o] :
         /\ c.step = "gates"
         /\ IF ~GatesPassed(c.id) THEN CallFails(o)
            ELSE /\ calls' = [calls EXCEPT ![o] = {[c EXCEPT !.step = "retire"]}]
                 /\ UNCHANGED <<artifacts, approvals, evidence, audit, begun, rolledBack, unaudited, breaks>>
  BY Zenon DEF lifecycleActivationGates, CallAt
<1>2. CASE ~GatesPassed(c.id)
  BY <1>1, <1>2, FailKeeps, Zenon
<1>3. CASE GatesPassed(c.id)
  <2> DEFINE d == [c EXCEPT !.step = "retire"]
  <2>1. c \in CallRecords /\ CallHonest(o, c) /\ evidence[c.id] \subseteq {"pass", "waived", "fail"}
    BY DEF LifecycleInv, LifecycleTyped, CallsHonest, CallRecords
  <2>2. d \in CallRecords /\ d.step = "retire" /\ d.id = c.id /\ d.action = c.action
    BY <2>1, Zenon DEF CallRecords, CallSteps
  <2>3. Cleared(c.id)
    BY <1>3, <2>1, Zenon DEF GatesPassed, Cleared
  <2> HIDE DEF d
  <2>4. CallHonest(o, d)
    BY <1>1, <2>1, <2>2, <2>3, Zenon DEF CallHonest
  <2>5. calls' = [calls EXCEPT ![o] = {d}] /\ UNCHANGED <<artifacts, approvals, evidence, audit, rolledBack, unaudited>>
    BY <1>1, <1>3, Zenon DEF d
  <2>6. \A e \in calls[o] : e.step # "audit"
    BY <1>1, Zenon DEF LifecycleInv, Single
  <2>7. {d} \in SUBSET CallRecords /\ (\A e, f \in {d} : e = f) /\ \A e \in {d} : CallHonest(o, e)
    BY <2>2, <2>4, Zenon
  <2> QED  BY <2>5, <2>6, <2>7, CallMoves, Zenon
<1> QED  BY <1>2, <1>3, Zenon

\* The transaction selects the artifacts to retire.
LEMMA RetireActiveKeeps ==
    ASSUME LifecycleInv, NEW o \in Operators, RetireActive(o)
    PROVE  LifecycleInv'
<1>1. PICK c \in calls[o] :
         /\ c.step = "retire"
         /\ calls' = [calls EXCEPT ![o] = {[c EXCEPT !.step = "activate", !.victims = LifecycleActive]}]
         /\ UNCHANGED <<artifacts, approvals, evidence, audit, begun, rolledBack, unaudited, breaks>>
  BY Zenon DEF RetireActive, CallAt
<1> DEFINE d == [c EXCEPT !.step = "activate", !.victims = LifecycleActive]
<1>2. c \in CallRecords /\ CallHonest(o, c) /\ LifecycleActive \subseteq Artifacts
  BY Zenon DEF LifecycleInv, LifecycleTyped, CallsHonest, LifecycleActive
<1>3. d \in CallRecords /\ d.step = "activate" /\ d.id = c.id /\ d.action = c.action
  BY <1>2, Zenon DEF CallRecords, CallSteps
<1> HIDE DEF d
<1>4. CallHonest(o, d)
  BY <1>1, <1>2, <1>3, Zenon DEF CallHonest
<1>5. calls' = [calls EXCEPT ![o] = {d}] /\ UNCHANGED <<artifacts, approvals, evidence, audit, rolledBack, unaudited>>
  BY <1>1, Zenon DEF d
<1>6. \A e \in calls[o] : e.step # "audit"
  BY <1>1, Zenon DEF LifecycleInv, Single
<1>7. {d} \in SUBSET CallRecords /\ (\A e, f \in {d} : e = f) /\ \A e \in {d} : CallHonest(o, e)
  BY <1>3, <1>4, Zenon
<1> QED  BY <1>5, <1>6, <1>7, CallMoves, Zenon

-----------------------------------------------------------------------------

\* The rows a write leaves behind: typed, one per artifact, of the same creators.
RowsFollow ==
    /\ artifacts' \in [Artifacts -> SUBSET ArtifactRows]
    /\ \A a \in Artifacts :
          /\ \A r, s \in artifacts'[a] : r = s
          /\ artifacts[a] # {} => artifacts'[a] # {}
          /\ \A r \in artifacts'[a] : \E q \in artifacts[a] : q.by = r.by

\* Who approved: not the creator, and no approval is lost.
ApprovalsFollow ==
    /\ approvals' \in [Artifacts -> SUBSET Operators]
    /\ \A a \in Artifacts :
          /\ approvals[a] # {} => approvals'[a] # {}
          /\ approvals'[a] # {} => artifacts[a] # {}
          /\ \A r \in artifacts[a] : r.by \notin approvals'[a]

\* A row becomes active only through the call c, which passed its gates.
ActivationFollows(c) ==
    \A a \in Artifacts : \A r \in artifacts'[a] : r.state = "active" =>
        \/ /\ a = c.id /\ c.action \in {"activate", "rollback"}
           /\ a \in rolledBack' <=> c.action = "rollback"
           /\ c.action = "activate" => Cleared(a)
        \/ InState(a, {"active"}) /\ (a \in rolledBack' <=> a \in rolledBack)

\* A committed write, of whatever operation.
LEMMA CommitKeeps ==
    ASSUME LifecycleInv, NEW o \in Operators, NEW c \in calls[o], c.step # "audit",
           Committed(o, c), RowsFollow, ApprovalsFollow, ActivationFollows(c),
           unaudited \ {<<c.action, c.id>>} \subseteq unaudited', Done(c.action, c.id)',
           Unique({"active"})', Unique(Candidate)',
           \A a \in Artifacts : \A r \in artifacts'[a] :
               r.state \in {"approved", "scheduled"} => approvals'[a] # {}
    PROVE  LifecycleInv'
<1> DEFINE d == [c EXCEPT !.step = "audit"]
<1>1. c \in CallRecords /\ CallHonest(o, c) /\ c.id \in Artifacts
  BY DEF LifecycleInv, LifecycleTyped, CallsHonest, CallRecords
<1>2. d \in CallRecords /\ d.step = "audit" /\ d.id = c.id /\ d.action = c.action
  BY <1>1, Zenon DEF CallRecords, CallSteps
<1>3. /\ \A p \in Operators : calls'[p] = IF p = o THEN {d} ELSE calls[p]
      /\ calls' \in [Operators -> SUBSET CallRecords]
      /\ evidence' = evidence /\ audit' = audit
  BY <1>2, Zenon DEF Committed, LifecycleInv, LifecycleTyped
<1> HIDE DEF d
<1>4. LifecycleTyped'
  BY <1>3, Zenon DEF LifecycleInv, LifecycleTyped, RowsFollow, ApprovalsFollow
<1>5. Single'
  BY <1>3 DEF LifecycleInv, Single, RowsFollow
<1>6. /\ \A a \in Artifacts : Cleared(a) => Cleared(a)'
      /\ \A action, a : a \in Artifacts /\ Done(action, a) => Done(action, a)'
  BY <1>3, Zenon DEF Cleared, ApprovalsFollow, RowsFollow, Done
<1>7. \A e \in calls[o] : e.step # "audit"
  BY Zenon DEF LifecycleInv, Single
<1>8. ASSUME NEW a \in Artifacts, Recorded(a), a \in rolledBack' <=> a \in rolledBack
      PROVE  Recorded(a)'
  <2>1. Activation(a)' = Activation(a)
    BY <1>8, Zenon DEF Activation
  <2>2. CASE <<Activation(a), a>> \in audit \cup unaudited
    <3>1. CASE <<Activation(a), a>> = <<c.action, c.id>>
      <4>1. a = c.id /\ Activation(a) = c.action
        BY <3>1, Zenon
      <4> QED  BY <1>2, <1>3, <2>1, <4>1, Zenon DEF Recorded
    <3>2. CASE <<Activation(a), a>> # <<c.action, c.id>>
      BY <1>3, <2>1, <2>2, <3>2, Zenon DEF Recorded
    <3> QED  BY <3>1, <3>2, Zenon
  <2>3. CASE \E p \in Operators : \E e \in calls[p] :
                 e.step = "audit" /\ e.id = a /\ e.action = Activation(a)
    BY <1>3, <1>7, <2>1, <2>3, Zenon DEF Recorded
  <2> QED  BY <1>8, <2>2, <2>3, Zenon DEF Recorded
<1>9. ASSUME c.action \in {"activate", "rollback"}, c.id \in rolledBack' <=> c.action = "rollback"
      PROVE  Recorded(c.id)'
  <2>1. Activation(c.id)' = c.action
    BY <1>9, Zenon DEF Activation
  <2> QED  BY <1>2, <1>3, <2>1, Zenon DEF Recorded
<1>10. ASSUME NEW a \in Artifacts, NEW r \in artifacts'[a]
       PROVE  /\ r.by \notin approvals'[a]
              /\ r.state \in {"approved", "scheduled"} => approvals'[a] # {}
              /\ r.state = "active" => (a \in rolledBack' \/ Cleared(a)') /\ Recorded(a)'
  <2>1. r.by \notin approvals'[a]
    BY Zenon DEF RowsFollow, ApprovalsFollow
  <2>2. ASSUME r.state = "active"
        PROVE  (a \in rolledBack' \/ Cleared(a)') /\ Recorded(a)'
    <3>1. CASE /\ a = c.id /\ c.action \in {"activate", "rollback"}
               /\ a \in rolledBack' <=> c.action = "rollback"
               /\ c.action = "activate" => Cleared(a)
      BY <1>6, <1>9, <3>1, Zenon
    <3>2. CASE InState(a, {"active"}) /\ (a \in rolledBack' <=> a \in rolledBack)
      <4>1. (a \in rolledBack \/ Cleared(a)) /\ Recorded(a)
        BY <3>2, Zenon DEF LifecycleInv, RowGoverned, InState
      <4> QED  BY <1>6, <1>8, <3>2, <4>1, Zenon
    <3> QED  BY <2>2, <3>1, <3>2, Zenon DEF ActivationFollows
  <2> QED  BY <2>1, <2>2, Zenon
<1>11. \A a \in Artifacts : RowGoverned(a)'
  <2> TAKE a \in Artifacts
  <2>1. approvals'[a] # {} => artifacts'[a] # {}
    BY Zenon DEF RowsFollow, ApprovalsFollow
  <2> QED  BY <1>10, <2>1, Zenon DEF RowGoverned
<1>12. CallsHonest'
  <2> SUFFICES ASSUME NEW p \in Operators, NEW e \in calls'[p] PROVE CallHonest(p, e)'
    BY Zenon DEF CallsHonest
  <2>1. CASE p = o
    <3>1. e = d
      BY <1>3, <2>1, Zenon
    <3>2. artifacts'[d.id] # {} /\ Done(d.action, d.id)'
      BY <1>1, <1>2, Zenon DEF CallHonest, RowsFollow
    <3> QED  BY <1>2, <3>1, <3>2, Zenon DEF CallHonest
  <2>2. CASE p # o
    <3>1. e \in calls[p] /\ CallHonest(p, e) /\ e.id \in Artifacts
      BY <1>3, <2>2 DEF LifecycleInv, CallsHonest, LifecycleTyped, CallRecords
    <3> QED  BY <1>6, <3>1 DEF CallHonest, RowsFollow
  <2> QED  BY <2>1, <2>2, Zenon
<1>13. AuditHonest'
  BY <1>3, <1>6, Zenon DEF LifecycleInv, AuditHonest
<1> QED  BY <1>4, <1>5, <1>11, <1>12, <1>13, Zenon DEF LifecycleInv

\* A write to one artifact's row that keeps its creator follows.
LEMMA RowWritten ==
    ASSUME LifecycleInv, NEW id \in Artifacts, NEW R \in SUBSET ArtifactRows,
           artifacts' = [artifacts EXCEPT ![id] = R],
           \A r, s \in R : r = s, artifacts[id] # {} => R # {},
           \A r \in R : \E q \in artifacts[id] : q.by = r.by
    PROVE  /\ RowsFollow
           /\ \A a \in Artifacts : artifacts'[a] = IF a = id THEN R ELSE artifacts[a]
<1>1. artifacts \in [Artifacts -> SUBSET ArtifactRows]
  BY Zenon DEF LifecycleInv, LifecycleTyped
<1>2. \A a \in Artifacts : artifacts'[a] = IF a = id THEN R ELSE artifacts[a]
  BY <1>1, Zenon
<1>3. artifacts' \in [Artifacts -> SUBSET ArtifactRows]
  BY <1>1, Zenon
<1>4. \A a \in Artifacts : \A r, s \in artifacts'[a] : r = s
  BY <1>2 DEF LifecycleInv, Single
<1> QED  BY <1>2, <1>3, <1>4 DEF RowsFollow

\* No approval changes.
LEMMA ApprovalsStay ==
    ASSUME LifecycleInv, approvals' = approvals
    PROVE  ApprovalsFollow
BY Zenon DEF LifecycleInv, LifecycleTyped, RowGoverned, ApprovalsFollow

\* A guarded transition: the row is where the call read it, or nothing happens.
LEMMA TransitionKeeps ==
    ASSUME LifecycleInv, NEW o \in Operators, transitionLifecycle(o)
    PROVE  LifecycleInv'
<1>1. PICK c \in calls[o] :
         /\ c.step = "update"
         /\ LET t == TransitionStates(c.action)
                rows == [artifacts EXCEPT ![c.id] =
                            {[r EXCEPT !.state = t.to, !.due = t.due] : r \in @}]
            IN IF InState(c.id, {t.from}) /\ UniqueIndexes(rows)
               THEN artifacts' = rows /\ Committed(o, c) /\ UNCHANGED <<approvals, rolledBack, unaudited, breaks>>
               ELSE CallFails(o)
  BY Zenon DEF transitionLifecycle, CallAt
<1> DEFINE t == TransitionStates(c.action)
           f(r) == [r EXCEPT !.state = t.to, !.due = t.due]
           R == {f(r) : r \in artifacts[c.id]}
           rows == [artifacts EXCEPT ![c.id] = R]
<1>2. c \in CallRecords /\ CallHonest(o, c) /\ c.id \in Artifacts /\ artifacts[c.id] \subseteq ArtifactRows
  BY DEF LifecycleInv, LifecycleTyped, CallsHonest, CallRecords
<1>3. CASE ~(InState(c.id, {t.from}) /\ UniqueIndexes(rows))
  <2>1. CallFails(o)
    BY <1>1, <1>3, Zenon
  <2> QED  BY <1>1, <2>1, FailKeeps, Zenon
<1>4. CASE InState(c.id, {t.from}) /\ UniqueIndexes(rows)
  <2>1. /\ artifacts' = rows /\ Committed(o, c) /\ approvals' = approvals
        /\ rolledBack' = rolledBack /\ unaudited' = unaudited
    BY <1>1, <1>4, Zenon
  <2>2. t.to \in {"shadow", "scheduled"} /\ t.due \in {"none", "later"} /\ (t.to = "scheduled" => t.from = "approved")
    BY Zenon DEF TransitionStates
  <2>3. \A q \in artifacts[c.id] : f(q) \in ArtifactRows /\ f(q).state = t.to /\ f(q).by = q.by
    BY <1>2, <2>2, Zenon DEF ArtifactRows, RowStates
  <2>4. /\ R \in SUBSET ArtifactRows /\ (artifacts[c.id] # {} => R # {})
        /\ \A r \in R : r.state = t.to /\ \E q \in artifacts[c.id] : q.by = r.by
        /\ \A r, s \in R : r = s
    <3>1. \A q, p \in artifacts[c.id] : q = p
      BY <1>2, Zenon DEF LifecycleInv, Single
    <3> HIDE DEF f
    <3> QED  BY <2>3, <3>1, Zenon
  <2>5. InState(c.id, {t.from}) /\ Unique({"active"})' /\ Unique(Candidate)'
    BY <1>4, <2>1, IndexFacts, Zenon
  <2> HIDE DEF f, R, t
  <2>6. /\ RowsFollow
        /\ \A a \in Artifacts : artifacts'[a] = IF a = c.id THEN R ELSE artifacts[a]
    <3>1. artifacts' = [artifacts EXCEPT ![c.id] = R]
      BY <2>1, Zenon
    <3>2. \A r \in R : \E q \in artifacts[c.id] : q.by = r.by
      BY <2>4, Zenon
    <3>3. /\ R \in SUBSET ArtifactRows
          /\ artifacts[c.id] # {} => R # {}
          /\ \A r, s \in R : r = s
      BY <2>4, Zenon
    <3> HIDE DEF rows
    <3> QED  BY <1>2, <3>1, <3>2, <3>3, RowWritten, Zenon
  <2>7. ApprovalsFollow
    BY <2>1, ApprovalsStay, Zenon
  <2>8. ActivationFollows(c)
    BY <2>1, <2>2, <2>4, <2>6 DEF ActivationFollows, InState
  <2>9. \A a \in Artifacts : \A r \in artifacts'[a] :
           r.state \in {"approved", "scheduled"} => approvals'[a] # {}
    <3> TAKE a \in Artifacts
    <3> TAKE r \in artifacts'[a]
    <3>1. CASE a = c.id
      BY <1>2, <2>1, <2>2, <2>4, <2>5, <2>6, <3>1 DEF InState, LifecycleInv, RowGoverned
    <3>2. CASE a # c.id
      BY <2>1, <2>6, <3>2, Zenon DEF LifecycleInv, RowGoverned
    <3> QED  BY <3>1, <3>2, Zenon
  <2>10. Done(c.action, c.id)'
    BY <1>1, <1>2, <2>6, Zenon DEF CallHonest, RowsFollow, Done
  <2>11. unaudited \ {<<c.action, c.id>>} \subseteq unaudited'
    BY <2>1, Zenon
  <2> QED  BY <1>1, <2>1, <2>5, <2>6, <2>7, <2>8, <2>9, <2>10, <2>11, CommitKeeps, Zenon
<1> QED  BY <1>3, <1>4, Zenon

\* An approval, by someone who is not the creator.
LEMMA ApprovalKeeps ==
    ASSUME LifecycleInv, NEW o \in Operators, RecordApproval(o)
    PROVE  LifecycleInv'
<1>1. PICK c \in calls[o] :
         /\ c.step = "approve"
         /\ approvals' = [approvals EXCEPT ![c.id] = {o}]
         /\ artifacts' = [artifacts EXCEPT ![c.id] =
                 {IF r.state = "shadow" THEN [r EXCEPT !.state = "approved"] ELSE r : r \in @}]
         /\ Committed(o, c) /\ UNCHANGED <<rolledBack, unaudited, breaks>>
  BY Zenon DEF RecordApproval, CallAt
<1> DEFINE f(r) == IF r.state = "shadow" THEN [r EXCEPT !.state = "approved"] ELSE r
           R == {f(r) : r \in artifacts[c.id]}
<1>2. c \in CallRecords /\ CallHonest(o, c) /\ c.id \in Artifacts /\ artifacts[c.id] \subseteq ArtifactRows
  BY DEF LifecycleInv, LifecycleTyped, CallsHonest, CallRecords
<1>3. \A q \in artifacts[c.id] :
         /\ f(q) \in ArtifactRows /\ f(q).by = q.by
         /\ f(q).state = q.state \/ (q.state = "shadow" /\ f(q).state = "approved")
  BY <1>2, Zenon DEF ArtifactRows, RowStates
<1>4. /\ R \in SUBSET ArtifactRows /\ (artifacts[c.id] # {} => R # {})
      /\ \A r \in R : \E q \in artifacts[c.id] :
            q.by = r.by /\ (r.state = q.state \/ (q.state = "shadow" /\ r.state = "approved"))
      /\ \A r, s \in R : r = s
  <2>1. \A q, p \in artifacts[c.id] : q = p
    BY <1>2, Zenon DEF LifecycleInv, Single
  <2> HIDE DEF f
  <2> QED  BY <1>3, <2>1, Zenon
<1>5. artifacts' = [artifacts EXCEPT ![c.id] = R]
  BY <1>1, Zenon
<1> HIDE DEF f, R
<1>6. /\ RowsFollow
      /\ \A a \in Artifacts : artifacts'[a] = IF a = c.id THEN R ELSE artifacts[a]
  <2>1. \A r \in R : \E q \in artifacts[c.id] : q.by = r.by
    BY <1>4, Zenon
  <2>2. /\ R \in SUBSET ArtifactRows
        /\ artifacts[c.id] # {} => R # {}
        /\ \A r, s \in R : r = s
    BY <1>4, Zenon
  <2> QED  BY <1>2, <1>5, <2>1, <2>2, RowWritten, Zenon
<1>7. /\ \A a \in Artifacts : approvals'[a] = IF a = c.id THEN {o} ELSE approvals[a]
      /\ approvals' \in [Artifacts -> SUBSET Operators]
  BY <1>1, <1>2, Zenon DEF LifecycleInv, LifecycleTyped
<1>8. ApprovalsFollow
  <2>1. \A r \in artifacts[c.id] : r.by # o
    BY <1>1, <1>2, Zenon DEF CallHonest
  <2>2. artifacts[c.id] # {}
    BY <1>2, Zenon DEF CallHonest
  <2> QED  BY <1>7, <2>1, <2>2 DEF ApprovalsFollow, LifecycleInv, RowGoverned
<1>9. /\ \A a \in Artifacts : InState(a, {"active"})' => InState(a, {"active"})
      /\ \A a \in Artifacts : InState(a, Candidate)' => InState(a, Candidate)
  BY <1>4, <1>6, Zenon DEF InState, Candidate
<1>10. Unique({"active"})' /\ Unique(Candidate)'
  BY <1>9, Zenon DEF LifecycleInv, Unique
<1>11. ActivationFollows(c)
  <2>1. \A a \in Artifacts : \A r \in artifacts'[a] : r.state = "active" => InState(a, {"active"})
    BY <1>9, Zenon DEF InState
  <2> QED  BY <1>1, <2>1, Zenon DEF ActivationFollows
<1>12. \A a \in Artifacts : \A r \in artifacts'[a] :
          r.state \in {"approved", "scheduled"} => approvals'[a] # {}
  BY <1>6, <1>7, Zenon DEF LifecycleInv, RowGoverned
<1>13. Done(c.action, c.id)'
  BY <1>1, <1>2, <1>6, <1>7, Zenon DEF CallHonest, RowsFollow, Done
<1>14. unaudited \ {<<c.action, c.id>>} \subseteq unaudited'
  BY <1>1, Zenon
<1> QED  BY <1>1, <1>6, <1>8, <1>10, <1>11, <1>12, <1>13, <1>14, CommitKeeps, Zenon

\* An explicit retirement, whatever the row has become.
LEMMA RetirementKeeps ==
    ASSUME LifecycleInv, NEW o \in Operators, Retirement(o)
    PROVE  LifecycleInv'
<1>1. PICK c \in calls[o] :
         /\ c.step = "retirement"
         /\ artifacts' = [artifacts EXCEPT ![c.id] =
                             {[r EXCEPT !.state = "retired", !.due = "none"] : r \in @}]
         /\ Committed(o, c) /\ UNCHANGED <<approvals, rolledBack, unaudited, breaks>>
  BY Zenon DEF Retirement, CallAt
<1> DEFINE f(r) == [r EXCEPT !.state = "retired", !.due = "none"]
           R == {f(r) : r \in artifacts[c.id]}
<1>2. c \in CallRecords /\ CallHonest(o, c) /\ c.id \in Artifacts /\ artifacts[c.id] \subseteq ArtifactRows
  BY DEF LifecycleInv, LifecycleTyped, CallsHonest, CallRecords
<1>3. \A q \in artifacts[c.id] : f(q) \in ArtifactRows /\ f(q).state = "retired" /\ f(q).by = q.by
  BY <1>2, Zenon DEF ArtifactRows, RowStates
<1>4. /\ R \in SUBSET ArtifactRows /\ (artifacts[c.id] # {} => R # {})
      /\ \A r \in R : r.state = "retired" /\ \E q \in artifacts[c.id] : q.by = r.by
      /\ \A r, s \in R : r = s
  <2>1. \A q, p \in artifacts[c.id] : q = p
    BY <1>2, Zenon DEF LifecycleInv, Single
  <2> HIDE DEF f
  <2> QED  BY <1>3, <2>1, Zenon
<1>5. artifacts' = [artifacts EXCEPT ![c.id] = R]
  BY <1>1, Zenon
<1> HIDE DEF f, R
<1>6. /\ RowsFollow
      /\ \A a \in Artifacts : artifacts'[a] = IF a = c.id THEN R ELSE artifacts[a]
  <2>1. \A r \in R : \E q \in artifacts[c.id] : q.by = r.by
    BY <1>4, Zenon
  <2>2. /\ R \in SUBSET ArtifactRows
        /\ artifacts[c.id] # {} => R # {}
        /\ \A r, s \in R : r = s
    BY <1>4, Zenon
  <2> QED  BY <1>2, <1>5, <2>1, <2>2, RowWritten, Zenon
<1>7. ApprovalsFollow
  BY <1>1, ApprovalsStay, Zenon
<1>8. /\ \A a \in Artifacts : InState(a, {"active"})' => InState(a, {"active"})
      /\ \A a \in Artifacts : InState(a, Candidate)' => InState(a, Candidate)
  BY <1>4, <1>6, Zenon DEF InState, Candidate
<1>9. Unique({"active"})' /\ Unique(Candidate)'
  BY <1>8, Zenon DEF LifecycleInv, Unique
<1>10. ActivationFollows(c)
  <2>1. \A a \in Artifacts : \A r \in artifacts'[a] : r.state = "active" => InState(a, {"active"})
    BY <1>8, Zenon DEF InState
  <2> QED  BY <1>1, <2>1, Zenon DEF ActivationFollows
<1>11. \A a \in Artifacts : \A r \in artifacts'[a] :
          r.state \in {"approved", "scheduled"} => approvals'[a] # {}
  <2>1. \A a \in Artifacts : \A r \in artifacts'[a] : r.state = "retired" \/ r \in artifacts[a]
    BY <1>4, <1>6, Zenon
  <2> QED  BY <1>1, <2>1, Zenon DEF LifecycleInv, RowGoverned
<1>12. Done(c.action, c.id)'
  BY <1>1, <1>2, <1>6, Zenon DEF CallHonest, RowsFollow, Done
<1>13. unaudited \ {<<c.action, c.id>>} \subseteq unaudited'
  BY <1>1, Zenon
<1> QED  BY <1>1, <1>6, <1>7, <1>9, <1>10, <1>11, <1>12, <1>13, CommitKeeps, Zenon

\* The rows an activation writes.
Activated(id, V) ==
    [RetireRows(artifacts, V) EXCEPT ![id] = {[r EXCEPT !.state = "active", !.due = "none"] : r \in @}]

\* The rows of an activation: the victims retired, the artifact active.
LEMMA ActivationRows ==
    ASSUME LifecycleInv, NEW id \in Artifacts, NEW V \in SUBSET Artifacts,
           artifacts' = Activated(id, V)
    PROVE  /\ RowsFollow
           /\ \A r \in artifacts'[id] : r.state = "active"
           /\ \A a \in Artifacts \ {id} : \A r \in artifacts'[a] : r.state = "retired" \/ r \in artifacts[a]
<1> DEFINE f(r) == [r EXCEPT !.state = "retired"]
           g(r) == [r EXCEPT !.state = "active", !.due = "none"]
           T == RetireRows(artifacts, V)
<1>1. /\ artifacts \in [Artifacts -> SUBSET ArtifactRows]
      /\ \A a \in Artifacts : \A r, s \in artifacts[a] : r = s
  BY Zenon DEF LifecycleInv, LifecycleTyped, Single
<1>2. \A r \in ArtifactRows : f(r) \in ArtifactRows /\ f(r).state = "retired" /\ f(r).by = r.by
  BY Zenon DEF ArtifactRows, RowStates
<1>3. \A r \in ArtifactRows : g(r) \in ArtifactRows /\ g(r).state = "active" /\ g(r).by = r.by
  BY Zenon DEF ArtifactRows, RowStates
<1>4. T = [a \in Artifacts |-> IF a \in V THEN {f(r) : r \in artifacts[a]} ELSE artifacts[a]]
  BY Zenon DEF RetireRows
<1> HIDE DEF f
<1>5. ASSUME NEW a \in Artifacts
      PROVE  /\ T[a] \in SUBSET ArtifactRows
             /\ \A r, s \in T[a] : r = s
             /\ artifacts[a] # {} => T[a] # {}
             /\ \A r \in T[a] : \E q \in artifacts[a] : q.by = r.by
             /\ \A r \in T[a] : r.state = "retired" \/ r \in artifacts[a]
  <2>1. artifacts[a] \in SUBSET ArtifactRows
    BY <1>1, Zenon
  <2>2. CASE a \in V
    <3>1. T[a] = {f(r) : r \in artifacts[a]}
      BY <1>4, <2>2, Zenon
    <3> HIDE DEF T
    <3>2. \A r \in T[a] : \E q \in artifacts[a] : r = f(q)
      BY <3>1, Zenon
    <3>3. \A q \in artifacts[a] : f(q) \in T[a]
      BY <3>1, Zenon
    <3>4. T[a] \in SUBSET ArtifactRows
      BY <1>2, <2>1, <3>2, Zenon
    <3>5. \A r, s \in T[a] : r = s
      BY <1>1, <3>2
    <3>6. \A r \in T[a] : r.state = "retired" /\ \E q \in artifacts[a] : q.by = r.by
      BY <1>2, <2>1, <3>2
    <3> QED  BY <3>3, <3>4, <3>5, <3>6, Zenon
  <2>3. CASE a \notin V
    <3>1. T[a] = artifacts[a]
      BY <1>4, <2>3, Zenon
    <3> QED  BY <1>1, <2>1, <3>1, Zenon
  <2> QED  BY <2>2, <2>3, Zenon
<1>6. /\ DOMAIN T = Artifacts
      /\ T \in [Artifacts -> SUBSET ArtifactRows]
  BY <1>4, <1>5, Zenon
<1> DEFINE G == {g(r) : r \in T[id]}
<1>7. artifacts' = [T EXCEPT ![id] = G]
  BY Zenon DEF Activated
<1> HIDE DEF T, g
<1>8. \A a \in Artifacts : artifacts'[a] = IF a = id THEN G ELSE T[a]
  BY <1>6, <1>7, Zenon
<1>9. (\A r \in G : \E q \in T[id] : r = g(q)) /\ \A q \in T[id] : g(q) \in G
  BY Zenon
<1> HIDE DEF G
<1>10. G \in SUBSET ArtifactRows
  BY <1>3, <1>5, <1>9
<1>11. \A r, s \in G : r = s
  BY <1>5, <1>9, Zenon
<1>12. artifacts[id] # {} => G # {}
  BY <1>5, <1>9, Zenon
<1>13. \A r \in G : r.state = "active" /\ \E q \in artifacts[id] : q.by = r.by
  <2> TAKE r \in G
  <2>1. PICK q \in T[id] : r = g(q)
    BY <1>9, Zenon
  <2>2. q \in ArtifactRows /\ \E p \in artifacts[id] : p.by = q.by
    BY <1>5, Zenon
  <2> QED  BY <1>3, <2>1, <2>2, Zenon
<1>14. artifacts' \in [Artifacts -> SUBSET ArtifactRows]
  BY <1>6, <1>7, <1>10, Zenon
<1>15. ASSUME NEW a \in Artifacts
       PROVE  /\ \A r, s \in artifacts'[a] : r = s
              /\ artifacts[a] # {} => artifacts'[a] # {}
              /\ \A r \in artifacts'[a] : \E q \in artifacts[a] : q.by = r.by
  <2>1. CASE a = id
    <3>1. artifacts'[a] = G
      BY <1>8, <2>1, Zenon
    <3> QED  BY <1>11, <1>12, <1>13, <2>1, <3>1, Zenon
  <2>2. CASE a # id
    <3>1. artifacts'[a] = T[a]
      BY <1>8, <2>2, Zenon
    <3> QED  BY <1>5, <3>1, Zenon
  <2> QED  BY <2>1, <2>2, Zenon
<1>16. RowsFollow
  BY <1>14, <1>15, Zenon DEF RowsFollow
<1>17. \A r \in artifacts'[id] : r.state = "active"
  BY <1>8, <1>13, Zenon
<1>18. \A a \in Artifacts \ {id} : artifacts'[a] = T[a]
  BY <1>8, Zenon
<1> QED  BY <1>5, <1>16, <1>17, <1>18, Zenon

\* The second statement of an activation, and its commit.
LEMMA ActivateKeeps ==
    ASSUME LifecycleInv, NEW o \in Operators, activateLifecycle(o)
    PROVE  LifecycleInv'
<1>1. PICK c \in calls[o] :
         /\ c.step = "activate"
         /\ LET retired == RetireRows(artifacts, c.victims \cap LifecycleActive)
                rows == [retired EXCEPT ![c.id] =
                            {[r EXCEPT !.state = "active", !.due = "none"] : r \in @}]
            IN IF UniqueIndexes(rows)
               THEN /\ artifacts' = rows
                    /\ rolledBack' = IF c.action = "rollback" THEN rolledBack \cup {c.id}
                                     ELSE rolledBack \ {c.id}
                    /\ unaudited' = unaudited \ {<<c.action, c.id>>}
                    /\ Committed(o, c) /\ UNCHANGED <<approvals, breaks>>
               ELSE CallFails(o)
  BY Zenon DEF activateLifecycle, CallAt
<1> DEFINE V == c.victims \cap LifecycleActive
           rows == [RetireRows(artifacts, V) EXCEPT ![c.id] =
                       {[r EXCEPT !.state = "active", !.due = "none"] : r \in @}]
<1>2. c \in CallRecords /\ CallHonest(o, c) /\ c.id \in Artifacts /\ V \in SUBSET Artifacts
  BY DEF LifecycleInv, LifecycleTyped, CallsHonest, CallRecords, LifecycleActive
<1>3. CASE ~UniqueIndexes(rows)
  <2>1. CallFails(o)
    BY <1>1, <1>3, Zenon
  <2> QED  BY <1>1, <2>1, FailKeeps, Zenon
<1>4. CASE UniqueIndexes(rows)
  <2>1. /\ artifacts' = rows /\ Committed(o, c) /\ approvals' = approvals
        /\ rolledBack' = IF c.action = "rollback" THEN rolledBack \cup {c.id} ELSE rolledBack \ {c.id}
        /\ unaudited \ {<<c.action, c.id>>} \subseteq unaudited'
    BY <1>1, <1>4, Zenon
  <2>2. /\ RowsFollow
        /\ \A r \in artifacts'[c.id] : r.state = "active"
        /\ \A a \in Artifacts \ {c.id} : \A r \in artifacts'[a] : r.state = "retired" \/ r \in artifacts[a]
    BY <1>2, <2>1, ActivationRows, Zenon DEF Activated
  <2>3. Unique({"active"})' /\ Unique(Candidate)'
    BY <1>4, <2>1, IndexFacts, Zenon
  <2> HIDE DEF V, rows
  <2>4. ApprovalsFollow
    BY <2>1, ApprovalsStay, Zenon
  <2>5. c.action = "rollback" \/ (c.action = "activate" /\ Cleared(c.id))
    BY <1>1, <1>2, Zenon DEF CallHonest
  <2>6. \A a \in Artifacts : a # c.id => (a \in rolledBack' <=> a \in rolledBack)
    BY <2>1, Zenon
  <2>7. c.id \in rolledBack' <=> c.action = "rollback"
    BY <2>1, Zenon
  <2>8. ActivationFollows(c)
    <3> SUFFICES ASSUME NEW a \in Artifacts, NEW r \in artifacts'[a], r.state = "active"
                 PROVE  \/ /\ a = c.id /\ c.action \in {"activate", "rollback"}
                           /\ a \in rolledBack' <=> c.action = "rollback"
                           /\ c.action = "activate" => Cleared(a)
                        \/ InState(a, {"active"}) /\ (a \in rolledBack' <=> a \in rolledBack)
      BY Zenon DEF ActivationFollows
    <3>1. CASE a = c.id
      BY <2>5, <2>7, <3>1, Zenon
    <3>2. CASE a # c.id
      BY <2>2, <2>6, <3>2, Zenon DEF InState
    <3> QED  BY <3>1, <3>2, Zenon
  <2>9. \A a \in Artifacts : \A r \in artifacts'[a] :
           r.state \in {"approved", "scheduled"} => approvals'[a] # {}
    BY <2>1, <2>2, Zenon DEF LifecycleInv, RowGoverned
  <2>10. Done(c.action, c.id)'
    <3>1. artifacts'[c.id] # {} /\ evidence' = evidence
      BY <1>2, <2>1, <2>2, Zenon DEF CallHonest, RowsFollow, Committed
    <3> QED  BY <2>1, <2>5, <3>1, Zenon DEF Done, Cleared
  <2> QED  BY <1>1, <2>1, <2>2, <2>3, <2>4, <2>8, <2>9, <2>10, CommitKeeps, Zenon
<1> QED  BY <1>3, <1>4, Zenon

\* A row is inserted: the statement, and with it the call, that has yet to write
\* its audit row.
LEMMA InsertKeeps ==
    ASSUME LifecycleInv, NEW o \in Operators, NEW id \in Artifacts, NEW action \in AuditActions,
           calls[o] = {}, Inserted(o, id, action),
           approvals' = approvals, audit' = audit, rolledBack' = rolledBack, unaudited' = unaudited,
           artifacts' \in [Artifacts -> SUBSET ArtifactRows],
           \A a \in Artifacts : artifacts[a] # {} => artifacts'[a] = artifacts[a],
           \A a \in Artifacts : \A r, s \in artifacts'[a] : r = s,
           \A a \in Artifacts : artifacts[a] = {} => \A r \in artifacts'[a] : r.state = "draft",
           evidence' \in [Artifacts -> SUBSET {"pass", "waived", "fail"}],
           \A a \in Artifacts : evidence[a] \subseteq evidence'[a],
           Done(action, id)'
    PROVE  LifecycleInv'
<1> DEFINE n == [action |-> action, id |-> id, step |-> "audit", victims |-> {}]
<1>1. n \in CallRecords /\ n.step = "audit" /\ n.id = id /\ n.action = action
  BY Zenon DEF CallRecords, CallSteps
<1>0. calls' = [calls EXCEPT ![o] = {n}] /\ calls \in [Operators -> SUBSET CallRecords]
  BY Zenon DEF Inserted, LifecycleInv, LifecycleTyped
<1> HIDE DEF n
<1>2. /\ \A p \in Operators : calls'[p] = IF p = o THEN {n} ELSE calls[p]
      /\ calls' \in [Operators -> SUBSET CallRecords]
  BY <1>0, <1>1, Zenon
<1>3. LifecycleTyped' /\ Single'
  <2>1. LifecycleTyped'
    BY <1>2, Zenon DEF LifecycleInv, LifecycleTyped
  <2>2. \A p \in Operators : \A c, d \in calls'[p] : c = d
    BY <1>2 DEF LifecycleInv, Single
  <2> QED  BY <2>1, <2>2, Zenon DEF Single
<1>4. \A a \in Artifacts : \A r \in artifacts'[a] : r.state = "draft" \/ r \in artifacts[a]
  BY Zenon
<1>5. /\ \A a \in Artifacts : InState(a, {"active"})' => InState(a, {"active"})
      /\ \A a \in Artifacts : InState(a, Candidate)' => InState(a, Candidate)
  BY <1>4, Zenon DEF InState, Candidate
<1>6. Unique({"active"})' /\ Unique(Candidate)'
  BY <1>5, Zenon DEF LifecycleInv, Unique
<1>7. /\ \A a \in Artifacts : Cleared(a) => Cleared(a)'
      /\ \A act, a : a \in Artifacts /\ Done(act, a) => Done(act, a)'
  BY Zenon DEF Cleared, Done
<1>8. \A a \in Artifacts : Recorded(a) => Recorded(a)'
  BY <1>2, Zenon DEF Recorded, Activation
<1>9. \A a \in Artifacts : RowGoverned(a)'
  <2> TAKE a \in Artifacts
  <2>1. RowGoverned(a) /\ approvals'[a] = approvals[a] /\ rolledBack' = rolledBack
    BY Zenon DEF LifecycleInv
  <2>2. CASE artifacts[a] = {}
    <3>1. approvals'[a] = {}
      BY <2>1, <2>2, Zenon DEF RowGoverned
    <3>2. \A r \in artifacts'[a] : r.state = "draft"
      BY <2>2, Zenon
    <3> QED  BY <3>1, <3>2, Zenon DEF RowGoverned
  <2>3. CASE artifacts[a] # {}
    <3>1. artifacts'[a] = artifacts[a]
      BY <2>3, Zenon
    <3> QED  BY <1>7, <1>8, <2>1, <3>1, Zenon DEF RowGoverned
  <2> QED  BY <2>2, <2>3, Zenon
<1>10. CallsHonest'
  <2> SUFFICES ASSUME NEW p \in Operators, NEW c \in calls'[p] PROVE CallHonest(p, c)'
    BY Zenon DEF CallsHonest
  <2>1. CASE p = o
    <3>1. calls'[p] = {n} /\ c \in calls'[p]
      BY <1>2, <2>1, Zenon
    <3>2. c = n
      BY <3>1
    <3> QED  BY <1>1, <3>2, Zenon DEF CallHonest, Done
  <2>2. CASE p # o
    <3>1. c \in calls[p] /\ CallHonest(p, c) /\ c.id \in Artifacts
      BY <1>2, <2>2 DEF LifecycleInv, CallsHonest, LifecycleTyped, CallRecords
    <3>2. artifacts'[c.id] = artifacts[c.id]
      BY <3>1, Zenon DEF CallHonest
    <3> QED  BY <1>7, <3>1, <3>2, Zenon DEF CallHonest
  <2> QED  BY <2>1, <2>2, Zenon
<1>11. AuditHonest'
  BY <1>7, Zenon DEF LifecycleInv, AuditHonest
<1> QED  BY <1>3, <1>6, <1>9, <1>10, <1>11, Zenon DEF LifecycleInv

\* An artifact is created.
LEMMA CreateKeeps ==
    ASSUME LifecycleInv, NEW o \in Operators, NEW id \in Artifacts, CreateLifecycleArtifact(o, id)
    PROVE  LifecycleInv'
<1> DEFINE n == [state |-> "draft", by |-> o, due |-> "none"]
<1>1. /\ artifacts[id] = {} /\ artifacts' = [artifacts EXCEPT ![id] = {n}]
      /\ calls[o] = {} /\ Inserted(o, id, "create")
      /\ approvals' = approvals /\ evidence' = evidence /\ audit' = audit
      /\ rolledBack' = rolledBack /\ unaudited' = unaudited
  BY Zenon DEF CreateLifecycleArtifact, Idling
<1>2. n \in ArtifactRows /\ n.state = "draft"
  BY Zenon DEF ArtifactRows, RowStates
<1> HIDE DEF n
<1>3. /\ \A a \in Artifacts : artifacts'[a] = IF a = id THEN {n} ELSE artifacts[a]
      /\ artifacts' \in [Artifacts -> SUBSET ArtifactRows]
      /\ evidence' \in [Artifacts -> SUBSET {"pass", "waived", "fail"}]
  BY <1>1, <1>2, Zenon DEF LifecycleInv, LifecycleTyped
<1>4. /\ \A a \in Artifacts : artifacts[a] # {} => artifacts'[a] = artifacts[a]
      /\ \A a \in Artifacts : artifacts[a] = {} => \A r \in artifacts'[a] : r.state = "draft"
  BY <1>1, <1>2, <1>3, Zenon
<1>5. \A a \in Artifacts : \A r, s \in artifacts'[a] : r = s
  BY <1>3 DEF LifecycleInv, Single
<1>6. Done("create", id)'
  BY <1>3, Zenon DEF Done
<1>7. "create" \in AuditActions /\ \A a \in Artifacts : evidence[a] \subseteq evidence'[a]
  BY <1>1, Zenon DEF AuditActions
<1> QED  BY <1>1, <1>3, <1>4, <1>5, <1>6, <1>7, InsertKeeps, Zenon

\* Evidence is recorded.
LEMMA EvidenceKeeps ==
    ASSUME LifecycleInv, NEW o \in Operators, NEW id \in Artifacts,
           NEW result \in {"pass", "waived", "fail"}, AddLifecycleEvidence(o, id, result)
    PROVE  LifecycleInv'
<1>1. /\ evidence' = [evidence EXCEPT ![id] = @ \cup {result}] /\ artifacts[id] # {}
      /\ calls[o] = {} /\ Inserted(o, id, "evidence")
      /\ artifacts' = artifacts /\ approvals' = approvals /\ audit' = audit
      /\ rolledBack' = rolledBack /\ unaudited' = unaudited
  BY Zenon DEF AddLifecycleEvidence, Idling
<1>2. /\ evidence \in [Artifacts -> SUBSET {"pass", "waived", "fail"}]
      /\ artifacts \in [Artifacts -> SUBSET ArtifactRows]
      /\ \A a \in Artifacts : \A r, s \in artifacts[a] : r = s
  BY Zenon DEF LifecycleInv, LifecycleTyped, Single
<1>3. evidence' \in [Artifacts -> SUBSET {"pass", "waived", "fail"}]
  BY <1>1, <1>2, Zenon
<1>4. (\A a \in Artifacts : evidence[a] \subseteq evidence'[a]) /\ result \in evidence'[id]
  BY <1>1, <1>2, Zenon
<1>5. Done("evidence", id)'
  BY <1>1, <1>4, Zenon DEF Done
<1>6. /\ "evidence" \in AuditActions
      /\ artifacts' \in [Artifacts -> SUBSET ArtifactRows]
      /\ \A a \in Artifacts : \A r, s \in artifacts'[a] : r = s
      /\ \A a \in Artifacts : artifacts[a] # {} => artifacts'[a] = artifacts[a]
      /\ \A a \in Artifacts : artifacts[a] = {} => \A r \in artifacts'[a] : r.state = "draft"
  BY <1>1, <1>2, Zenon DEF AuditActions
<1> QED  BY <1>1, <1>3, <1>4, <1>5, <1>6, InsertKeeps, Zenon

\* A call ends, with its audit entry or known to be without.
LEMMA EndKeeps ==
    ASSUME LifecycleInv, artifacts' = artifacts, approvals' = approvals, evidence' = evidence,
           rolledBack' = rolledBack, audit \subseteq audit', unaudited \subseteq unaudited',
           calls' \in [Operators -> SUBSET CallRecords],
           \A o \in Operators : calls'[o] \subseteq calls[o],
           \A o \in Operators : \A c \in calls[o] \ calls'[o] :
               c.step = "audit" /\ c.action \in {"activate", "rollback"} =>
                   <<c.action, c.id>> \in audit' \cup unaudited',
           \A action \in AuditActions, a \in Artifacts : <<action, a>> \in audit' =>
               <<action, a>> \in audit \/ \E o \in Operators : \E c \in calls[o] : c.step = "audit" /\ c.action = action /\ c.id = a
    PROVE  LifecycleInv'
<1>1. LifecycleTyped' /\ Single'
  <2>1. /\ LifecycleTyped /\ Single /\ artifacts' = artifacts /\ approvals' = approvals /\ evidence' = evidence
        /\ calls' \in [Operators -> SUBSET CallRecords] /\ \A o \in Operators : calls'[o] \subseteq calls[o]
    BY Zenon DEF LifecycleInv
  <2>2. LifecycleTyped'
    BY <2>1 DEF LifecycleTyped
  <2>3. \A o \in Operators : \A c, d \in calls'[o] : c = d
    BY <2>1 DEF Single
  <2> QED  BY <2>1, <2>2, <2>3 DEF Single
<1>2. Unique({"active"})' /\ Unique(Candidate)'
  BY Zenon DEF LifecycleInv, Unique, InState
<1>3. /\ \A a \in Artifacts : Cleared(a) => Cleared(a)'
      /\ \A action, a : Done(action, a) => Done(action, a)'
  BY Zenon DEF Cleared, Done
<1>4. ASSUME NEW a \in Artifacts, Recorded(a)
      PROVE  Recorded(a)'
  <2>1. Activation(a)' = Activation(a) /\ Activation(a) \in {"activate", "rollback"}
    BY Zenon DEF Activation
  <2>2. CASE <<Activation(a), a>> \in audit \cup unaudited
    BY <2>1, <2>2, Zenon DEF Recorded
  <2>3. CASE \E p \in Operators : \E c \in calls[p] :
                 c.step = "audit" /\ c.id = a /\ c.action = Activation(a)
    <3>0. PICK p \in Operators : \E c \in calls[p] :
                 c.step = "audit" /\ c.id = a /\ c.action = Activation(a)
      BY <2>3, Zenon
    <3>1. PICK c \in calls[p] : c.step = "audit" /\ c.id = a /\ c.action = Activation(a)
      BY <3>0, Zenon
    <3>2. CASE c \in calls'[p]
      BY <2>1, <3>1, <3>2, Zenon DEF Recorded
    <3>3. CASE c \notin calls'[p]
      <4>1. <<c.action, c.id>> \in audit' \cup unaudited'
        BY <2>1, <3>1, <3>3, Zenon
      <4> QED  BY <2>1, <3>1, <4>1, Zenon DEF Recorded
    <3> QED  BY <3>2, <3>3, Zenon
  <2> QED  BY <1>4, <2>2, <2>3, Zenon DEF Recorded
<1>5. \A a \in Artifacts : RowGoverned(a)'
  BY <1>3, <1>4, Zenon DEF LifecycleInv, RowGoverned
<1>6. CallsHonest'
  <2> SUFFICES ASSUME NEW p \in Operators, NEW c \in calls'[p] PROVE CallHonest(p, c)'
    BY Zenon DEF CallsHonest
  <2>1. CallHonest(p, c) /\ c.id \in Artifacts
    BY DEF LifecycleInv, CallsHonest, LifecycleTyped, CallRecords
  <2> QED  BY <1>3, <2>1, Zenon DEF CallHonest
<1>7. AuditHonest'
  <2> SUFFICES ASSUME NEW action \in AuditActions, NEW a \in Artifacts, <<action, a>> \in audit'
               PROVE  Done(action, a)
    BY <1>3, Zenon DEF AuditHonest
  <2>1. CASE <<action, a>> \in audit
    BY <2>1, Zenon DEF LifecycleInv, AuditHonest
  <2>2. CASE <<action, a>> \notin audit
    <3>1. \E o \in Operators : \E c \in calls[o] : c.step = "audit" /\ c.action = action /\ c.id = a
      BY <2>2, Zenon
    <3>2. \A o \in Operators : \A c \in calls[o] : c.step = "audit" => Done(c.action, c.id)
      BY Zenon DEF LifecycleInv, CallsHonest, CallHonest
    <3> QED  BY <3>1, <3>2
  <2> QED  BY <2>1, <2>2, Zenon
<1> QED  BY <1>1, <1>2, <1>5, <1>6, <1>7, Zenon DEF LifecycleInv

\* A call writes its audit entry and ends, or breaks off.
LEMMA AuditKeeps ==
    ASSUME LifecycleInv, NEW o \in Operators, auditLifecycle(o) \/ CallBreaks(o)
    PROVE  LifecycleInv'
<1>1. PICK c \in calls[o] :
         /\ \/ c.step = "audit" /\ audit' = audit \cup {<<c.action, c.id>>} /\ unaudited' = unaudited
            \/ /\ audit' = audit
               /\ unaudited' = IF c.step = "audit" /\ c.action \in {"activate", "rollback"}
                               THEN unaudited \cup {<<c.action, c.id>>} ELSE unaudited
         /\ calls' = [calls EXCEPT ![o] = {}]
         /\ artifacts' = artifacts /\ approvals' = approvals /\ evidence' = evidence
         /\ rolledBack' = rolledBack
  BY Zenon DEF auditLifecycle, CallBreaks, CallAt
<1>2. /\ calls \in [Operators -> SUBSET CallRecords]
      /\ \A d \in calls[o] : d = c
  BY Zenon DEF LifecycleInv, LifecycleTyped, Single
<1>3. calls' \in [Operators -> SUBSET CallRecords]
  BY <1>1, <1>2, Zenon
<1>4. \A p \in Operators : calls'[p] = IF p = o THEN {} ELSE calls[p]
  BY <1>1, <1>2, Zenon
<1>5. \A p \in Operators : calls'[p] \subseteq calls[p]
  BY <1>4, Zenon
<1>6. \A p \in Operators : \A d \in calls[p] \ calls'[p] : d = c
  BY <1>2, <1>4, Zenon
<1>7. \A p \in Operators : \A d \in calls[p] \ calls'[p] :
         d.step = "audit" /\ d.action \in {"activate", "rollback"} => <<d.action, d.id>> \in audit' \cup unaudited'
  BY <1>1, <1>6, Zenon
<1>8. audit \subseteq audit' /\ unaudited \subseteq unaudited'
  BY <1>1, Zenon
<1>9. ASSUME NEW action \in AuditActions, NEW a \in Artifacts, <<action, a>> \in audit', <<action, a>> \notin audit
      PROVE  \E p \in Operators : \E d \in calls[p] : d.step = "audit" /\ d.action = action /\ d.id = a
  <2>1. c.step = "audit" /\ <<action, a>> = <<c.action, c.id>>
    BY <1>1, <1>9, Zenon
  <2>2. c.action = action /\ c.id = a
    BY <2>1, Zenon
  <2> QED  BY <1>1, <2>1, <2>2, Zenon
<1> QED  BY <1>1, <1>3, <1>5, <1>7, <1>8, <1>9, EndKeeps, Zenon

\* The time of a schedule changes no state and no creator.
LEMMA TimeKeeps ==
    ASSUME LifecycleInv, NEW id \in Artifacts, TimeComes(id)
    PROVE  LifecycleInv'
<1> DEFINE f(r) == [r EXCEPT !.due = "now"]
           R == {f(r) : r \in artifacts[id]}
<1>1. /\ artifacts' = [artifacts EXCEPT ![id] = R]
      /\ approvals' = approvals /\ evidence' = evidence /\ audit' = audit
      /\ calls' = calls /\ rolledBack' = rolledBack /\ unaudited' = unaudited
  BY Zenon DEF TimeComes
<1>2. /\ artifacts \in [Artifacts -> SUBSET ArtifactRows]
      /\ \A q, p \in artifacts[id] : q = p
  BY Zenon DEF LifecycleInv, LifecycleTyped, Single
<1>3. \A q \in ArtifactRows : f(q) \in ArtifactRows /\ f(q).state = q.state /\ f(q).by = q.by
  BY Zenon DEF ArtifactRows
<1> HIDE DEF f
<1>4. (\A r \in R : \E q \in artifacts[id] : r = f(q)) /\ \A q \in artifacts[id] : f(q) \in R
  BY Zenon
<1> HIDE DEF R
<1>5. artifacts[id] \in SUBSET ArtifactRows
  BY <1>2, Zenon
<1>6. \A r \in R : r \in ArtifactRows /\ \E q \in artifacts[id] : q.state = r.state /\ q.by = r.by
  BY <1>3, <1>4, <1>5, Zenon
<1>7. (\A r, s \in R : r = s) /\ (artifacts[id] # {} => R # {})
  BY <1>2, <1>4, Zenon
<1>8. \A a \in Artifacts : artifacts'[a] = IF a = id THEN R ELSE artifacts[a]
  BY <1>1, <1>2, Zenon
<1>9. artifacts' \in [Artifacts -> SUBSET ArtifactRows]
  BY <1>1, <1>2, <1>6, Zenon
<1>10. ASSUME NEW a \in Artifacts
       PROVE  /\ \A r, s \in artifacts'[a] : r = s
              /\ artifacts[a] # {} => artifacts'[a] # {}
              /\ \A r \in artifacts'[a] : \E q \in artifacts[a] : q.state = r.state /\ q.by = r.by
  <2>1. CASE a = id
    BY <1>6, <1>7, <1>8, <2>1, Zenon
  <2>2. CASE a # id
    BY <1>8, <2>2, Zenon DEF LifecycleInv, Single
  <2> QED  BY <2>1, <2>2, Zenon
<1>11. LifecycleTyped' /\ Single'
  BY <1>1, <1>9, <1>10 DEF LifecycleInv, LifecycleTyped, Single
<1>12. \A S : \A a \in Artifacts : InState(a, S)' => InState(a, S)
  BY <1>10, Zenon DEF InState
<1>13. Unique({"active"})' /\ Unique(Candidate)'
  BY <1>12, Zenon DEF LifecycleInv, Unique
<1>14. \A a \in Artifacts : (Cleared(a) => Cleared(a)') /\ (Recorded(a) => Recorded(a)')
  BY <1>1, Zenon DEF Cleared, Recorded, Activation
<1>15. \A a \in Artifacts : RowGoverned(a)'
  <2> TAKE a \in Artifacts
  <2>1. RowGoverned(a) /\ approvals'[a] = approvals[a] /\ rolledBack' = rolledBack
    BY <1>1, Zenon DEF LifecycleInv
  <2>2. approvals'[a] # {} => artifacts'[a] # {}
    BY <1>10, <2>1, Zenon DEF RowGoverned
  <2>3. ASSUME NEW r \in artifacts'[a]
        PROVE  /\ r.by \notin approvals'[a]
               /\ r.state \in {"approved", "scheduled"} => approvals'[a] # {}
               /\ r.state = "active" => (a \in rolledBack' \/ Cleared(a)') /\ Recorded(a)'
    <3>1. PICK q \in artifacts[a] : q.state = r.state /\ q.by = r.by
      BY <1>10, Zenon
    <3> QED  BY <1>14, <2>1, <3>1, Zenon DEF RowGoverned
  <2> QED  BY <2>2, <2>3, Zenon DEF RowGoverned
<1>16. \A action, a : a \in Artifacts /\ Done(action, a) => Done(action, a)'
  BY <1>1, <1>10, <1>14, Zenon DEF Done
<1>17. AuditHonest'
  BY <1>1, <1>16, Zenon DEF LifecycleInv, AuditHonest
<1>18. CallsHonest'
  <2> SUFFICES ASSUME NEW p \in Operators, NEW c \in calls[p] PROVE CallHonest(p, c)'
    BY <1>1, Zenon DEF CallsHonest
  <2>1. CallHonest(p, c) /\ c.id \in Artifacts
    BY DEF LifecycleInv, CallsHonest, LifecycleTyped, CallRecords
  <2> QED  BY <1>10, <1>14, <1>16, <2>1 DEF CallHonest
<1> QED  BY <1>11, <1>13, <1>15, <1>17, <1>18, Zenon DEF LifecycleInv

\* The lifecycle's invariant holds throughout.
THEOREM LifecycleInvariance == LifecycleSpec => []LifecycleInv
<1>1. LifecycleInit => LifecycleInv
  <2> SUFFICES ASSUME LifecycleInit PROVE LifecycleInv
    BY Zenon
  <2>1. LifecycleTyped /\ Single
    BY Zenon DEF LifecycleInit, LifecycleTyped, Single
  <2>2. Unique({"active"}) /\ Unique(Candidate)
    BY Zenon DEF LifecycleInit, Unique, InState
  <2>3. (\A a \in Artifacts : RowGoverned(a)) /\ CallsHonest /\ AuditHonest
    BY Zenon DEF LifecycleInit, RowGoverned, CallsHonest, AuditHonest
  <2> QED  BY <2>1, <2>2, <2>3, Zenon DEF LifecycleInv
<1>2. LifecycleInv /\ [LifecycleNext]_lifecycleVars => LifecycleInv'
  <2> SUFFICES ASSUME LifecycleInv, [LifecycleNext]_lifecycleVars PROVE LifecycleInv'
    BY Zenon
  <2>1. ASSUME NEW o \in Operators, NEW a \in Artifacts,
               \/ CreateLifecycleArtifact(o, a) \/ SetLifecycleShadow(o, a)
               \/ ApproveLifecycle(o, a) \/ ScheduleLifecycle(o, a)
               \/ \E result \in {"pass", "waived", "fail"} : AddLifecycleEvidence(o, a, result)
               \/ ActivateLifecycle(o, a) \/ ActivateDueLifecycle(o, a)
               \/ RollbackLifecycle(o, a) \/ RetireLifecycle(o, a)
        PROVE  LifecycleInv'
    BY <2>1, CreateKeeps, EvidenceKeeps, ReadsKeep, Zenon
  <2>2. ASSUME NEW o \in Operators,
               \/ transitionLifecycle(o) \/ RecordApproval(o) \/ lifecycleActivationGates(o)
               \/ RetireActive(o) \/ activateLifecycle(o) \/ Retirement(o)
               \/ auditLifecycle(o) \/ CallBreaks(o)
        PROVE  LifecycleInv'
    BY <2>2, TransitionKeeps, ApprovalKeeps, GatesKeep, RetireActiveKeeps, ActivateKeeps,
       RetirementKeeps, AuditKeeps, Zenon
  <2>3. ASSUME NEW a \in Artifacts, TimeComes(a)
        PROVE  LifecycleInv'
    BY <2>3, TimeKeeps, Zenon
  <2>4. CASE UNCHANGED lifecycleVars
    <3>1. /\ artifacts' = artifacts /\ approvals' = approvals /\ evidence' = evidence
          /\ audit' = audit /\ calls' = calls /\ rolledBack' = rolledBack /\ unaudited' = unaudited
      BY <2>4, Zenon DEF lifecycleVars
    <3>2. calls \in [Operators -> SUBSET CallRecords]
      BY Zenon DEF LifecycleInv, LifecycleTyped
    <3> QED  BY <3>1, <3>2, EndKeeps, Zenon
  <2> QED  BY <2>1, <2>2, <2>3, <2>4, Zenon DEF LifecycleNext
<1> QED  BY <1>1, <1>2, PTL DEF LifecycleSpec

\* ConfigurationGoverned: the configuration in use is one, was approved by
\* someone other than its creator and passed its gates; its activation is in the
\* audit unless the call broke off between its commit and its audit row; and the
\* audit reports nothing that did not happen (internal/storage/lifecycle.go), for
\* any number of artifacts and operators, every interleaving of the reads and
\* writes of their calls, and calls that fail or die before any of them.
THEOREM ConfigurationIsGoverned == LifecycleSpec => []ConfigurationGoverned
<1>1. LifecycleInv => ConfigurationGoverned
  <2> SUFFICES ASSUME LifecycleInv PROVE ConfigurationGoverned
    BY Zenon
  <2>1. OneConfiguration
    BY Zenon DEF LifecycleInv, Unique, OneConfiguration
  <2>2. ApprovedByAnother
    <3> SUFFICES ASSUME NEW a \in Artifacts, InState(a, {"approved", "scheduled"})
                 PROVE  approvals[a] # {} /\ Row(a).by \notin approvals[a]
      BY Zenon DEF ApprovedByAnother
    <3>1. PICK r \in artifacts[a] : r.state \in {"approved", "scheduled"}
      BY Zenon DEF InState
    <3>2. Row(a) = r
      BY Zenon DEF Row, LifecycleInv, Single
    <3> QED  BY <3>1, <3>2, Zenon DEF LifecycleInv, RowGoverned
  <2>3. \A a \in LifecycleActive : (a \in rolledBack \/ Cleared(a)) /\ Recorded(a)
    BY Zenon DEF LifecycleInv, RowGoverned, LifecycleActive, InState
  <2>4. ActivationGated
    BY <2>3, Zenon DEF ActivationGated, Cleared
  <2>5. ActivationAudited
    <3> SUFFICES ASSUME NEW a \in LifecycleActive
                 PROVE  \/ <<Activation(a), a>> \in audit \cup unaudited
                        \/ \E o \in Operators : \E c \in CallAt(o, "audit") : <<Activation(a), a>> = <<c.action, c.id>>
      BY Zenon DEF ActivationAudited, Activation
    <3>1. Recorded(a)
      BY <2>3, Zenon
    <3> QED  BY <3>1, Zenon DEF Recorded, CallAt
  <2>6. AuditTrue
    BY Zenon DEF LifecycleInv, AuditHonest, Done, Cleared, AuditActions, AuditTrue
  <2> QED  BY <2>1, <2>2, <2>4, <2>5, <2>6, Zenon DEF ConfigurationGoverned
<1> QED  BY <1>1, LifecycleInvariance, PTL

\* A step that writes no row in use leaves a configuration in use.
LEMMA ActiveStays ==
    ASSUME LifecycleInv, NEW id \in Artifacts, NEW R,
           artifacts' = [artifacts EXCEPT ![id] = R],
           InState(id, {"active"}) => \E r \in R : r.state = "active"
    PROVE  LifecycleActive \subseteq LifecycleActive'
<1>1. \A a \in Artifacts : artifacts'[a] = IF a = id THEN R ELSE artifacts[a]
  BY Zenon DEF LifecycleInv, LifecycleTyped
<1> QED  BY <1>1, Zenon DEF LifecycleActive, InState

\* NeverUnconfigured: once a kind has an active configuration, only an explicit
\* RetireLifecycle of that configuration takes it away: an activation retires
\* the old one and sets the new one in one commit.
THEOREM ConfigurationStays == LifecycleSpec => [][NeverUnconfigured]_lifecycleVars
<1>1. LifecycleInv /\ [LifecycleNext]_lifecycleVars => [NeverUnconfigured]_lifecycleVars
  <2> SUFFICES ASSUME LifecycleInv, LifecycleNext, LifecycleActive # {}, LifecycleActive' = {}
               PROVE  \E o \in Operators : \E c \in CallAt(o, "retirement") :
                          c.id \in LifecycleActive /\ calls'[o] # calls[o]
    BY Zenon DEF NeverUnconfigured
  <2>1. ~(LifecycleActive \subseteq LifecycleActive')
    BY Zenon
  <2>2. artifacts' # artifacts
    BY <2>1, Zenon DEF LifecycleActive, InState
  <2>3. ASSUME NEW o \in Operators, NEW a \in Artifacts,
               \/ CreateLifecycleArtifact(o, a) \/ SetLifecycleShadow(o, a)
               \/ ApproveLifecycle(o, a) \/ ScheduleLifecycle(o, a)
               \/ \E result \in {"pass", "waived", "fail"} : AddLifecycleEvidence(o, a, result)
               \/ ActivateLifecycle(o, a) \/ ActivateDueLifecycle(o, a)
               \/ RollbackLifecycle(o, a) \/ RetireLifecycle(o, a)
        PROVE  FALSE
    <3>1. CreateLifecycleArtifact(o, a)
      BY <2>2, <2>3, Zenon DEF SetLifecycleShadow, ApproveLifecycle, ScheduleLifecycle, AddLifecycleEvidence,
         ActivateLifecycle, ActivateDueLifecycle, RollbackLifecycle, RetireLifecycle, ReadArtifact
    <3>2. /\ artifacts' = [artifacts EXCEPT ![a] = {[state |-> "draft", by |-> o, due |-> "none"]}]
          /\ ~InState(a, {"active"})
      BY <3>1, Zenon DEF CreateLifecycleArtifact, InState
    <3> QED  BY <2>1, <3>2, ActiveStays, Zenon
  <2>4. ASSUME NEW id \in Artifacts, TimeComes(id)
        PROVE  FALSE
    <3> DEFINE f(r) == [r EXCEPT !.due = "now"]
               R == {f(r) : r \in artifacts[id]}
    <3>1. artifacts' = [artifacts EXCEPT ![id] = R]
      BY <2>4, Zenon DEF TimeComes
    <3>2. \A r \in artifacts[id] : f(r) \in R /\ f(r).state = r.state
      BY DEF LifecycleInv, LifecycleTyped, ArtifactRows
    <3> HIDE DEF f, R
    <3>3. InState(id, {"active"}) => \E r \in R : r.state = "active"
      BY <3>2, Zenon DEF InState
    <3> QED  BY <2>1, <3>1, <3>3, ActiveStays, Zenon
  <2>5. ASSUME NEW o \in Operators, transitionLifecycle(o)
        PROVE  FALSE
    <3>1. PICK c \in calls[o] :
             LET t == TransitionStates(c.action)
             IN /\ InState(c.id, {t.from})
                /\ artifacts' = [artifacts EXCEPT ![c.id] =
                                    {[r EXCEPT !.state = t.to, !.due = t.due] : r \in @}]
      BY <2>2, <2>5, Zenon DEF transitionLifecycle, CallAt, CallFails
    <3>2. c.id \in Artifacts /\ \A r, s \in artifacts[c.id] : r = s
      BY SMTT(20) DEF LifecycleInv, LifecycleTyped, Single, CallRecords
    <3>3. ~InState(c.id, {"active"})
      BY <3>1, <3>2, Zenon DEF InState, TransitionStates
    <3> QED  BY <2>1, <3>1, <3>2, <3>3, ActiveStays, Zenon
  <2>6. ASSUME NEW o \in Operators, RecordApproval(o)
        PROVE  FALSE
    <3> DEFINE f(r) == IF r.state = "shadow" THEN [r EXCEPT !.state = "approved"] ELSE r
    <3>1. PICK c \in calls[o] : artifacts' = [artifacts EXCEPT ![c.id] = {f(r) : r \in artifacts[c.id]}]
      BY <2>6, Zenon DEF RecordApproval, CallAt
    <3>2. c.id \in Artifacts
      BY DEF LifecycleInv, LifecycleTyped, CallRecords
    <3>3. \A r \in artifacts[c.id] : r.state = "active" => f(r) = r
      BY Zenon
    <3> HIDE DEF f
    <3>4. InState(c.id, {"active"}) => \E r \in {f(q) : q \in artifacts[c.id]} : r.state = "active"
      BY <3>3, Zenon DEF InState
    <3> QED  BY <2>1, <3>1, <3>2, <3>4, ActiveStays, Zenon
  <2>7. ASSUME NEW o \in Operators, activateLifecycle(o)
        PROVE  FALSE
    <3>1. PICK c \in calls[o] :
             artifacts' = [RetireRows(artifacts, c.victims \cap LifecycleActive) EXCEPT ![c.id] =
                              {[r EXCEPT !.state = "active", !.due = "none"] : r \in @}]
      BY <2>2, <2>7, Zenon DEF activateLifecycle, CallAt, CallFails
    <3> DEFINE V == c.victims \cap LifecycleActive
    <3>2. c.id \in Artifacts /\ V \in SUBSET Artifacts /\ artifacts[c.id] # {}
      BY DEF LifecycleInv, LifecycleTyped, CallRecords, LifecycleActive, CallsHonest, CallHonest
    <3>3. artifacts' = Activated(c.id, V)
      BY <3>1, Zenon DEF Activated
    <3>4. RowsFollow /\ \A r \in artifacts'[c.id] : r.state = "active"
      BY <3>2, <3>3, ActivationRows, Zenon
    <3>5. artifacts'[c.id] # {}
      BY <3>2, <3>4, Zenon DEF RowsFollow
    <3> QED  BY <3>2, <3>4, <3>5, Zenon DEF LifecycleActive, InState
  <2>8. ASSUME NEW o \in Operators, Retirement(o)
        PROVE  \E c \in CallAt(o, "retirement") : c.id \in LifecycleActive /\ calls'[o] # calls[o]
    <3>1. PICK c \in CallAt(o, "retirement") :
             /\ artifacts' = [artifacts EXCEPT ![c.id] =
                                 {[r EXCEPT !.state = "retired", !.due = "none"] : r \in @}]
             /\ Committed(o, c)
      BY <2>8, Zenon DEF Retirement
    <3>2. c \in calls[o] /\ c.step = "retirement" /\ c \in CallRecords /\ c.id \in Artifacts
      <4>1. c \in calls[o] /\ c.step = "retirement"
        BY <3>1, Zenon DEF CallAt
      <4>2. calls[o] \subseteq CallRecords /\ \A d \in CallRecords : d.id \in Artifacts
        BY Zenon DEF LifecycleInv, LifecycleTyped, CallRecords
      <4> QED  BY <4>1, <4>2, Zenon
    <3>3. InState(c.id, {"active"})
      BY <2>1, <3>1, <3>2, ActiveStays, Zenon
    <3>4. calls'[o] = {[c EXCEPT !.step = "audit"]} /\ [c EXCEPT !.step = "audit"].step = "audit"
      BY <3>1, <3>2, Zenon DEF Committed, LifecycleInv, LifecycleTyped, CallRecords
    <3>5. c \notin calls'[o]
      BY <3>2, <3>4, Zenon
    <3> QED  BY <3>1, <3>2, <3>3, <3>5, Zenon DEF LifecycleActive
  <2>9. ASSUME NEW o \in Operators, \/ lifecycleActivationGates(o) \/ RetireActive(o)
                                     \/ auditLifecycle(o) \/ CallBreaks(o)
        PROVE  FALSE
    BY <2>2, <2>9, Zenon DEF lifecycleActivationGates, RetireActive, auditLifecycle, CallBreaks, CallFails
  <2> QED  BY <2>3, <2>4, <2>5, <2>6, <2>7, <2>8, <2>9, Zenon DEF LifecycleNext
<1> QED  BY <1>1, LifecycleInvariance, PTL DEF LifecycleSpec

-----------------------------------------------------------------------------
(***************************************************************************)
(* The control loop: a reduction is on record, bounded and followed by a   *)
(* cooldown, whatever the forecast says.                                   *)
(***************************************************************************)

AutonomySpec == AutonomyInit /\ [][AutonomyNext]_autonomyVars

\* A controller between two steps of a tick: the rest that is left and the rest
\* that was taken make up the cooldown, at most one action is in force, younger
\* than limit, and a lowered multiplier is that of this action, applied and on
\* record.
Sound(c, limit) ==
    /\ c.cooldown \in Nat /\ c.quiet \in Nat
    /\ c.active = {} => c.quiet + c.cooldown >= ControlCooldown
    /\ c.active # {} => c.quiet >= ControlCooldown
    /\ \A a, b \in c.active : a = b
    /\ \A a \in c.active : a.age \in Nat /\ a.age < limit
    /\ c.multiplier # 100 =>
          /\ Mode = "auto" /\ c.multiplier >= MinMultiplier /\ c.active # {}
          /\ c.trail = {[state |-> "applied", multiplier |-> c.multiplier]}
          /\ \A a \in c.active : a.state = "applied" /\ a.multiplier = c.multiplier

Controller ==
    [active |-> active, cooldown |-> cooldown, quiet |-> quiet,
     multiplier |-> multiplier, trail |-> trail]

AutonomyInv == Sound(Controller, MaxActionTTL)

\* No recommendation is below the floor.
LEMMA RecommendationBounded ==
    ASSUME NEW h
    PROVE  recommendedMultiplier(h) >= MinMultiplier
<1>1. MinMultiplier \in Nat
  BY AutonomyAssumption DEF AutonomyAssumption
<1>2. PICK c \in {50, 60, 75} : recommendedMultiplier(h) = IF c < MinMultiplier THEN MinMultiplier ELSE c
  BY DEF recommendedMultiplier
<1> QED  BY <1>1, <1>2

\* An interval later the action in force may have reached its time to live.
LEMMA AgedSound ==
    ASSUME AutonomyInv
    PROVE  Sound(Aged, MaxActionTTL + 1)
<1> DEFINE Older(a) == [state |-> a.state, age |-> a.age + 1, errorRate |-> a.errorRate,
                        multiplier |-> a.multiplier, latency |-> a.latency]
<1>1. ControlCooldown \in Nat /\ MaxActionTTL \in Nat
  BY AutonomyAssumption DEF AutonomyAssumption
<1>2. /\ Controller.active = active /\ Controller.cooldown = cooldown /\ Controller.quiet = quiet
      /\ Controller.multiplier = multiplier /\ Controller.trail = trail
  BY Zenon DEF Controller
<1>3. /\ cooldown \in Nat /\ quiet \in Nat
      /\ active = {} => quiet + cooldown >= ControlCooldown
      /\ active # {} => quiet >= ControlCooldown
      /\ \A a \in active : a.age \in Nat /\ a.age < MaxActionTTL
      /\ multiplier # 100 =>
            /\ Mode = "auto" /\ multiplier >= MinMultiplier /\ active # {}
            /\ trail = {[state |-> "applied", multiplier |-> multiplier]}
            /\ \A a \in active : a.state = "applied" /\ a.multiplier = multiplier
  BY <1>2, Zenon DEF AutonomyInv, Sound
<1>4. \A a, b \in active : a = b
  BY <1>2, Zenon DEF AutonomyInv, Sound
<1>5. /\ Aged.active = {Older(a) : a \in active}
      /\ Aged.cooldown = IF cooldown > 0 THEN cooldown - 1 ELSE 0
      /\ Aged.quiet = IF quiet < ControlCooldown THEN quiet + 1 ELSE quiet
      /\ Aged.multiplier = multiplier /\ Aged.trail = trail
  BY Zenon DEF Aged
<1>6. \A a : Older(a).age = a.age + 1 /\ Older(a).state = a.state /\ Older(a).multiplier = a.multiplier
  BY Zenon
<1> HIDE DEF Older
<1>7. Aged.active = {} <=> active = {}
  BY <1>5, Zenon
<1>8. \A a, b \in Aged.active : a = b
  BY <1>4, <1>5, Zenon
<1>9. \A a \in Aged.active : \E b \in active : a = Older(b)
  BY <1>5, Zenon
<1>10. \A a \in Aged.active : a.age \in Nat /\ a.age < MaxActionTTL + 1
  BY <1>1, <1>3, <1>6, <1>9
<1>11. multiplier # 100 => \A a \in Aged.active : a.state = "applied" /\ a.multiplier = multiplier
  BY <1>3, <1>6, <1>9, Zenon
<1>12. /\ Aged.cooldown \in Nat /\ Aged.quiet \in Nat
       /\ active = {} => Aged.quiet + Aged.cooldown >= ControlCooldown
       /\ active # {} => Aged.quiet >= ControlCooldown
  BY <1>1, <1>3, <1>5
<1> QED  BY <1>3, <1>5, <1>7, <1>8, <1>10, <1>11, <1>12, Zenon DEF Sound

\* An action that has ended leaves the whole cooldown to come.
LEMMA EndSound ==
    ASSUME NEW c, NEW a, NEW recorded \in BOOLEAN
    PROVE  Sound(evaluateActiveLocked(c, a, recorded), MaxActionTTL)
<1> DEFINE d == evaluateActiveLocked(c, a, recorded)
<1>1. ControlCooldown \in Nat
  BY AutonomyAssumption DEF AutonomyAssumption
<1>2. d.active = {} /\ d.cooldown = ControlCooldown /\ d.quiet = 0 /\ d.multiplier = 100
  BY Zenon DEF evaluateActiveLocked
<1> HIDE DEF d
<1>3. d.cooldown \in Nat /\ d.quiet \in Nat /\ d.quiet + d.cooldown >= ControlCooldown
  BY <1>1, <1>2
<1>4. Sound(d, MaxActionTTL)
  BY <1>2, <1>3, Zenon DEF Sound
<1> QED  BY <1>4 DEF d

\* An action starts only where none is in force and the cooldown is over.
LEMMA StartSound ==
    ASSUME NEW c, Sound(c, MaxActionTTL), NEW h, MayStart(c, h), NEW recorded \in BOOLEAN
    PROVE  Sound(startActionLocked(c, h, recorded), MaxActionTTL)
<1> DEFINE d == startActionLocked(c, h, recorded)
           m == recommendedMultiplier(h)
           wanted == IF Mode = "auto" THEN "applied" ELSE "shadow"
           state == IF recorded THEN wanted ELSE "shadow"
           b == [state |-> state, age |-> 0, errorRate |-> ErrorRate, multiplier |-> m, latency |-> MeanLatency]
<1>1. ControlCooldown \in Nat /\ MaxActionTTL \in Nat \ {0}
  BY AutonomyAssumption DEF AutonomyAssumption
<1>2. /\ d.active = {b} /\ d.cooldown = c.cooldown /\ d.quiet = c.quiet
      /\ d.trail = IF recorded THEN {[state |-> wanted, multiplier |-> m]} ELSE c.trail
      /\ d.multiplier = IF state = "applied" THEN m ELSE c.multiplier
  BY Zenon DEF startActionLocked
<1>3. b.age = 0 /\ b.state = state /\ b.multiplier = m /\ m >= MinMultiplier
  BY RecommendationBounded, Zenon
<1>4. state = "applied" => Mode = "auto" /\ recorded /\ wanted = "applied"
  OBVIOUS
<1>5. /\ c.cooldown = 0 /\ c.active = {} /\ c.multiplier = 100
      /\ c.cooldown \in Nat /\ c.quiet \in Nat /\ c.quiet + c.cooldown >= ControlCooldown
  BY Zenon DEF MayStart, Sound
<1>6. d.quiet >= ControlCooldown /\ d.quiet \in Nat /\ d.cooldown \in Nat
  BY <1>1, <1>2, <1>5
<1>7. b.age \in Nat /\ b.age < MaxActionTTL
  BY <1>1, <1>3
<1> HIDE DEF d, m, b, state, wanted
<1>8. d.multiplier # 100 => state = "applied" /\ d.multiplier = m
  BY <1>2, <1>5, Zenon
<1>9. d.multiplier # 100 => d.trail = {[state |-> "applied", multiplier |-> d.multiplier]}
  BY <1>2, <1>4, <1>8, Zenon
<1>10. Sound(d, MaxActionTTL)
  BY <1>2, <1>3, <1>4, <1>6, <1>7, <1>8, <1>9, Zenon DEF Sound
<1> QED  BY <1>10 DEF d

\* A tick ends and starts at most one action.
LEMMA TickKeeps ==
    ASSUME AutonomyInv, NEW endRecorded \in BOOLEAN, NEW startRecorded \in BOOLEAN,
           Tick(endRecorded, startRecorded)
    PROVE  AutonomyInv'
<1> DEFINE ending == {a \in Aged.active : Verdict(a) # {}}
           grown == Append(history, queuePressure)
           h == IF Len(grown) > Window THEN Tail(grown) ELSE grown
           After(c) == IF MayStart(c, h) THEN startActionLocked(c, h, startRecorded) ELSE c
<1>1. PICK c \in IF ending = {} THEN {Aged}
                 ELSE {evaluateActiveLocked(Aged, a, endRecorded) : a \in ending} :
         /\ active' = After(c).active /\ cooldown' = After(c).cooldown
         /\ multiplier' = After(c).multiplier
         /\ trail' = After(c).trail /\ quiet' = After(c).quiet
  BY Zenon DEF Tick
<1>2. Sound(c, MaxActionTTL)
  <2>1. CASE ending = {}
    <3>1. c = Aged /\ Sound(c, MaxActionTTL + 1)
      BY <1>1, <2>1, AgedSound, Zenon
    <3>2. MaxActionTTL \in Nat
      BY AutonomyAssumption DEF AutonomyAssumption
    <3>3. \A a \in c.active : Verdict(a) = {}
      BY <2>1, <3>1, Zenon
    <3>4. \A a \in c.active : ~(a.age >= MaxActionTTL)
      BY <3>3, Zenon DEF Verdict
    <3>5. \A a \in c.active : a.age \in Nat
      BY <3>1, Zenon DEF Sound
    <3>6. \A a \in c.active : a.age \in Nat /\ a.age < MaxActionTTL
      BY <3>2, <3>4, <3>5
    <3> QED  BY <3>1, <3>6, Zenon DEF Sound
  <2>2. CASE ending # {}
    <3>1. PICK a \in ending : c = evaluateActiveLocked(Aged, a, endRecorded)
      BY <1>1, <2>2, Zenon
    <3> QED  BY <3>1, EndSound, Zenon
  <2> QED  BY <2>1, <2>2, Zenon
<1> HIDE DEF h
<1>3. Sound(After(c), MaxActionTTL)
  BY <1>2, StartSound, Zenon
<1>4. /\ Controller'.active = After(c).active /\ Controller'.cooldown = After(c).cooldown
      /\ Controller'.quiet = After(c).quiet /\ Controller'.multiplier = After(c).multiplier
      /\ Controller'.trail = After(c).trail
  BY <1>1, Zenon DEF Controller
<1> HIDE DEF After
<1>5. Sound(Controller', MaxActionTTL)
  BY <1>3, <1>4, Zenon DEF Sound
<1> QED  BY <1>5, Zenon DEF AutonomyInv, Sound

\* ReductionGoverned: the multiplier is lowered only by an applied action that
\* the audit file records, never below the floor, for less than the time to
\* live of an action, and the configured cooldown passes before the next (Tick
\* and what it calls), for every configuration that Validate accepts, with a
\* cooldown of zero too, and every forecast.
THEOREM ReductionIsGoverned == AutonomySpec => []ReductionGoverned
<1> DEFINE State == <<active, cooldown, multiplier, trail, quiet>>
<1>1. AutonomyInit => AutonomyInv
  <2> SUFFICES ASSUME AutonomyInit PROVE AutonomyInv
    OBVIOUS
  <2>1. /\ Controller.active = {} /\ Controller.cooldown = 0
        /\ Controller.quiet = ControlCooldown /\ Controller.multiplier = 100
    BY Zenon DEF AutonomyInit, Controller
  <2>2. ControlCooldown \in Nat
    BY AutonomyAssumption DEF AutonomyAssumption
  <2> QED  BY <2>1, <2>2 DEF AutonomyInv, Sound
<1>2. AutonomyInv /\ [AutonomyNext]_autonomyVars => AutonomyInv'
  <2> SUFFICES ASSUME AutonomyInv, [AutonomyNext]_autonomyVars PROVE AutonomyInv'
    BY Zenon
  <2>1. CASE \E endRecorded, startRecorded \in BOOLEAN : Tick(endRecorded, startRecorded)
    BY <2>1, TickKeeps, Zenon
  <2>2. CASE UNCHANGED State
    BY <2>2, Zenon DEF AutonomyInv, Sound, Controller
  <2> QED  BY <2>1, <2>2, Zenon DEF AutonomyNext, autonomyVars, QueueDepth, JobCompleted
<1>3. AutonomyInv => ReductionGoverned
  <2> SUFFICES ASSUME AutonomyInv PROVE ReductionGoverned
    OBVIOUS
  <2>1. /\ Controller.active = active /\ Controller.cooldown = cooldown /\ Controller.quiet = quiet
        /\ Controller.multiplier = multiplier /\ Controller.trail = trail
    BY Zenon DEF Controller
  <2> QED  BY <2>1, Zenon DEF AutonomyInv, Sound, ReductionGoverned, ReductionAudited, ReductionBounded
<1> QED  BY <1>1, <1>2, <1>3, PTL DEF AutonomySpec

-----------------------------------------------------------------------------
(***************************************************************************)
(* The fabric status: a snapshot put together from separate reads has a    *)
(* witness for each of its verdicts.                                       *)
(***************************************************************************)

FabricSpec == FabricInit /\ [][FabricNext]_fabricVars

\* What one read returns.
ReadValues == (0..WALMaxBytes) \cup BOOLEAN

FabricTyped ==
    /\ parts \in PartValues /\ during \subseteq PartValues
    /\ setup.lineage \in BOOLEAN /\ setup.ebpfEnabled \in BOOLEAN /\ setup.ebpfRequired \in BOOLEAN
    /\ setup.ebpfRequired => setup.ebpfEnabled

\* A request remembers what some moment since its beginning held, and the
\* present moment is one of them.
RequestHonest ==
    /\ reading # {} => parts \in during /\ status = {}
    /\ \A read \in reading :
          /\ read \in Seq(ReadValues) /\ Len(read) <= Len(ReadOrder)
          /\ \A i \in 1..Len(read) : \E p \in during : read[i] = p[ReadOrder[i]]

FabricInv == FabricTyped /\ RequestHonest /\ StatusWitnessed

\* The parts of the edge, in the order in which they are read.
LEMMA PartNames ==
    /\ Len(ReadOrder) = 5
    /\ DOMAIN ReadOrder = 1..5
    /\ ReadOrder[1] = "stats" /\ ReadOrder[2] = "replication" /\ ReadOrder[3] = "delivery"
    /\ ReadOrder[4] = "ebpf" /\ ReadOrder[5] = "wal"
BY DEF ReadOrder

\* Every part of a finished request is what that part was at some moment.
LEMMA GatheredWitnessed ==
    ASSUME FabricInv, NEW read \in reading, Len(read) = Len(ReadOrder)
    PROVE  LET g == Gathered(read)
           IN /\ g \in PartValues
              /\ \E p \in during : p.stats = g.stats
              /\ \E p \in during : p.replication = g.replication
              /\ \E p \in during : p.delivery = g.delivery
              /\ \E p \in during : p.ebpf = g.ebpf
              /\ \E p \in during : p.wal = g.wal
<1> DEFINE g == Gathered(read)
<1>1. DOMAIN parts = {"stats", "replication", "delivery", "ebpf", "wal"}
  BY Zenon DEF FabricInv, FabricTyped, PartValues
<1>2. g = [part \in {"stats", "replication", "delivery", "ebpf", "wal"} |->
             read[CHOOSE i \in DOMAIN ReadOrder : ReadOrder[i] = part]]
  BY <1>1, Zenon DEF Gathered
<1> HIDE DEF g
<1>3. /\ (CHOOSE i \in DOMAIN ReadOrder : ReadOrder[i] = "stats") = 1
      /\ (CHOOSE i \in DOMAIN ReadOrder : ReadOrder[i] = "replication") = 2
      /\ (CHOOSE i \in DOMAIN ReadOrder : ReadOrder[i] = "delivery") = 3
      /\ (CHOOSE i \in DOMAIN ReadOrder : ReadOrder[i] = "ebpf") = 4
      /\ (CHOOSE i \in DOMAIN ReadOrder : ReadOrder[i] = "wal") = 5
  BY PartNames
<1>4. /\ g.stats = read[1] /\ g.replication = read[2] /\ g.delivery = read[3]
      /\ g.ebpf = read[4] /\ g.wal = read[5]
  BY <1>2, <1>3, Zenon
<1>5. \A i \in 1..5 : \E p \in during : read[i] = p[ReadOrder[i]]
  BY PartNames, Zenon DEF FabricInv, RequestHonest
<1>6. PICK p1 \in during : p1.stats = g.stats
  BY <1>4, <1>5, PartNames
<1>7. PICK p2 \in during : p2.replication = g.replication
  BY <1>4, <1>5, PartNames
<1>8. PICK p3 \in during : p3.delivery = g.delivery
  BY <1>4, <1>5, PartNames
<1>9. PICK p4 \in during : p4.ebpf = g.ebpf
  BY <1>4, <1>5, PartNames
<1>10. PICK p5 \in during : p5.wal = g.wal
  BY <1>4, <1>5, PartNames
<1>11. during \subseteq PartValues
  BY Zenon DEF FabricInv, FabricTyped
<1>12. /\ g.stats \in 0..WALMaxBytes /\ g.replication \in BOOLEAN /\ g.delivery \in BOOLEAN
       /\ g.ebpf \in BOOLEAN /\ g.wal \in BOOLEAN
  BY <1>6, <1>7, <1>8, <1>9, <1>10, <1>11, Zenon DEF PartValues
<1>13. g = [stats |-> g.stats, replication |-> g.replication, delivery |-> g.delivery,
            ebpf |-> g.ebpf, wal |-> g.wal]
  BY <1>2, Zenon
<1>14. g \in PartValues
  BY <1>12, <1>13, Zenon DEF PartValues
<1> QED  BY <1>6, <1>7, <1>8, <1>9, <1>10, <1>14, Zenon DEF g

\* What Evaluate says of parts that were seen has a witness.
LEMMA EvaluationWitnessed ==
    ASSUME FabricInv, NEW read \in reading, Len(read) = Len(ReadOrder),
           status' = {EvaluateFabric(Gathered(read))}, setup' = setup, during' = during
    PROVE  StatusWitnessed'
<1> DEFINE g == Gathered(read)
           s == EvaluateFabric(g)
           ready == /\ \E p \in during : p.wal
                    /\ \E p \in during : p.stats < WALMaxBytes
                    /\ setup.mode # "local" => \E p \in during : p.replication
                    /\ \E p \in during : p.delivery
                    /\ setup.lineage
                    /\ setup.ebpfRequired => \E p \in during : p.ebpf
           missing == \/ \E p \in during : ~p.wal \/ p.stats = WALMaxBytes
                      \/ setup.mode # "local" /\ \E p \in during : ~p.replication
                      \/ ~setup.lineage
                      \/ setup.ebpfRequired /\ \E p \in during : ~p.ebpf
           collected == setup.ebpfRequired => \E p \in during : p.ebpf
<1>1. /\ g \in PartValues
      /\ \E p \in during : p.stats = g.stats
      /\ \E p \in during : p.replication = g.replication
      /\ \E p \in during : p.delivery = g.delivery
      /\ \E p \in during : p.ebpf = g.ebpf
      /\ \E p \in during : p.wal = g.wal
  BY GatheredWitnessed, Zenon
<1> HIDE DEF g
<1>2. WALMaxBytes \in Nat /\ g.stats \in 0..WALMaxBytes
  BY <1>1, FabricAssumption, Zenon DEF FabricAssumption, PartValues
<1>3. AcceptanceReady(g) /\ g.delivery => ready
  <2>1. AcceptanceReady(g) => g.wal /\ g.stats < WALMaxBytes /\ setup.lineage
    BY Zenon DEF AcceptanceReady, WALAccepts
  <2>2. AcceptanceReady(g) => (setup.mode # "local" => g.replication)
    BY Zenon DEF AcceptanceReady, ReplicationReady
  <2>3. AcceptanceReady(g) => (setup.ebpfRequired => g.ebpf)
    BY Zenon DEF AcceptanceReady, EBPFReady
  <2> QED  BY <1>1, <2>1, <2>2, <2>3, Zenon
<1>4. AcceptanceReady(g) => collected
  BY <1>1, Zenon DEF AcceptanceReady, EBPFReady
<1>5. ~AcceptanceReady(g) => missing
  <2>1. setup.ebpfRequired => setup.ebpfEnabled
    BY Zenon DEF FabricInv, FabricTyped
  <2>2. ~WALAccepts(g) => ~g.wal \/ g.stats = WALMaxBytes
    BY <1>2 DEF WALAccepts
  <2> QED  BY <1>1, <2>1, <2>2, Zenon DEF AcceptanceReady, ReplicationReady, EBPFReady
<1>6. /\ s.acceptance = AcceptanceReady(g) /\ s.delivery = g.delivery /\ s.audit = setup.lineage
      /\ s.state = IF ~AcceptanceReady(g) THEN "not_ready"
                   ELSE IF ~g.delivery \/ (setup.ebpfEnabled /\ ~g.ebpf) \/ ~FastPathReady
                        THEN "degraded" ELSE "ready"
      /\ Len(s.capabilities) = 6
  BY Zenon DEF EvaluateFabric
<1>7. /\ s.state = "ready" => AcceptanceReady(g) /\ g.delivery
      /\ s.state = "not_ready" => ~AcceptanceReady(g)
  BY <1>6, Zenon
<1>8. Len(s.capabilities) >= 6
  BY <1>6
<1> HIDE DEF s
<1>9. ValidSnapshot(s)
  BY <1>3, <1>6, <1>7, <1>8, Zenon DEF ValidSnapshot
<1>10. /\ s.state = "ready" => ready
       /\ s.state = "not_ready" => missing
       /\ s.acceptance => collected
  BY <1>3, <1>4, <1>5, <1>6, <1>7, Zenon
<1>11. status' = {s}
  BY Zenon DEF s, g
<1> QED  BY <1>9, <1>10, <1>11, Zenon DEF StatusWitnessed, ValidSnapshot

\* What was witnessed stays so while the request that returned it is the last.
LEMMA WitnessKept ==
    ASSUME FabricInv, UNCHANGED <<setup, status, during>>
    PROVE  StatusWitnessed'
BY Zenon DEF FabricInv, StatusWitnessed, ValidSnapshot

\* A part changes, and a request in progress sees the moment after.
LEMMA PartChangesKeeps ==
    ASSUME FabricInv, PartChanges
    PROVE  FabricInv'
<1>1. PICK part \in DOMAIN parts, p \in PartValues : parts' = [parts EXCEPT ![part] = p[part]]
  BY Zenon DEF PartChanges
<1>2. parts' \in PartValues
  BY <1>1, Zenon DEF FabricInv, FabricTyped, PartValues
<1>3. /\ setup' = setup /\ reading' = reading /\ status' = status
      /\ during' = IF reading = {} THEN during ELSE during \cup {parts'}
  BY Zenon DEF PartChanges
<1>4. FabricTyped'
  BY <1>2, <1>3, Zenon DEF FabricInv, FabricTyped
<1>5. RequestHonest'
  <2>1. reading # {} => parts' \in during' /\ status' = {}
    BY <1>3, Zenon DEF FabricInv, RequestHonest
  <2>2. during \subseteq during'
    BY <1>3, Zenon
  <2> QED  BY <1>3, <2>1, <2>2 DEF FabricInv, RequestHonest
<1>6. StatusWitnessed'
  <2>1. CASE reading = {}
    BY <1>3, <2>1, WitnessKept, Zenon
  <2>2. CASE reading # {}
    <3>1. status' = {}
      BY <1>3, <2>2, Zenon DEF FabricInv, RequestHonest
    <3> QED  BY <3>1, Zenon DEF StatusWitnessed
  <2> QED  BY <2>1, <2>2, Zenon
<1> QED  BY <1>4, <1>5, <1>6, Zenon DEF FabricInv

\* A read adds the present value of the next part.
LEMMA ReadPartKeeps ==
    ASSUME FabricInv, ReadPart
    PROVE  FabricInv'
<1>1. PICK read \in reading :
         /\ Len(read) < Len(ReadOrder)
         /\ reading' = {Append(read, parts[ReadOrder[Len(read) + 1]])}
         /\ UNCHANGED <<setup, parts, status, during, partChanges>>
  BY Zenon DEF ReadPart
<1> DEFINE n == Len(read)
           v == parts[ReadOrder[n + 1]]
           more == Append(read, v)
<1>2. /\ read \in Seq(ReadValues) /\ n \in 0..4 /\ parts \in during /\ status = {}
      /\ \A i \in 1..n : \E p \in during : read[i] = p[ReadOrder[i]]
  <2>1. /\ read \in Seq(ReadValues) /\ parts \in during /\ status = {}
        /\ \A i \in 1..n : \E p \in during : read[i] = p[ReadOrder[i]]
    BY <1>1, Zenon DEF FabricInv, RequestHonest
  <2>2. n \in Nat /\ n < 5
    BY <1>1, <2>1, PartNames
  <2>3. \A k \in Nat : k < 5 => k \in 0..4
    OBVIOUS
  <2> QED  BY <2>1, <2>2, <2>3, Zenon
<1>3. v \in ReadValues
  <2>1. /\ parts.stats \in ReadValues /\ parts.replication \in ReadValues /\ parts.delivery \in ReadValues
        /\ parts.ebpf \in ReadValues /\ parts.wal \in ReadValues
    BY Zenon DEF FabricInv, FabricTyped, PartValues, ReadValues
  <2>2. n + 1 = 1 \/ n + 1 = 2 \/ n + 1 = 3 \/ n + 1 = 4 \/ n + 1 = 5
    BY <1>2
  <2> QED  BY <2>1, <2>2, PartNames, Zenon
<1> HIDE DEF v
<1>4. /\ more \in Seq(ReadValues) /\ Len(more) = n + 1 /\ more[n + 1] = v
      /\ \A i \in 1..n : more[i] = read[i]
  BY <1>2, <1>3
<1> HIDE DEF more
<1>5. \A i \in 1..n + 1 : \E p \in during : more[i] = p[ReadOrder[i]]
  <2> TAKE i \in 1..n + 1
  <2>1. CASE i = n + 1
    BY <1>2, <1>4, <2>1, Zenon DEF v
  <2>2. CASE i \in 1..n
    BY <1>2, <1>4, <2>2, Zenon
  <2> QED  BY <1>2, <2>1, <2>2
<1>6. reading' = {more}
  BY <1>1, Zenon DEF more, v
<1>7. RequestHonest'
  <2>1. Len(more) <= Len(ReadOrder)
    BY <1>2, <1>4, PartNames
  <2>2. parts' = parts /\ during' = during /\ status' = status
    BY <1>1, Zenon
  <2> QED  BY <1>2, <1>4, <1>5, <1>6, <2>1, <2>2 DEF RequestHonest
<1>8. FabricTyped'
  BY <1>1, Zenon DEF FabricInv, FabricTyped
<1>9. StatusWitnessed'
  BY <1>1, WitnessKept, Zenon
<1> QED  BY <1>7, <1>8, <1>9, Zenon DEF FabricInv

\* StatusWitnessed: no snapshot contradicts itself, and each of its verdicts is
\* true of some moment of the request that gathered it (fabricStatus and
\* Evaluate), for every configuration and however the parts change meanwhile.
THEOREM StatusIsWitnessed == FabricSpec => []StatusWitnessed
<1>1. FabricInit => FabricInv
  <2> SUFFICES ASSUME FabricInit PROVE FabricInv
    BY Zenon
  <2>1. setup \in FabricSetups /\ (setup.ebpfRequired => setup.ebpfEnabled)
    BY Zenon DEF FabricInit
  <2>2. parts \in PartValues
    BY FabricAssumption DEF FabricInit, FabricAssumption, PartValues
  <2>3. FabricTyped
    BY <2>1, <2>2, FabricAssumption, Zenon DEF FabricInit, FabricAssumption, FabricTyped
  <2> QED  BY <2>3, Zenon DEF FabricInit, FabricInv, RequestHonest, StatusWitnessed
<1>2. FabricInv /\ [FabricNext]_fabricVars => FabricInv'
  <2> SUFFICES ASSUME FabricInv, [FabricNext]_fabricVars PROVE FabricInv'
    BY Zenon
  <2>1. CASE PartChanges
    BY <2>1, PartChangesKeeps, Zenon
  <2>2. CASE BeginStatus
    <3>1. /\ reading' = {<<>>} /\ during' = {parts} /\ status' = {}
          /\ setup' = setup /\ parts' = parts
      BY <2>2, Zenon DEF BeginStatus
    <3>2. FabricTyped'
      BY <3>1, Zenon DEF FabricInv, FabricTyped
    <3>3. RequestHonest'
      BY <3>1, PartNames DEF RequestHonest
    <3> QED  BY <3>1, <3>2, <3>3, Zenon DEF FabricInv, StatusWitnessed
  <2>3. CASE ReadPart
    BY <2>3, ReadPartKeeps, Zenon
  <2>4. CASE ReturnStatus
    <3>1. PICK read \in reading :
             /\ Len(read) = Len(ReadOrder)
             /\ status' = {EvaluateFabric(Gathered(read))} /\ reading' = {}
             /\ UNCHANGED <<setup, parts, during, partChanges>>
      BY <2>4, Zenon DEF ReturnStatus
    <3>2. FabricTyped' /\ RequestHonest'
      BY <3>1, Zenon DEF FabricInv, FabricTyped, RequestHonest
    <3>3. StatusWitnessed'
      BY <3>1, EvaluationWitnessed, Zenon
    <3> QED  BY <3>2, <3>3, Zenon DEF FabricInv
  <2>5. CASE UNCHANGED fabricVars
    <3>1. UNCHANGED <<setup, parts, reading, status, during>>
      BY <2>5, Zenon DEF fabricVars
    <3>2. StatusWitnessed'
      BY <3>1, WitnessKept, Zenon
    <3> QED  BY <3>1, <3>2, Zenon DEF FabricInv, FabricTyped, RequestHonest
  <2> QED  BY <2>1, <2>2, <2>3, <2>4, <2>5, Zenon DEF FabricNext
<1>3. FabricInv => StatusWitnessed
  BY Zenon DEF FabricInv
<1> QED  BY <1>1, <1>2, <1>3, PTL DEF FabricSpec
=============================================================================
