----------------------------- MODULE FastRing ------------------------------
(***************************************************************************)
(* The lock-free bounded ring (internal/fastpath/ring.go) and the buffer   *)
(* pool on top of it (pool.go) that the WAL scanner and the Kafka encoder  *)
(* share between goroutines.                                               *)
(*                                                                         *)
(* Every atomic load, compare-and-swap and store is a step of its own, and *)
(* so are the plain accesses to a slot's value: they are ordered only by   *)
(* the slot's sequence.  Positions are uint64 in the code; no Put begins   *)
(* once MaxPosition of them are handed out.                                *)
(***************************************************************************)
EXTENDS Integers, FiniteSets

CONSTANTS
    Goroutines,   \* the users of the pool
    Buffers,      \* the buffers that may be allocated
    Slots,        \* number of slots, a power of two
    MaxAttempts,  \* attempts of one TryPush or TryPop, 32 in the code
    MaxPosition   \* positions handed out after which no Put begins

VARIABLES
    enqueue, dequeue,  \* the two position counters
    slotSeq,           \* slot |-> its sequence
    slotValue,         \* slot |-> {} or the buffer in it
    thread,            \* goroutine |-> [at, position, attempts]
    held,              \* goroutine |-> {} or the buffer it uses
    unused             \* buffers not allocated yet

ringVars == <<enqueue, dequeue, slotSeq, slotValue, thread, held, unused>>

RingAssumption == Slots \in Nat \ {0, 1} /\ MaxAttempts \in Nat \ {0}

ASSUME RingAssumption

Slot(position) == position % Slots

RingInit ==
    /\ enqueue = 0 /\ dequeue = 0
    /\ slotSeq = [i \in 0..(Slots - 1) |-> i]
    /\ slotValue = [i \in 0..(Slots - 1) |-> {}]
    /\ thread = [g \in Goroutines |-> [at |-> "out", position |-> 0, attempts |-> 0]]
    /\ held = [g \in Goroutines |-> {}]
    /\ unused = Buffers

Moves(g, at) == thread' = [thread EXCEPT ![g].at = at]

\* The operation of g ends.
Returns(g) == thread' = [thread EXCEPT ![g] = [at |-> "out", position |-> 0, attempts |-> 0]]

\* Another attempt, or none when they are used up.
Again(g, at, gaveUp) ==
    IF thread[g].attempts + 1 < MaxAttempts
    THEN thread' = [thread EXCEPT ![g] =
                        [at |-> at, position |-> 0, attempts |-> thread[g].attempts + 1]]
    ELSE thread' = [thread EXCEPT ![g].at = gaveUp]

-----------------------------------------------------------------------------
(***************************************************************************)
(* Put: TryPush, and the buffer is dropped when the ring takes it not.     *)
(***************************************************************************)

Put(g) ==
    /\ thread[g].at = "out" /\ held[g] # {} /\ enqueue < MaxPosition
    /\ Moves(g, "push")
    /\ UNCHANGED <<enqueue, dequeue, slotSeq, slotValue, held, unused>>

PushLoads(g) ==
    /\ thread[g].at = "push"
    /\ thread' = [thread EXCEPT ![g].at = "pushSeq", ![g].position = enqueue]
    /\ UNCHANGED <<enqueue, dequeue, slotSeq, slotValue, held, unused>>

PushCompare(g) ==
    /\ thread[g].at = "pushSeq"
    /\ LET difference == slotSeq[Slot(thread[g].position)] - thread[g].position
       IN CASE difference = 0 -> Moves(g, "pushCAS")
            [] difference < 0 -> Moves(g, "pushFull")
            [] OTHER -> Again(g, "push", "pushFull")
    /\ UNCHANGED <<enqueue, dequeue, slotSeq, slotValue, held, unused>>

PushCAS(g) ==
    /\ thread[g].at = "pushCAS"
    /\ IF enqueue = thread[g].position
       THEN enqueue' = enqueue + 1 /\ Moves(g, "pushValue")
       ELSE UNCHANGED enqueue /\ Again(g, "push", "pushFull")
    /\ UNCHANGED <<dequeue, slotSeq, slotValue, held, unused>>

\* The buffer leaves the hands of g.
PushValue(g) ==
    /\ thread[g].at = "pushValue"
    /\ slotValue' = [slotValue EXCEPT ![Slot(thread[g].position)] = held[g]]
    /\ held' = [held EXCEPT ![g] = {}]
    /\ Moves(g, "pushDone")
    /\ UNCHANGED <<enqueue, dequeue, slotSeq, unused>>

PushStores(g) ==
    /\ thread[g].at = "pushDone"
    /\ slotSeq' = [slotSeq EXCEPT ![Slot(thread[g].position)] = thread[g].position + 1]
    /\ Returns(g)
    /\ UNCHANGED <<enqueue, dequeue, slotValue, held, unused>>

Discard(g) ==
    /\ thread[g].at = "pushFull"
    /\ held' = [held EXCEPT ![g] = {}]
    /\ Returns(g)
    /\ UNCHANGED <<enqueue, dequeue, slotSeq, slotValue, unused>>

-----------------------------------------------------------------------------
(***************************************************************************)
(* Get: TryPop, and a new buffer is allocated when the ring has none.      *)
(***************************************************************************)

Get(g) ==
    /\ thread[g].at = "out" /\ held[g] = {}
    /\ Moves(g, "pop")
    /\ UNCHANGED <<enqueue, dequeue, slotSeq, slotValue, held, unused>>

PopLoads(g) ==
    /\ thread[g].at = "pop"
    /\ thread' = [thread EXCEPT ![g].at = "popSeq", ![g].position = dequeue]
    /\ UNCHANGED <<enqueue, dequeue, slotSeq, slotValue, held, unused>>

PopCompare(g) ==
    /\ thread[g].at = "popSeq"
    /\ LET difference == slotSeq[Slot(thread[g].position)] - (thread[g].position + 1)
       IN CASE difference = 0 -> Moves(g, "popCAS")
            [] difference < 0 -> Moves(g, "popEmpty")
            [] OTHER -> Again(g, "pop", "popEmpty")
    /\ UNCHANGED <<enqueue, dequeue, slotSeq, slotValue, held, unused>>

\* Mutation: the position is taken without comparing it.
PopTakes(g) ==
    /\ thread[g].at = "popCAS"
    /\ dequeue' = thread[g].position + 1 /\ Moves(g, "popValue")
    /\ UNCHANGED <<enqueue, slotSeq, slotValue, held, unused>>

PopCAS(g) ==
    /\ thread[g].at = "popCAS"
    /\ IF dequeue = thread[g].position
       THEN dequeue' = dequeue + 1 /\ Moves(g, "popValue")
       ELSE UNCHANGED dequeue /\ Again(g, "pop", "popEmpty")
    /\ UNCHANGED <<enqueue, slotSeq, slotValue, held, unused>>

PopValue(g) ==
    /\ thread[g].at = "popValue"
    /\ held' = [held EXCEPT ![g] = slotValue[Slot(thread[g].position)]]
    /\ Moves(g, "popClear")
    /\ UNCHANGED <<enqueue, dequeue, slotSeq, slotValue, unused>>

PopClears(g) ==
    /\ thread[g].at = "popClear"
    /\ slotValue' = [slotValue EXCEPT ![Slot(thread[g].position)] = {}]
    /\ Moves(g, "popDone")
    /\ UNCHANGED <<enqueue, dequeue, slotSeq, held, unused>>

PopStores(g) ==
    /\ thread[g].at = "popDone"
    /\ slotSeq' = [slotSeq EXCEPT ![Slot(thread[g].position)] = thread[g].position + Slots]
    /\ Returns(g)
    /\ UNCHANGED <<enqueue, dequeue, slotValue, held, unused>>

\* One new buffer is as good as another.
Allocate(g) ==
    /\ thread[g].at = "popEmpty" /\ unused # {}
    /\ LET b == CHOOSE b \in unused : TRUE
       IN held' = [held EXCEPT ![g] = {b}] /\ unused' = unused \ {b}
    /\ Returns(g)
    /\ UNCHANGED <<enqueue, dequeue, slotSeq, slotValue>>

RingNext ==
    \E g \in Goroutines :
        \/ Put(g) \/ PushLoads(g) \/ PushCompare(g) \/ PushCAS(g) \/ PushValue(g)
        \/ PushStores(g) \/ Discard(g)
        \/ Get(g) \/ PopLoads(g) \/ PopCompare(g) \/ PopCAS(g) \/ PopValue(g)
        \/ PopClears(g) \/ PopStores(g) \/ Allocate(g)

-----------------------------------------------------------------------------

\* The slots whose buffer waits in the ring: not the ones being emptied.
Emptying == {Slot(thread[g].position) : g \in {g \in Goroutines : thread[g].at = "popClear"}}

\* A buffer is in one place: no two goroutines use it, and none uses a buffer
\* that the ring will hand out again or that is yet to be allocated.
BufferExclusive ==
    \A b \in Buffers :
        LET users == {g \in Goroutines : b \in held[g]}
            waiting == {i \in DOMAIN slotValue \ Emptying : b \in slotValue[i]}
        IN /\ \A g, h \in users : g = h
           /\ \A i, j \in waiting : i = j
           /\ users = {} \/ waiting = {}
           /\ b \in unused => users = {} /\ waiting = {}

\* A goroutine that pops always gets a buffer: a slot is published only after its
\* value was written, and nobody else empties it first.
PopFull ==
    \A g \in Goroutines : thread[g].at \in {"popClear", "popDone"} => held[g] # {}

\* Neither end overtakes the other by more than the ring has slots.
RingBounded ==
    /\ dequeue <= enqueue
    /\ enqueue - dequeue <= Slots

\* The ring hands every buffer from one goroutine to one other, at any number
\* of laps and in every interleaving of its atomic accesses.
RingSafe ==
    /\ BufferExclusive
    /\ PopFull
    /\ RingBounded
=============================================================================
