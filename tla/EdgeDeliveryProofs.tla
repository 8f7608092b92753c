------------------------- MODULE EdgeDeliveryProofs -------------------------
(***************************************************************************)
(* EdgeDelivery for any peers, policy, batch size, number of events and    *)
(* number of faults: an acknowledged event keeps its quorum, and the edge  *)
(* implements IngestContract.                                              *)
(*                                                                         *)
(* AcceptedKeepsQuorum is not inductive.  It needs to know that a receipt  *)
(* stands on a synced record, that the acknowledgements of a call are      *)
(* copies of the record the log has at that sequence (a record of the      *)
(* sequence lost with the power may be in a store or under way), that      *)
(* nothing beyond the checkpoint is released or asked to be, and that what *)
(* the loop hands to the broker has its quorum until it is checkpointed.   *)
(***************************************************************************)
EXTENDS EdgeDelivery, TLAPS

-----------------------------------------------------------------------------
(* The inductive invariant.                                                *)

\* The records up to here survive a power failure.
Synced == Len(log) - unsynced

\* A record that was appended once: the log has its event, if it still has it,
\* at the sequence of the record.
Placed(r) ==
    /\ r \in Record
    /\ r.event <= attempts
    /\ \A k \in DOMAIN log : log[k] = r.event => k = r.seq

\* The log has every event at most once, and done is what the checkpoint covers.
WalInv ==
    /\ log \in Seq(1..MaxEvents) /\ attempts \in 0..MaxEvents /\ Len(log) <= attempts
    /\ committed \in 0..Len(log) /\ unsynced \in 0..Len(log)
    /\ \A i \in DOMAIN log : log[i] <= attempts
    /\ \A i, j \in DOMAIN log : log[i] = log[j] => i = j
    /\ done = {log[k] : k \in 1..committed}

ReleaseCall == [through : 0..MaxEvents, waiting : SUBSET Peers,
                failed : BOOLEAN, then : {"poll", "commit"}]

\* No store has released more than is checkpointed.
StoreInv ==
    /\ store \in [Peers -> SUBSET Record]
    /\ released \in [Peers -> 0..MaxEvents]
    /\ \A p \in Peers : released[p] <= committed
    /\ \A p \in Peers : \A r \in store[p] : Placed(r)

\* No release asks for more than is checkpointed.
RequestInv ==
    /\ \A m \in latePuts : m.peer \in Peers /\ Placed(m.record)
    /\ \A m \in lateReleases : m.peer \in Peers /\ m.through \in 0..committed
    /\ releasing \in ReleaseCall /\ releasing.through <= committed

PeerInv == StoreInv /\ RequestInv

Call == [record : Record, waiting : SUBSET Peers, acks : SUBSET Peers]

\* The call is for a record of the log, a client's for a synced one, and the
\* peers that have acknowledged it hold it.
Backed(c) ==
    LET r == calls[c].record IN
    /\ c \in Callers
    /\ calls[c] \in Call
    /\ r.seq \in DOMAIN log
    /\ r = RecordAt(r.seq)
    /\ calls[c].acks \subseteq Holders(r.seq)
    /\ c # Loop => r.event = c /\ r.seq <= Synced

CallInv == \A c \in DOMAIN calls : Backed(c)

\* The records after the checkpoint up to k have their quorum.
Covered(k) == \A j \in 1..k : committed < j => Satisfied(Holders(j))

Delivering == pc \in {"deliver", "commit"} \/ (pc = "release" /\ releasing.then = "commit")

\* The loop delivers what has its quorum, and reports delivered what the broker has.
LoopInv ==
    /\ pc \in {"start", "poll", "replicate", "deliver", "commit", "release"}
    /\ at \in 0..Len(log) /\ last \in 0..Len(log) /\ ready \in 0..Len(log)
    /\ sent \subseteq 1..Len(log) /\ ok \subseteq sent
    /\ delivered \subseteq 1..MaxEvents
    /\ \A k \in sent : log[k] \in delivered
    /\ Loop \in DOMAIN calls <=> pc = "replicate"
    /\ pc = "replicate" => /\ calls[Loop].record.seq = at
                           /\ committed < at /\ at <= last
                           /\ Covered(at - 1)
    /\ Delivering => Covered(ready)

\* A synced record of an acknowledged event, after the checkpoint, has its quorum.
Kept(e) == \E k \in 1..Synced : committed < k /\ log[k] = e /\ Satisfied(Holders(k))

AcceptInv == accepted \subseteq 1..MaxEvents /\ \A e \in accepted : e \in done \/ Kept(e)

IInv == WalInv /\ PeerInv /\ CallInv /\ LoopInv /\ AcceptInv

-----------------------------------------------------------------------------
(* The durability policy is monotone.                                      *)

\* A policy that some nodes satisfy is satisfied by any more (evaluate counts).
LEMMA EvaluateMonotone ==
    ASSUME NEW A, NEW B, A \subseteq B, evaluate(A)
    PROVE  evaluate(B)
<1>1. Counted(A) \subseteq Counted(B)
  BY Zenon DEF Counted
<1>2. \A domain : Spread(domain, Counted(A)) => Spread(domain, Counted(B))
  BY <1>1, Zenon DEF Spread
<1>3. SUBSET Counted(A) \subseteq SUBSET Counted(B)
  BY <1>1, Zenon
<1> QED BY <1>2, <1>3, Zenon DEF evaluate

\* The same of acknowledgements: the local copy counts with both.
LEMMA SatisfiedMonotone ==
    ASSUME NEW A, NEW B, A \subseteq B, Satisfied(A)
    PROVE  Satisfied(B)
<1>1. A \cup {Local} \subseteq B \cup {Local}
  BY Zenon
<1> QED BY <1>1, EvaluateMonotone, Zenon DEF Satisfied

-----------------------------------------------------------------------------
(* What steps have in common.                                              *)

\* Every step: a peer gives up only what it has released,
Grows ==
    \A p \in Peers : /\ released[p] <= released'[p]
                     /\ \A r \in store[p] : r \in store'[p] \/ r.seq <= released'[p]

\* synced records stay where they are,
Surviving == \A k \in 1..Synced : k <= Synced' /\ log'[k] = log[k]

\* and the checkpoint never goes back.
Onward == Grows /\ Surviving /\ committed <= committed' /\ done \subseteq done'

\* Every step but the power failure: all records stay where they are.
Extends == \A k \in DOMAIN log : k \in DOMAIN log' /\ log'[k] = log[k]

\* Every record that was placed is, the log having grown or shrunk.
Placing == \A r : Placed(r) => Placed(r)'

\* The holders of a record that stays in the log only become more.
LEMMA HoldersGrow ==
    ASSUME Grows, released \in [Peers -> 0..MaxEvents], released' \in [Peers -> 0..MaxEvents],
           NEW k \in Nat, log'[k] = log[k]
    PROVE  /\ Holders(k) \subseteq Holders(k)'
           /\ Satisfied(Holders(k)) => Satisfied(Holders(k))'
<1>1. RecordAt(k)' = RecordAt(k) /\ RecordAt(k).seq = k
  BY Zenon DEF RecordAt
<1>2. ASSUME NEW p \in Peers, released[p] >= k \/ RecordAt(k) \in store[p]
      PROVE  released'[p] >= k \/ RecordAt(k)' \in store'[p]
  <2>1. released[p] \in Int /\ released'[p] \in Int
    BY ConfigAssumption
  <2>2. released[p] <= released'[p] /\ (RecordAt(k) \in store[p] => RecordAt(k) \in store'[p] \/ k <= released'[p])
    BY <1>1, Zenon DEF Grows
  <2> QED BY <1>1, <1>2, <2>1, <2>2
<1>3. Holders(k) \subseteq Holders(k)'
  BY <1>2, Zenon DEF Holders
<1> QED BY <1>3, SatisfiedMonotone, Zenon

\* What an acknowledged event has, it keeps.
LEMMA AcceptedLasts ==
    ASSUME WalInv, PeerInv, WalInv', PeerInv', Onward, NEW e, e \in done \/ Kept(e)
    PROVE  (e \in done \/ Kept(e))'
<1>1. CASE e \in done
  BY <1>1, Zenon DEF Onward
<1>2. CASE Kept(e)
  <2>1. PICK k \in 1..Synced : log[k] = e /\ Satisfied(Holders(k))
    BY <1>2, Zenon DEF Kept
  <2>2. committed \in Nat /\ committed' \in Nat /\ Synced \in Int /\ Synced' \in Int /\ k \in Nat
    BY DEF WalInv, Synced
  <2>3. k <= Synced' /\ log'[k] = log[k]
    BY Zenon DEF Onward, Surviving
  <2>4. Satisfied(Holders(k))'
    BY <2>1, <2>2, <2>3, HoldersGrow, Zenon DEF Onward, PeerInv, StoreInv
  <2>5. CASE k <= committed'
    BY <2>1, <2>2, <2>3, <2>5 DEF WalInv
  <2>6. CASE ~(k <= committed')
    <3>1. k \in 1..Synced' /\ committed' < k
      BY <2>2, <2>3, <2>6
    <3> QED BY <2>1, <2>3, <2>4, <3>1, Zenon DEF Kept
  <2> QED BY <2>5, <2>6, Zenon
<1> QED BY <1>1, <1>2, Zenon

\* A step that answers no client keeps what the clients were promised.
LEMMA AcceptRests ==
    ASSUME IInv, WalInv', PeerInv', Onward, UNCHANGED accepted
    PROVE  AcceptInv'
<1>1. ASSUME NEW e \in accepted PROVE (e \in done \/ Kept(e))'
  <2>1. e \in done \/ Kept(e)
    BY Zenon DEF IInv, AcceptInv
  <2>2. WalInv /\ PeerInv
    BY Zenon DEF IInv
  <2> QED BY <2>1, <2>2, AcceptedLasts, Zenon
<1> QED BY <1>1, Zenon DEF IInv, AcceptInv

\* The quorums of the records after the checkpoint last.
LEMMA CoveredLasts ==
    ASSUME WalInv, PeerInv, WalInv', PeerInv', Grows, Extends, committed <= committed',
           NEW n \in 0..Len(log), Covered(n)
    PROVE  Covered(n)'
<1>1. committed \in Nat /\ committed' \in Nat /\ Len(log) \in Nat /\ DOMAIN log = 1..Len(log)
  BY DEF WalInv
<1>2. ASSUME NEW j \in 1..n, committed' < j PROVE Satisfied(Holders(j))'
  <2>1. committed < j /\ j \in DOMAIN log /\ j \in Nat
    BY <1>1, <1>2
  <2>2. Satisfied(Holders(j)) /\ log'[j] = log[j]
    BY <2>1, Zenon DEF Covered, Extends
  <2> QED BY <2>1, <2>2, HoldersGrow, Zenon DEF PeerInv, StoreInv
<1> QED BY <1>2, Zenon DEF Covered

\* A call that a step leaves alone stays backed.
LEMMA BackedLasts ==
    ASSUME WalInv, PeerInv, WalInv', PeerInv', Onward, Extends,
           NEW c, Backed(c), calls'[c] = calls[c]
    PROVE  Backed(c)'
<1> DEFINE s == calls[c].record.seq
<1>1. s \in DOMAIN log /\ s \in Nat
  BY DEF Backed, WalInv
<1>2. s \in DOMAIN log' /\ log'[s] = log[s]
  BY <1>1, Zenon DEF Extends
<1>3. RecordAt(s)' = RecordAt(s)
  BY <1>2, Zenon DEF RecordAt
<1>4. Holders(s) \subseteq Holders(s)'
  BY <1>1, <1>2, HoldersGrow, Zenon DEF PeerInv, StoreInv, Onward
<1>5. s <= Synced => s <= Synced'
  <2>1. s \in 1..Len(log) /\ Synced \in Int
    BY <1>1 DEF WalInv, Synced
  <2> QED BY <2>1 DEF Onward, Surviving
<1>6. calls'[c].record.seq = s
  BY Zenon
<1> QED BY <1>1, <1>2, <1>3, <1>4, <1>5, <1>6, Zenon DEF Backed

\* A loop that a step leaves alone: at most the log, the stores and the calls of
\* clients change.
LEMMA LoopRests ==
    ASSUME WalInv, PeerInv, WalInv', PeerInv', LoopInv, Grows, Extends, committed <= committed',
           UNCHANGED <<pc, batch, delivered>>, releasing'.then = releasing.then,
           pc = "replicate" => committed' = committed,
           (Loop \in DOMAIN calls) <=> (Loop \in DOMAIN calls'),
           Loop \in DOMAIN calls => calls'[Loop].record = calls[Loop].record
    PROVE  LoopInv'
<1>1. Len(log) \in Nat /\ Len(log') \in Nat /\ DOMAIN log = 1..Len(log) /\ DOMAIN log' = 1..Len(log')
      /\ committed \in Nat
  BY DEF WalInv
<1>2. Len(log) <= Len(log')
  BY <1>1 DEF Extends
<1>3. /\ at' \in 0..Len(log') /\ last' \in 0..Len(log') /\ ready' \in 0..Len(log')
      /\ sent' \subseteq 1..Len(log') /\ ok' \subseteq sent'
  BY <1>1, <1>2 DEF LoopInv, batch
<1>4. \A k \in sent' : log'[k] \in delivered'
  BY <1>1, Zenon DEF LoopInv, batch, Extends
<1>5. ASSUME pc = "replicate"
      PROVE  /\ calls'[Loop].record.seq = at' /\ committed' < at' /\ at' <= last'
             /\ Covered(at - 1)'
  <2>1. /\ calls[Loop].record.seq = at /\ committed < at /\ at <= last /\ Covered(at - 1)
        /\ Loop \in DOMAIN calls
    BY <1>5, Zenon DEF LoopInv
  <2>2. at - 1 \in 0..Len(log)
    BY <1>1, <2>1 DEF LoopInv
  <2>3. PICK n : n = at - 1
    BY Zenon
  <2>4. Covered(n) /\ n \in 0..Len(log)
    BY <2>1, <2>2, <2>3, Zenon
  <2>5. Covered(n)'
    BY <2>4, CoveredLasts, Zenon
  <2>6. at' = at /\ last' = last
    BY Zenon DEF batch
  <2> QED BY <1>5, <2>1, <2>3, <2>5, <2>6, Zenon
<1>6. ASSUME Delivering' PROVE Covered(ready)'
  <2>1. Delivering
    BY <1>6, Zenon DEF Delivering
  <2>2. PICK n : n = ready
    BY Zenon
  <2>3. Covered(n) /\ n \in 0..Len(log)
    BY <2>1, <2>2, Zenon DEF LoopInv
  <2>4. Covered(n)'
    BY <2>3, CoveredLasts, Zenon
  <2>5. ready' = n
    BY <2>2, Zenon DEF batch
  <2> QED BY <2>4, <2>5, Zenon
<1>7. /\ pc' \in {"start", "poll", "replicate", "deliver", "commit", "release"}
      /\ delivered' \subseteq 1..MaxEvents
      /\ Loop \in DOMAIN calls' <=> pc' = "replicate"
      /\ pc' = pc
  BY Zenon DEF LoopInv
<1> QED BY <1>3, <1>4, <1>5, <1>6, <1>7, Zenon DEF LoopInv

-----------------------------------------------------------------------------
(* The log.                                                                *)

\* The elements of a sequence are of its type.
LEMMA SeqElements ==
    ASSUME NEW S, NEW q \in Seq(S)
    PROVE  \A i \in DOMAIN q : q[i] \in S
  OBVIOUS

\* A prefix of a sequence.
LEMMA Prefixes ==
    ASSUME NEW S, NEW q \in Seq(S), NEW n \in 0..Len(q)
    PROVE  /\ SubSeq(q, 1, n) \in Seq(S) /\ Len(SubSeq(q, 1, n)) = n
           /\ DOMAIN SubSeq(q, 1, n) = 1..n
           /\ \A k \in 1..n : SubSeq(q, 1, n)[k] = q[k]
  OBVIOUS

\* Nothing happens to the log.
LEMMA WalRests ==
    ASSUME WalInv, UNCHANGED <<wal, done>>
    PROVE  /\ WalInv' /\ Extends /\ Surviving /\ Placing
           /\ committed <= committed' /\ done \subseteq done'
<1>1. /\ log' = log /\ committed' = committed /\ unsynced' = unsynced /\ attempts' = attempts
      /\ done' = done
  BY Zenon DEF wal
<1>2. Synced' = Synced /\ Synced \in Int /\ committed \in Int
  BY <1>1 DEF Synced, WalInv
<1>3. WalInv'
  BY <1>1, Zenon DEF WalInv
<1>4. Surviving
  BY <1>1, <1>2 DEF Surviving
<1>5. Placing
  BY <1>1, Zenon DEF Placing, Placed
<1> QED BY <1>1, <1>2, <1>3, <1>4, <1>5 DEF Extends

\* An event is appended, synced with all before it or not at all.
LEMMA WalAppends ==
    ASSUME WalInv, attempts < MaxEvents, attempts' = attempts + 1,
           log' = Append(log, attempts + 1), unsynced' \in {0, unsynced + 1},
           UNCHANGED <<committed, done>>
    PROVE  /\ WalInv' /\ Extends /\ Surviving /\ Placing
           /\ committed <= committed' /\ done \subseteq done'
           /\ Len(log') = Len(log) + 1 /\ log'[Len(log) + 1] = attempts + 1
<1>1. /\ attempts \in Nat /\ MaxEvents \in Nat /\ Len(log) \in Nat /\ DOMAIN log = 1..Len(log)
      /\ committed \in 0..Len(log) /\ unsynced \in 0..Len(log) /\ Len(log) <= attempts
  BY ConfigAssumption DEF WalInv
<1>2. /\ log' \in Seq(1..MaxEvents) /\ Len(log') = Len(log) + 1
      /\ DOMAIN log' = 1..(Len(log) + 1) /\ log'[Len(log) + 1] = attempts + 1
      /\ \A k \in DOMAIN log : log'[k] = log[k]
  <2>1. attempts + 1 \in 1..MaxEvents /\ log \in Seq(1..MaxEvents)
    BY <1>1 DEF WalInv
  <2> QED BY <1>1, <2>1
<1>3. Extends
  BY <1>1, <1>2 DEF Extends
<1>4. \A i \in DOMAIN log' : i \in DOMAIN log \/ i = Len(log) + 1
  BY <1>1, <1>2
<1>5. \A i \in DOMAIN log : log[i] \in Int /\ log[i] <= attempts
  <2>1. log \in Seq(1..MaxEvents) /\ \A i \in DOMAIN log : log[i] <= attempts
    BY Zenon DEF WalInv
  <2>2. \A i \in DOMAIN log : log[i] \in 1..MaxEvents
    BY <2>1, SeqElements, Zenon
  <2> QED BY <2>1, <2>2
<1>6. \A i \in DOMAIN log' : log'[i] <= attempts'
  <2> TAKE i \in DOMAIN log'
  <2>1. CASE i \in DOMAIN log
    BY <1>1, <1>2, <1>5, <2>1
  <2>2. CASE i = Len(log) + 1
    BY <1>1, <1>2, <2>2
  <2> QED BY <1>4, <2>1, <2>2, Zenon
<1>7. \A i \in DOMAIN log : log[i] # attempts + 1
  BY <1>1, <1>5
<1>8. \A i, j \in DOMAIN log' : log'[i] = log'[j] => i = j
  <2>1. \A i, j \in DOMAIN log : log[i] = log[j] => i = j
    BY Zenon DEF WalInv
  <2> SUFFICES ASSUME NEW i \in DOMAIN log', NEW j \in DOMAIN log', log'[i] = log'[j]
               PROVE  i = j
    BY Zenon
  <2>2. CASE i \in DOMAIN log /\ j \in DOMAIN log
    BY <1>2, <2>1, <2>2, Zenon
  <2>3. CASE i = Len(log) + 1 /\ j \in DOMAIN log
    BY <1>2, <1>7, <2>3, Zenon
  <2>4. CASE j = Len(log) + 1 /\ i \in DOMAIN log
    BY <1>2, <1>7, <2>4, Zenon
  <2> QED BY <1>4, <2>2, <2>3, <2>4, Zenon
<1>9. done' = {log'[k] : k \in 1..committed'}
  <2>1. \A k \in 1..committed : k \in DOMAIN log
    BY <1>1
  <2>2. \A k \in 1..committed : log'[k] = log[k]
    BY <1>2, <2>1, Zenon
  <2> QED BY <2>2, Zenon DEF WalInv
<1>10. WalInv'
  <2>1. attempts' \in 0..MaxEvents /\ Len(log') <= attempts' /\ committed' \in 0..Len(log')
        /\ unsynced' \in 0..Len(log')
    BY <1>1, <1>2
  <2> QED BY <1>2, <1>6, <1>8, <1>9, <2>1, Zenon DEF WalInv
<1>11. Surviving
  <2>1. \A k \in 1..Synced : k \in DOMAIN log
    BY <1>1 DEF Synced
  <2>2. Synced' >= Synced /\ Synced \in Int /\ Synced' \in Int
    BY <1>1, <1>2 DEF Synced
  <2> QED BY <1>2, <2>1, <2>2 DEF Surviving
<1>12. Placing
  <2> SUFFICES ASSUME NEW r, Placed(r) PROVE Placed(r)'
    BY Zenon DEF Placing
  <2>1. r \in Record /\ r.event <= attempts /\ r.event \in Int
    BY DEF Placed, Record
  <2>2. r.event <= attempts' /\ r.event # attempts + 1
    BY <1>1, <2>1
  <2>3. \A k \in DOMAIN log' : log'[k] = r.event => k = r.seq
    BY <1>2, <1>4, <2>2, Zenon DEF Placed
  <2> QED BY <2>1, <2>2, <2>3, Zenon DEF Placed
<1> QED BY <1>1, <1>2, <1>3, <1>10, <1>11, <1>12

\* A record is checkpointed.
LEMMA WalCommits ==
    ASSUME WalInv, committed < Len(log), committed' = committed + 1,
           done' = done \cup {log[committed + 1]}, UNCHANGED <<log, unsynced, attempts>>
    PROVE  /\ WalInv' /\ Extends /\ Surviving /\ Placing
           /\ committed <= committed' /\ done \subseteq done'
<1>1. /\ Len(log) \in Nat /\ committed \in 0..Len(log) /\ unsynced \in Nat
  BY DEF WalInv
<1>2. committed' \in 0..Len(log') /\ committed <= committed'
  BY <1>1
<1>3. done' = {log'[k] : k \in 1..committed'}
  <2>1. \A k : k \in 1..committed' <=> k \in 1..committed \/ k = committed + 1
    <3>1. \A x \in Nat : \A k : k \in 1..(x + 1) <=> k \in 1..x \/ k = x + 1
      OBVIOUS
    <3> QED BY <1>1, <3>1
  <2>2. done = {log[k] : k \in 1..committed}
    BY Zenon DEF WalInv
  <2>3. \A x : x \in done' <=> \E k \in 1..committed' : x = log[k]
    BY <2>1, <2>2, Zenon
  <2> QED BY <2>3, Zenon
<1>4. WalInv'
  BY <1>2, <1>3, Zenon DEF WalInv
<1>5. Surviving
  BY <1>1 DEF Surviving, Synced
<1>6. Placing
  BY Zenon DEF Placing, Placed
<1> QED BY <1>2, <1>4, <1>5, <1>6, Zenon DEF Extends

\* The power takes records that were not synced and not checkpointed.
LEMMA WalTruncates ==
    ASSUME WalInv, NEW n \in committed..Len(log), n >= Len(log) - unsynced,
           log' = SubSeq(log, 1, n), unsynced' = 0, UNCHANGED <<committed, attempts, done>>
    PROVE  /\ WalInv' /\ Surviving /\ Placing
           /\ committed <= committed' /\ done \subseteq done'
           /\ Len(log') = n /\ \A k \in 1..n : log'[k] = log[k]
<1>1. /\ Len(log) \in Nat /\ committed \in 0..Len(log) /\ unsynced \in 0..Len(log)
      /\ attempts \in Nat /\ Len(log) <= attempts /\ DOMAIN log = 1..Len(log)
  BY ConfigAssumption DEF WalInv
<1>2. /\ log' \in Seq(1..MaxEvents) /\ Len(log') = n /\ DOMAIN log' = 1..n
      /\ \A k \in 1..n : log'[k] = log[k]
  <2>1. log \in Seq(1..MaxEvents)
    BY Zenon DEF WalInv
  <2>2. n \in 0..Len(log)
    BY <1>1
  <2> QED BY <2>1, <2>2, Prefixes, Zenon
<1>3. n \in Nat /\ n <= Len(log) /\ committed <= n
  BY <1>1
<1>4. \A k \in 1..n : k \in DOMAIN log
  BY <1>1, <1>3
<1>5. /\ \A i \in DOMAIN log' : log'[i] <= attempts'
      /\ \A i, j \in DOMAIN log' : log'[i] = log'[j] => i = j
  <2>1. /\ \A i \in DOMAIN log : log[i] <= attempts
        /\ \A i, j \in DOMAIN log : log[i] = log[j] => i = j
    BY Zenon DEF WalInv
  <2>2. \A i \in DOMAIN log' : log'[i] = log[i] /\ i \in DOMAIN log
    BY <1>2, <1>4, Zenon
  <2> QED BY <2>1, <2>2, Zenon
<1>6. done' = {log'[k] : k \in 1..committed'}
  <2>1. \A k \in 1..committed : k \in 1..n
    BY <1>1, <1>3
  <2>2. \A k \in 1..committed : log'[k] = log[k]
    BY <1>2, <2>1, Zenon
  <2> QED BY <2>2, Zenon DEF WalInv
<1>7. WalInv'
  <2>1. attempts' \in 0..MaxEvents /\ Len(log') <= attempts' /\ committed' \in 0..Len(log')
        /\ unsynced' \in 0..Len(log')
    BY <1>1, <1>2, <1>3 DEF WalInv
  <2> QED BY <1>2, <1>5, <1>6, <2>1, Zenon DEF WalInv
<1>8. Surviving
  <2>1. Synced' = n /\ Synced <= n /\ Synced \in Int
    BY <1>1, <1>2, <1>3 DEF Synced
  <2>2. \A k \in 1..Synced : k \in 1..n /\ k <= Synced'
    BY <1>3, <2>1
  <2> QED BY <1>2, <2>2, Zenon DEF Surviving
<1>9. Placing
  BY <1>2, <1>4, Zenon DEF Placing, Placed
<1> QED BY <1>1, <1>2, <1>7, <1>8, <1>9

-----------------------------------------------------------------------------
(* The peers.                                                              *)

\* What the log does leaves the stores as they are.
LEMMA StoresRest ==
    ASSUME StoreInv, WalInv, WalInv', Placing, committed <= committed', UNCHANGED <<store, released>>
    PROVE  StoreInv' /\ Grows
<1>1. committed \in Int /\ committed' \in Int /\ MaxEvents \in Nat
  BY ConfigAssumption DEF WalInv
<1>2. \A p \in Peers : released[p] \in Int /\ released[p] <= committed
  BY <1>1 DEF StoreInv
<1>3. \A p \in Peers : released'[p] <= committed'
  BY <1>1, <1>2
<1>4. \A p \in Peers : \A r \in store'[p] : Placed(r)'
  BY Zenon DEF StoreInv, Placing
<1>5. Grows
  BY <1>2 DEF Grows
<1> QED BY <1>3, <1>4, <1>5, Zenon DEF StoreInv

\* Requests that stay as they are, or are fewer.
LEMMA RequestsRest ==
    ASSUME RequestInv, WalInv, WalInv', Placing, committed <= committed',
           latePuts' \subseteq latePuts, lateReleases' \subseteq lateReleases,
           releasing'.through = releasing.through, releasing' \in ReleaseCall
    PROVE  RequestInv'
<1>1. committed \in Int /\ committed' \in Int
  BY DEF WalInv
<1>2. \A m \in latePuts' : m.peer \in Peers /\ Placed(m.record)'
  BY Zenon DEF RequestInv, Placing
<1>3. \A x : x \in 0..committed => x \in 0..committed'
  BY <1>1
<1>4. \A m \in lateReleases' : m.peer \in Peers /\ m.through \in 0..committed'
  BY <1>3, Zenon DEF RequestInv
<1>5. releasing'.through <= committed'
  <2>1. releasing.through \in 0..committed
    BY <1>1, ConfigAssumption DEF RequestInv, ReleaseCall
  <2> QED BY <1>1, <2>1
<1> QED BY <1>2, <1>4, <1>5, Zenon DEF RequestInv

\* Put of a placed record; a peer that does not refuse it holds it then.
LEMMA PutKeeps ==
    ASSUME StoreInv, WalInv, WalInv', Placing, UNCHANGED <<committed, released>>,
           NEW p \in Peers, NEW r, Placed(r), store' = AfterPut(p, r)
    PROVE  /\ StoreInv' /\ Grows
           /\ ~Conflicts(p, r) => released[p] >= r.seq \/ r \in store'[p]
<1>1. MaxEvents \in Nat /\ committed \in Int /\ r \in Record /\ r.seq \in Int
  BY ConfigAssumption DEF WalInv, Placed, Record
<1>2. \A q \in Peers : released[q] \in Int
  BY <1>1 DEF StoreInv
<1>3. CASE r.seq <= released[p] \/ \E q \in store[p] : q.seq = r.seq
  <2>1. store' = store /\ committed <= committed'
    BY <1>1, <1>3 DEF AfterPut
  <2>2. StoreInv' /\ Grows
    BY <2>1, StoresRest, Zenon
  <2>3. ~Conflicts(p, r) => released[p] >= r.seq \/ r \in store'[p]
    BY <1>1, <1>2, <1>3, <2>1 DEF Conflicts
  <2> QED BY <2>2, <2>3, Zenon
<1>4. CASE ~(r.seq <= released[p] \/ \E q \in store[p] : q.seq = r.seq)
  <2>1. store' = [store EXCEPT ![p] = @ \cup {r}]
    BY <1>4, Zenon DEF AfterPut
  <2>2. store \in [Peers -> SUBSET Record]
    BY Zenon DEF StoreInv
  <2>3. store' \in [Peers -> SUBSET Record] /\ r \in store'[p]
    BY <1>1, <2>1, <2>2, Zenon
  <2>4. \A q \in Peers : store[q] \subseteq store'[q] /\ \A x \in store'[q] : x \in store[q] \/ x = r
    BY <2>1, <2>2, Zenon
  <2>5. \A q \in Peers : \A x \in store'[q] : Placed(x)'
    BY <2>4, Zenon DEF StoreInv, Placing
  <2>6. Grows
    BY <1>2, <2>4 DEF Grows
  <2>7. StoreInv'
    BY <2>3, <2>5, Zenon DEF StoreInv
  <2> QED BY <2>3, <2>6, <2>7, Zenon
<1> QED BY <1>3, <1>4, Zenon

\* Release of what is checkpointed.
LEMMA ReleaseKeeps ==
    ASSUME StoreInv, WalInv, WalInv', Placing, UNCHANGED committed,
           NEW p \in Peers, NEW through \in 0..committed, ReleaseAt(p, through)
    PROVE  StoreInv' /\ Grows
<1>1. MaxEvents \in Nat /\ committed \in Nat /\ committed <= MaxEvents
  BY ConfigAssumption DEF WalInv
<1>2. \A q \in Peers : released[q] \in Int
  BY <1>1 DEF StoreInv
<1>3. CASE through <= released[p]
  <2>1. UNCHANGED <<store, released>> /\ committed <= committed'
    BY <1>1, <1>3 DEF ReleaseAt
  <2> QED BY <2>1, StoresRest, Zenon
<1>4. CASE ~(through <= released[p])
  <2>1. /\ released' = [released EXCEPT ![p] = through]
        /\ store' = [store EXCEPT ![p] = {r \in @ : r.seq > through}]
    BY <1>4, Zenon DEF ReleaseAt
  <2>2. store \in [Peers -> SUBSET Record] /\ released \in [Peers -> 0..MaxEvents]
    BY Zenon DEF StoreInv
  <2>3. released' \in [Peers -> 0..MaxEvents]
    BY <1>1, <2>1, <2>2
  <2>4. store' \in [Peers -> SUBSET Record]
    BY <2>1, <2>2, Zenon
  <2>5. \A q \in Peers : released'[q] <= committed'
    BY <1>1, <2>1, <2>2 DEF StoreInv
  <2>6. \A q \in Peers : store'[q] \subseteq store[q]
    BY <2>1, <2>2, Zenon
  <2>7. \A q \in Peers : \A r \in store'[q] : Placed(r)'
    BY <2>6, Zenon DEF StoreInv, Placing
  <2>8. Grows
    <3> SUFFICES ASSUME NEW q \in Peers
                 PROVE  /\ released[q] <= released'[q]
                        /\ \A r \in store[q] : r \in store'[q] \/ r.seq <= released'[q]
      BY Zenon DEF Grows
    <3>1. CASE q = p
      <4>1. released'[q] = through /\ store'[q] = {r \in store[q] : r.seq > through}
        BY <2>1, <2>2, <3>1, Zenon
      <4>2. \A r \in store[q] : r.seq \in Int
        BY <2>2 DEF Record
      <4> QED BY <1>1, <1>2, <1>4, <3>1, <4>1, <4>2
    <3>2. CASE q # p
      BY <1>2, <2>1, <2>2, <3>2
    <3> QED BY <3>1, <3>2, Zenon
  <2> QED BY <2>3, <2>4, <2>5, <2>7, <2>8, Zenon DEF StoreInv
<1> QED BY <1>3, <1>4, Zenon

-----------------------------------------------------------------------------
(* Steps that answer no call.                                              *)

\* No call starts or ends.
LEMMA CallsRest ==
    ASSUME IInv, WalInv', PeerInv', Onward, Extends, UNCHANGED calls
    PROVE  CallInv'
<1> SUFFICES ASSUME NEW c \in DOMAIN calls PROVE Backed(c)'
  BY Zenon DEF CallInv
<1>1. WalInv /\ PeerInv /\ Backed(c) /\ calls'[c] = calls[c]
  BY Zenon DEF IInv, CallInv
<1> QED BY <1>1, BackedLasts, Zenon

\* Steps that leave the loop and the calls alone.
LEMMA QuietKeeps ==
    ASSUME IInv, WalInv', PeerInv', Onward, Extends,
           UNCHANGED <<pc, batch, delivered, calls, accepted>>,
           releasing'.then = releasing.then, UNCHANGED committed
    PROVE  IInv'
<1>1. AcceptInv' /\ CallInv'
  BY AcceptRests, CallsRest, Zenon
<1>2. LoopInv'
  <2>1. WalInv /\ PeerInv /\ LoopInv /\ Grows /\ committed <= committed'
    BY Zenon DEF IInv, Onward
  <2>2. /\ (Loop \in DOMAIN calls) <=> (Loop \in DOMAIN calls')
        /\ Loop \in DOMAIN calls => calls'[Loop].record = calls[Loop].record
        /\ pc = "replicate" => committed' = committed
    BY Zenon
  <2> QED BY <2>1, <2>2, LoopRests, Zenon
<1> QED BY <1>1, <1>2, Zenon DEF IInv

Turns == {"start", "poll", "deliver", "commit", "release"}

\* Steps of the loop outside Replicate.
LEMMA TurnKeeps ==
    ASSUME IInv, WalInv', PeerInv', Onward, UNCHANGED <<log, calls, accepted, at, last, ready>>,
           pc \in Turns, pc' \in Turns, Delivering' => Delivering,
           sent' \subseteq 1..Len(log), ok' \subseteq sent',
           delivered' \subseteq 1..MaxEvents, \A k \in sent' : log[k] \in delivered'
    PROVE  IInv'
<1>1. Extends
  BY Zenon DEF Extends
<1>2. AcceptInv' /\ CallInv'
  BY <1>1, AcceptRests, CallsRest, Zenon
<1>3. pc # "replicate" /\ pc' # "replicate"
  BY Zenon DEF Turns
<1>4. Delivering' => Covered(ready)'
  <2> SUFFICES ASSUME Delivering' PROVE Covered(ready)'
    BY Zenon
  <2>1. PICK n : n = ready
    BY Zenon
  <2>2. Covered(n) /\ n \in 0..Len(log) /\ WalInv /\ PeerInv /\ Grows /\ committed <= committed'
    BY <2>1, Zenon DEF IInv, LoopInv, Onward
  <2>3. Covered(n)'
    BY <1>1, <2>2, CoveredLasts, Zenon
  <2> QED BY <2>1, <2>3, Zenon
<1>5. Loop \notin DOMAIN calls'
  BY <1>3, Zenon DEF IInv, LoopInv
<1>6. at \in 0..Len(log) /\ last \in 0..Len(log) /\ ready \in 0..Len(log)
  BY Zenon DEF IInv, LoopInv
<1>7. LoopInv'
  BY <1>3, <1>4, <1>5, <1>6, Zenon DEF LoopInv, Turns
<1> QED BY <1>2, <1>7, Zenon DEF IInv

\* What a step has when the log rests.
LEMMA LogRests ==
    ASSUME IInv, UNCHANGED <<wal, done>>
    PROVE  /\ WalInv' /\ Extends /\ Surviving /\ Placing
           /\ committed <= committed' /\ done \subseteq done'
           /\ log' = log /\ committed' = committed
<1>1. WalInv
  BY Zenon DEF IInv
<1>2. log' = log /\ committed' = committed
  BY Zenon DEF wal
<1> QED BY <1>1, <1>2, WalRests, Zenon

\* PublishWithReceipt appends and starts to replicate.
LEMMA PublishKeeps ==
    ASSUME IInv, Publish
    PROVE  IInv'
<1>a. PICK e, k : e = attempts + 1 /\ k = Len(log) + 1
  BY Zenon
<1> DEFINE call == [record |-> [seq |-> k, event |-> e], waiting |-> Peers, acks |-> {}]
<1>1. /\ attempts < MaxEvents /\ attempts' = e /\ log' = Append(log, e) /\ unsynced' = 0
      /\ calls' = CallsWith(e, call)
      /\ UNCHANGED <<committed, done>> /\ UNCHANGED <<store, released, latePuts, lateReleases>>
      /\ UNCHANGED <<pc, batch, delivered, accepted, releasing>>
  BY <1>a, Zenon DEF Publish, world, late
<1>2. WalInv /\ StoreInv /\ RequestInv /\ CallInv /\ LoopInv
  BY Zenon DEF IInv, PeerInv
<1>3. /\ WalInv' /\ Extends /\ Surviving /\ Placing /\ committed <= committed' /\ done \subseteq done'
      /\ Len(log') = k /\ log'[k] = e
  BY <1>a, <1>1, <1>2, WalAppends, Zenon
<1>4. StoreInv' /\ Grows
  BY <1>1, <1>2, <1>3, StoresRest, Zenon
<1>5. RequestInv'
  <2>1. releasing' \in ReleaseCall /\ latePuts' \subseteq latePuts /\ lateReleases' \subseteq lateReleases
    BY <1>1, <1>2, Zenon DEF RequestInv
  <2> QED BY <1>1, <1>2, <1>3, <2>1, RequestsRest, Zenon
<1>6. PeerInv' /\ Onward /\ PeerInv
  BY <1>2, <1>3, <1>4, <1>5, Zenon DEF PeerInv, Onward
<1>7. AcceptInv'
  BY <1>1, <1>3, <1>6, AcceptRests, Zenon
<1>8. e \in 1..MaxEvents /\ k \in 1..MaxEvents /\ e # Loop
  BY <1>a, <1>1, <1>2, ConfigAssumption DEF WalInv, Loop
<1>9. /\ DOMAIN calls' = DOMAIN calls \cup {e} /\ calls'[e] = call
      /\ \A c \in DOMAIN calls : c # e => calls'[c] = calls[c]
  BY <1>1, Zenon DEF CallsWith
<1>10. Backed(e)'
  <2>1. call \in Call /\ call.record.seq = k /\ call.record.event = e /\ call.acks = {}
    BY <1>8, Zenon DEF Call, Record
  <2>2. k \in DOMAIN log' /\ k <= Synced'
    BY <1>a, <1>1, <1>2, <1>3, <1>8 DEF WalInv, Synced
  <2>3. call.record = [seq |-> k, event |-> log'[k]]
    BY <1>3, Zenon
  <2>4. e \in Callers
    BY <1>8, Zenon DEF Callers
  <2> HIDE DEF call
  <2>5. calls'[e].record = [seq |-> calls'[e].record.seq, event |-> log'[calls'[e].record.seq]]
    BY <1>9, <2>1, <2>3, Zenon
  <2> QED BY <1>9, <2>1, <2>2, <2>4, <2>5, Zenon DEF Backed, RecordAt
<1>11. CallInv'
  <2> SUFFICES ASSUME NEW c \in DOMAIN calls', c # e PROVE Backed(c)'
    BY <1>10, Zenon DEF CallInv
  <2>1. c \in DOMAIN calls /\ calls'[c] = calls[c] /\ Backed(c)
    BY <1>2, <1>9, Zenon DEF CallInv
  <2> QED BY <1>2, <1>3, <1>6, <2>1, BackedLasts, Zenon
<1>12. LoopInv'
  <2>1. /\ (Loop \in DOMAIN calls) <=> (Loop \in DOMAIN calls')
        /\ Loop \in DOMAIN calls => calls'[Loop].record = calls[Loop].record
        /\ pc = "replicate" => committed' = committed
        /\ releasing'.then = releasing.then
    BY <1>1, <1>8, <1>9, Zenon
  <2>2. UNCHANGED <<pc, batch, delivered>>
    BY <1>1, Zenon
  <2> QED BY <1>2, <1>3, <1>4, <1>6, <2>1, <2>2, LoopRests, Zenon
<1> QED BY <1>3, <1>6, <1>7, <1>11, <1>12, Zenon DEF IInv

\* Append fails; its frame is in the file or not.
LEMMA PublishFailsKeeps ==
    ASSUME IInv, PublishFails
    PROVE  IInv'
<1>1. /\ attempts < MaxEvents /\ attempts' = attempts + 1
      /\ \/ UNCHANGED <<log, unsynced>>
         \/ log' = Append(log, attempts + 1) /\ unsynced' = unsynced + 1
      /\ UNCHANGED <<committed, done>> /\ UNCHANGED <<store, released, latePuts, lateReleases>>
      /\ UNCHANGED <<pc, batch, delivered, calls, accepted>> /\ UNCHANGED releasing
  BY Zenon DEF PublishFails, world, late
<1>2. WalInv /\ StoreInv /\ RequestInv
  BY Zenon DEF IInv, PeerInv
<1>3. /\ WalInv' /\ Extends /\ Surviving /\ Placing
      /\ committed <= committed' /\ done \subseteq done'
  <2>1. CASE UNCHANGED <<log, unsynced>>
    <3>1. attempts \in Int /\ attempts' \in 0..MaxEvents /\ attempts <= attempts' /\ Len(log) \in Int
          /\ committed \in Int /\ unsynced \in Int
      BY <1>1, <1>2, ConfigAssumption DEF WalInv
    <3>2. \A i \in DOMAIN log : log[i] \in 1..MaxEvents /\ log[i] <= attempts
      BY <1>2, SeqElements, Zenon DEF WalInv
    <3>3. WalInv'
      BY <1>1, <1>2, <2>1, <3>1, <3>2 DEF WalInv
    <3>4. Placing
      <4> SUFFICES ASSUME NEW r, Placed(r) PROVE Placed(r)'
        BY Zenon DEF Placing
      <4>1. r \in Record /\ r.event \in Int /\ r.event <= attempts
        BY DEF Placed, Record
      <4>2. r.event <= attempts'
        BY <3>1, <4>1
      <4> QED BY <2>1, <4>1, <4>2, Zenon DEF Placed
    <3>5. Surviving
      BY <2>1, <3>1 DEF Surviving, Synced
    <3> QED BY <1>1, <2>1, <3>1, <3>3, <3>4, <3>5 DEF Extends
  <2>2. CASE log' = Append(log, attempts + 1) /\ unsynced' = unsynced + 1
    BY <1>1, <1>2, <2>2, WalAppends, Zenon
  <2> QED BY <1>1, <2>1, <2>2, Zenon
<1>4. StoreInv' /\ Grows
  BY <1>1, <1>2, <1>3, StoresRest, Zenon
<1>5. RequestInv'
  <2>1. releasing' \in ReleaseCall /\ latePuts' \subseteq latePuts /\ lateReleases' \subseteq lateReleases
    BY <1>1, <1>2, Zenon DEF RequestInv
  <2> QED BY <1>1, <1>2, <1>3, <2>1, RequestsRest, Zenon
<1>6. PeerInv' /\ Onward
  BY <1>3, <1>4, <1>5, Zenon DEF PeerInv, Onward
<1> QED BY <1>1, <1>3, <1>6, QuietKeeps, Zenon

\* A replicate request nobody waits for arrives at a peer.
LEMMA LatePutKeeps ==
    ASSUME IInv, NEW m \in latePuts, LatePut(m)
    PROVE  IInv'
<1>1. /\ latePuts' \subseteq latePuts /\ store' \in {store, AfterPut(m.peer, m.record)}
      /\ UNCHANGED <<wal, done>> /\ UNCHANGED <<released, lateReleases>> /\ UNCHANGED releasing
      /\ UNCHANGED <<pc, batch, delivered, calls, accepted>>
  BY Zenon DEF LatePut, process, batch
<1>2. WalInv /\ StoreInv /\ RequestInv
  BY Zenon DEF IInv, PeerInv
<1>3. /\ WalInv' /\ Extends /\ Surviving /\ Placing
      /\ committed <= committed' /\ done \subseteq done' /\ committed' = committed
  BY <1>1, LogRests, Zenon
<1>4. StoreInv' /\ Grows
  <2>1. m.peer \in Peers /\ Placed(m.record)
    BY <1>2, Zenon DEF RequestInv
  <2>2. CASE store' = store
    BY <1>1, <1>2, <1>3, <2>2, StoresRest, Zenon
  <2>3. CASE store' = AfterPut(m.peer, m.record)
    BY <1>1, <1>2, <1>3, <2>1, <2>3, PutKeeps, Zenon
  <2> QED BY <1>1, <2>2, <2>3, Zenon
<1>5. RequestInv'
  <2>1. releasing' \in ReleaseCall /\ lateReleases' \subseteq lateReleases
    BY <1>1, <1>2, Zenon DEF RequestInv
  <2> QED BY <1>1, <1>2, <1>3, <2>1, RequestsRest, Zenon
<1>6. PeerInv' /\ Onward
  BY <1>3, <1>4, <1>5, Zenon DEF PeerInv, Onward
<1> QED BY <1>1, <1>3, <1>6, QuietKeeps, Zenon

\* A release request nobody waits for arrives at a peer.
LEMMA LateReleaseKeeps ==
    ASSUME IInv, NEW m \in lateReleases, LateRelease(m)
    PROVE  IInv'
<1>1. /\ lateReleases' \subseteq lateReleases
      /\ UNCHANGED <<store, released>> \/ ReleaseAt(m.peer, m.through)
      /\ UNCHANGED <<wal, done>> /\ UNCHANGED latePuts /\ UNCHANGED releasing
      /\ UNCHANGED <<pc, batch, delivered, calls, accepted>>
  BY Zenon DEF LateRelease, process, batch
<1>2. WalInv /\ StoreInv /\ RequestInv
  BY Zenon DEF IInv, PeerInv
<1>3. /\ WalInv' /\ Extends /\ Surviving /\ Placing
      /\ committed <= committed' /\ done \subseteq done' /\ committed' = committed
  BY <1>1, LogRests, Zenon
<1>4. StoreInv' /\ Grows
  <2>1. m.peer \in Peers /\ m.through \in 0..committed
    BY <1>2, Zenon DEF RequestInv
  <2>2. CASE UNCHANGED <<store, released>>
    BY <1>2, <1>3, <2>2, StoresRest, Zenon
  <2>3. CASE ReleaseAt(m.peer, m.through)
    BY <1>2, <1>3, <2>1, <2>3, ReleaseKeeps, Zenon
  <2> QED BY <1>1, <2>2, <2>3, Zenon
<1>5. RequestInv'
  <2>1. releasing' \in ReleaseCall /\ latePuts' \subseteq latePuts
    BY <1>1, <1>2, Zenon DEF RequestInv
  <2> QED BY <1>1, <1>2, <1>3, <2>1, RequestsRest, Zenon
<1>6. PeerInv' /\ Onward
  BY <1>3, <1>4, <1>5, Zenon DEF PeerInv, Onward
<1> QED BY <1>1, <1>3, <1>6, QuietKeeps, Zenon

\* Manager.Release: a peer answers, or its request fails.
LEMMA ReleaseAnsweredKeeps ==
    ASSUME IInv, NEW p \in Peers, ReleaseAnswered(p)
    PROVE  IInv'
<1> DEFINE req == [peer |-> p, through |-> releasing.through]
<1>1. /\ \/ /\ ReleaseAt(p, releasing.through)
            /\ releasing' = [releasing EXCEPT !.waiting = @ \ {p}]
            /\ UNCHANGED lateReleases
         \/ /\ releasing' = [releasing EXCEPT !.waiting = @ \ {p}, !.failed = TRUE]
            /\ lateReleases' = lateReleases \cup {req}
            /\ UNCHANGED <<store, released>>
      /\ UNCHANGED <<wal, done>> /\ UNCHANGED latePuts
      /\ UNCHANGED <<pc, batch, delivered, calls, accepted>>
  BY Zenon DEF ReleaseAnswered
<1>2. WalInv /\ StoreInv /\ RequestInv
  BY Zenon DEF IInv, PeerInv
<1>3. /\ WalInv' /\ Extends /\ Surviving /\ Placing
      /\ committed <= committed' /\ done \subseteq done' /\ committed' = committed
  BY <1>1, LogRests, Zenon
<1>4. /\ releasing \in ReleaseCall /\ releasing.through \in 0..committed
  BY <1>2, ConfigAssumption DEF RequestInv, ReleaseCall, WalInv
<1>5. /\ releasing' \in ReleaseCall /\ releasing'.through = releasing.through
      /\ releasing'.then = releasing.then
  BY <1>1, <1>4, Zenon DEF ReleaseCall
<1>6. StoreInv' /\ Grows
  <2>1. CASE UNCHANGED <<store, released>>
    BY <1>2, <1>3, <2>1, StoresRest, Zenon
  <2>2. CASE ReleaseAt(p, releasing.through)
    BY <1>2, <1>3, <1>4, <2>2, ReleaseKeeps, Zenon
  <2> QED BY <1>1, <2>1, <2>2, Zenon
<1>7. RequestInv'
  <2>1. CASE UNCHANGED lateReleases
    <3>1. latePuts' \subseteq latePuts /\ lateReleases' \subseteq lateReleases
      BY <1>1, <2>1, Zenon
    <3> QED BY <1>2, <1>3, <1>5, <3>1, RequestsRest, Zenon
  <2>2. CASE lateReleases' = lateReleases \cup {req}
    <3>1. req.peer \in Peers /\ req.through \in 0..committed'
      BY <1>3, <1>4, Zenon
    <3>2. \A m \in lateReleases' : m.peer \in Peers /\ m.through \in 0..committed'
      BY <1>2, <1>3, <2>2, <3>1, Zenon DEF RequestInv
    <3>3. \A m \in latePuts' : m.peer \in Peers /\ Placed(m.record)'
      BY <1>1, <1>2, <1>3, Zenon DEF RequestInv, Placing
    <3>4. releasing'.through <= committed'
      BY <1>2, <1>3, <1>5, Zenon DEF RequestInv
    <3> QED BY <1>5, <3>2, <3>3, <3>4, Zenon DEF RequestInv
  <2> QED BY <1>1, <2>1, <2>2, Zenon
<1>8. PeerInv' /\ Onward
  BY <1>3, <1>6, <1>7, Zenon DEF PeerInv, Onward
<1> QED BY <1>1, <1>3, <1>5, <1>8, QuietKeeps, Zenon

-----------------------------------------------------------------------------
(* The replay loop outside Replicate.                                      *)

\* What a turn of the loop has when log and peers rest.
LEMMA WorldRests ==
    ASSUME IInv, UNCHANGED <<wal, done>>, UNCHANGED <<store, released, latePuts, lateReleases>>,
           releasing' \in ReleaseCall, releasing'.through <= committed
    PROVE  WalInv' /\ PeerInv' /\ Onward /\ log' = log /\ committed' = committed
<1>1. WalInv /\ StoreInv /\ RequestInv
  BY Zenon DEF IInv, PeerInv
<1>2. /\ WalInv' /\ Surviving /\ Placing /\ committed <= committed' /\ done \subseteq done'
      /\ log' = log /\ committed' = committed
  BY LogRests, Zenon
<1>3. StoreInv' /\ Grows
  BY <1>1, <1>2, StoresRest, Zenon
<1>4. \A m \in latePuts' : m.peer \in Peers /\ Placed(m.record)'
  BY <1>1, <1>2, Zenon DEF RequestInv, Placing
<1>5. RequestInv'
  BY <1>1, <1>2, <1>4, Zenon DEF RequestInv
<1> QED BY <1>2, <1>3, <1>5, Zenon DEF PeerInv, Onward

\* A new Release call is for what is checkpointed.
LEMMA ReleaseStarts ==
    ASSUME WalInv, NEW then \in {"poll", "commit"}, NEW through \in 0..committed,
           StartRelease(through, then)
    PROVE  /\ releasing' \in ReleaseCall /\ releasing'.through = through
           /\ releasing'.then = then /\ pc' = "release"
<1>1. through \in 0..MaxEvents
  BY ConfigAssumption DEF WalInv
<1> QED BY <1>1, Zenon DEF StartRelease, ReleaseThrough, ReleaseCall

\* What sent, ok and delivered are when the loop turns without the broker.
LEMMA SentRests ==
    ASSUME IInv, UNCHANGED <<log, sent, ok, delivered>>
    PROVE  /\ sent' \subseteq 1..Len(log) /\ ok' \subseteq sent'
           /\ delivered' \subseteq 1..MaxEvents /\ \A k \in sent' : log[k] \in delivered'
  BY Zenon DEF IInv, LoopInv

\* The loop starts: a release of what was checkpointed before the restart.
LEMMA StartKeeps ==
    ASSUME IInv, Start
    PROVE  IInv'
<1>1. /\ pc = "start" /\ UNCHANGED <<wal, done>>
      /\ UNCHANGED <<store, released, latePuts, lateReleases>>
      /\ UNCHANGED <<log, calls, accepted, at, last, ready>>
      /\ UNCHANGED <<log, sent, ok, delivered>>
      /\ \/ committed > 0 /\ StartRelease(committed, "poll")
         \/ pc' = "poll" /\ UNCHANGED releasing
  BY Zenon DEF Start, world, late, batch, wal
<1>2. WalInv /\ releasing \in ReleaseCall /\ releasing.through <= committed /\ committed \in 0..committed
  BY DEF IInv, PeerInv, RequestInv, WalInv
<1>3. /\ releasing' \in ReleaseCall /\ releasing'.through <= committed
      /\ pc' = "poll" \/ (pc' = "release" /\ releasing'.then = "poll")
  <2>1. CASE StartRelease(committed, "poll")
    <3>1. /\ releasing' \in ReleaseCall /\ releasing'.through = committed
          /\ releasing'.then = "poll" /\ pc' = "release"
      BY <1>2, <2>1, ReleaseStarts, Zenon
    <3> QED BY <1>2, <3>1
  <2>2. CASE pc' = "poll" /\ UNCHANGED releasing
    BY <1>2, <2>2, Zenon
  <2> QED BY <1>1, <2>1, <2>2, Zenon
<1>4. WalInv' /\ PeerInv' /\ Onward
  BY <1>1, <1>3, WorldRests, Zenon
<1>5. pc \in Turns /\ pc' \in Turns /\ ~Delivering'
  BY <1>1, <1>3, Zenon DEF Turns, Delivering
<1>6. /\ sent' \subseteq 1..Len(log) /\ ok' \subseteq sent'
      /\ delivered' \subseteq 1..MaxEvents /\ \A k \in sent' : log[k] \in delivered'
  BY <1>1, SentRests, Zenon
<1> QED BY <1>1, <1>4, <1>5, <1>6, TurnKeeps, Zenon

\* Nothing is pending: a release.
LEMMA IdleKeeps ==
    ASSUME IInv, Idle
    PROVE  IInv'
<1>1. /\ pc = "poll" /\ UNCHANGED <<wal, done>>
      /\ UNCHANGED <<store, released, latePuts, lateReleases>>
      /\ UNCHANGED <<log, calls, accepted, at, last, ready>>
      /\ UNCHANGED <<log, sent, ok, delivered>>
      /\ StartRelease(committed, "poll")
  BY Zenon DEF Idle, world, late, batch, wal
<1>2. WalInv /\ committed \in 0..committed
  BY DEF IInv, WalInv
<1>3. /\ releasing' \in ReleaseCall /\ releasing'.through = committed
      /\ releasing'.then = "poll" /\ pc' = "release"
  BY <1>1, <1>2, ReleaseStarts, Zenon
<1>4. releasing'.through <= committed
  BY <1>2, <1>3
<1>5. WalInv' /\ PeerInv' /\ Onward
  BY <1>1, <1>3, <1>4, WorldRests, Zenon
<1>6. pc \in Turns /\ pc' \in Turns /\ ~Delivering'
  BY <1>1, <1>3, Zenon DEF Turns, Delivering
<1>7. /\ sent' \subseteq 1..Len(log) /\ ok' \subseteq sent'
      /\ delivered' \subseteq 1..MaxEvents /\ \A k \in sent' : log[k] \in delivered'
  BY <1>1, SentRests, Zenon
<1> QED BY <1>1, <1>5, <1>6, <1>7, TurnKeeps, Zenon

\* The broker takes a record of the batch.
LEMMA BrokerTakesKeeps ==
    ASSUME IInv, NEW k \in 1..MaxEvents, BrokerTakes(k)
    PROVE  IInv'
<1>1. /\ pc = "deliver" /\ pc' = "deliver" /\ k \in (committed + 1)..ready
      /\ sent' = sent \cup {k} /\ delivered' = delivered \cup {log[k]} /\ ok' = ok
      /\ UNCHANGED <<wal, done>> /\ UNCHANGED <<store, released, latePuts, lateReleases>>
      /\ UNCHANGED releasing
      /\ UNCHANGED <<log, calls, accepted, at, last, ready>>
  BY Zenon DEF BrokerTakes, late, wal
<1>2. releasing \in ReleaseCall /\ releasing.through <= committed
  BY Zenon DEF IInv, PeerInv, RequestInv
<1>3. WalInv' /\ PeerInv' /\ Onward
  BY <1>1, <1>2, WorldRests, Zenon
<1>4. pc \in Turns /\ pc' \in Turns /\ Delivering
  BY <1>1, Zenon DEF Turns, Delivering
<1>5. k \in 1..Len(log) /\ log[k] \in 1..MaxEvents
  <2>1. Len(log) \in Nat /\ DOMAIN log = 1..Len(log) /\ committed \in Nat /\ ready \in 0..Len(log)
        /\ log \in Seq(1..MaxEvents)
    BY DEF IInv, WalInv, LoopInv
  <2>2. k \in 1..Len(log)
    BY <1>1, <2>1
  <2> QED BY <2>1, <2>2, SeqElements, Zenon
<1>6. /\ sent \subseteq 1..Len(log) /\ ok \subseteq sent
      /\ delivered \subseteq 1..MaxEvents /\ \A j \in sent : log[j] \in delivered
  BY Zenon DEF IInv, LoopInv
<1>7. /\ sent' \subseteq 1..Len(log) /\ ok' \subseteq sent'
      /\ delivered' \subseteq 1..MaxEvents /\ \A j \in sent' : log[j] \in delivered'
  BY <1>1, <1>5, <1>6, Zenon
<1> QED BY <1>1, <1>3, <1>4, <1>7, TurnKeeps, Zenon

\* publishBatch returns its results.
LEMMA PublishReturnsKeeps ==
    ASSUME IInv, PublishReturns
    PROVE  IInv'
<1>1. /\ pc = "deliver" /\ pc' = "commit" /\ ok' \subseteq sent
      /\ UNCHANGED <<wal, done>> /\ UNCHANGED <<store, released, latePuts, lateReleases>>
      /\ UNCHANGED releasing /\ UNCHANGED <<sent, delivered>>
      /\ UNCHANGED <<log, calls, accepted, at, last, ready>>
  BY Zenon DEF PublishReturns, world, late, wal
<1>2. releasing \in ReleaseCall /\ releasing.through <= committed
  BY Zenon DEF IInv, PeerInv, RequestInv
<1>3. WalInv' /\ PeerInv' /\ Onward
  BY <1>1, <1>2, WorldRests, Zenon
<1>4. pc \in Turns /\ pc' \in Turns /\ Delivering
  BY <1>1, Zenon DEF Turns, Delivering
<1>5. /\ sent' \subseteq 1..Len(log) /\ ok' \subseteq sent'
      /\ delivered' \subseteq 1..MaxEvents /\ \A j \in sent' : log[j] \in delivered'
  BY <1>1, Zenon DEF IInv, LoopInv
<1> QED BY <1>1, <1>3, <1>4, <1>5, TurnKeeps, Zenon

\* The batch ends.
LEMMA CommitEndsKeeps ==
    ASSUME IInv, CommitEnds
    PROVE  IInv'
<1>1. /\ pc = "commit" /\ pc' = "poll"
      /\ UNCHANGED <<wal, done>> /\ UNCHANGED <<store, released, latePuts, lateReleases>>
      /\ UNCHANGED releasing /\ UNCHANGED <<log, sent, ok, delivered>>
      /\ UNCHANGED <<log, calls, accepted, at, last, ready>>
  BY Zenon DEF CommitEnds, world, late, batch, wal
<1>2. releasing \in ReleaseCall /\ releasing.through <= committed
  BY Zenon DEF IInv, PeerInv, RequestInv
<1>3. WalInv' /\ PeerInv' /\ Onward
  BY <1>1, <1>2, WorldRests, Zenon
<1>4. pc \in Turns /\ pc' \in Turns /\ ~Delivering'
  BY <1>1, Zenon DEF Turns, Delivering
<1>5. /\ sent' \subseteq 1..Len(log) /\ ok' \subseteq sent'
      /\ delivered' \subseteq 1..MaxEvents /\ \A j \in sent' : log[j] \in delivered'
  BY <1>1, SentRests, Zenon
<1> QED BY <1>1, <1>3, <1>4, <1>5, TurnKeeps, Zenon

\* Release returns to where it was called from.
LEMMA ReleaseReturnsKeeps ==
    ASSUME IInv, ReleaseReturns
    PROVE  IInv'
<1>1. /\ pc = "release" /\ pc' = releasing.then /\ releasing' = NoRelease
      /\ UNCHANGED <<wal, done>> /\ UNCHANGED <<store, released, latePuts, lateReleases>>
      /\ UNCHANGED <<log, sent, ok, delivered>>
      /\ UNCHANGED <<log, calls, accepted, at, last, ready>>
  BY Zenon DEF ReleaseReturns, world, late, batch, wal
<1>2. WalInv /\ releasing.then \in {"poll", "commit"}
  BY Zenon DEF IInv, PeerInv, RequestInv, ReleaseCall
<1>3. releasing' \in ReleaseCall /\ releasing'.through <= committed /\ releasing'.then = "poll"
  BY <1>1, <1>2, ConfigAssumption DEF NoRelease, ReleaseCall, WalInv
<1>4. WalInv' /\ PeerInv' /\ Onward
  BY <1>1, <1>3, WorldRests, Zenon
<1>5. pc \in Turns /\ pc' \in Turns /\ (Delivering' => Delivering)
  BY <1>1, <1>2, Zenon DEF Turns, Delivering
<1>6. /\ sent' \subseteq 1..Len(log) /\ ok' \subseteq sent'
      /\ delivered' \subseteq 1..MaxEvents /\ \A j \in sent' : log[j] \in delivered'
  BY <1>1, SentRests, Zenon
<1> QED BY <1>1, <1>4, <1>5, <1>6, TurnKeeps, Zenon

\* A record is checkpointed: the log moves on, the peers do not.
LEMMA CommitMoves ==
    ASSUME IInv, NextSucceeded, committed' = committed + 1, done' = done \cup {log[committed + 1]},
           UNCHANGED <<log, unsynced, attempts>>,
           UNCHANGED <<store, released, latePuts, lateReleases>>,
           releasing' \in ReleaseCall, releasing'.through <= committed'
    PROVE  WalInv' /\ PeerInv' /\ Onward
<1>1. WalInv /\ StoreInv /\ RequestInv /\ committed \in Nat
  BY DEF IInv, PeerInv, WalInv
<1>2. committed < Len(log)
  BY DEF IInv, LoopInv, WalInv, NextSucceeded
<1>3. /\ WalInv' /\ Surviving /\ Placing /\ committed <= committed' /\ done \subseteq done'
  BY <1>1, <1>2, WalCommits, Zenon
<1>4. StoreInv' /\ Grows
  BY <1>1, <1>3, StoresRest, Zenon
<1>5. \A m \in latePuts' : m.peer \in Peers /\ Placed(m.record)'
  BY <1>1, <1>3, Zenon DEF RequestInv, Placing
<1>6. \A m \in lateReleases' : m.peer \in Peers /\ m.through \in 0..committed'
  BY <1>1 DEF RequestInv
<1>7. RequestInv'
  BY <1>5, <1>6, Zenon DEF RequestInv
<1> QED BY <1>3, <1>4, <1>7, Zenon DEF PeerInv, Onward

\* The next record of the batch is committed.
LEMMA CommitNextKeeps ==
    ASSUME IInv, CommitNext
    PROVE  IInv'
<1>1. /\ pc = "commit" /\ NextSucceeded /\ committed' = committed + 1
      /\ done' = done \cup {log[committed + 1]}
      /\ StartRelease(committed', "commit") \/ UNCHANGED <<releasing, pc>>
      /\ UNCHANGED <<log, unsynced, attempts>>
      /\ UNCHANGED <<store, released, latePuts, lateReleases>>
      /\ UNCHANGED <<log, sent, ok, delivered>>
      /\ UNCHANGED <<log, calls, accepted, at, last, ready>>
  BY Zenon DEF CommitNext, world, late, batch
<1>2. /\ committed \in Nat /\ committed' \in 0..MaxEvents
      /\ releasing \in ReleaseCall /\ releasing.through <= committed /\ releasing.through \in Nat
  <2>1. committed \in Nat /\ committed < Len(log) /\ Len(log) <= MaxEvents /\ MaxEvents \in Nat
    BY <1>1, ConfigAssumption DEF IInv, LoopInv, WalInv, NextSucceeded
  <2>2. releasing \in ReleaseCall /\ releasing.through <= committed
    BY Zenon DEF IInv, PeerInv, RequestInv
  <2>3. releasing.through \in Nat
    BY <2>2, ConfigAssumption DEF ReleaseCall
  <2> QED BY <1>1, <2>1, <2>2, <2>3
<1>3. /\ releasing' \in ReleaseCall /\ releasing'.through <= committed'
      /\ pc' = "commit" \/ (pc' = "release" /\ releasing'.then = "commit")
  <2>1. CASE StartRelease(committed', "commit")
    <3>1. /\ releasing' = [through |-> committed', waiting |-> Peers, failed |-> FALSE, then |-> "commit"]
          /\ pc' = "release"
      BY <2>1, Zenon DEF StartRelease, ReleaseThrough
    <3> QED BY <1>2, <3>1 DEF ReleaseCall
  <2>2. CASE UNCHANGED <<releasing, pc>>
    BY <1>1, <1>2, <2>2
  <2> QED BY <1>1, <2>1, <2>2, Zenon
<1>4. WalInv' /\ PeerInv' /\ Onward
  BY <1>1, <1>3, CommitMoves, Zenon
<1>5. pc \in Turns /\ pc' \in Turns /\ Delivering
  BY <1>1, <1>3, Zenon DEF Turns, Delivering
<1>6. /\ sent' \subseteq 1..Len(log) /\ ok' \subseteq sent'
      /\ delivered' \subseteq 1..MaxEvents /\ \A j \in sent' : log[j] \in delivered'
  BY <1>1, SentRests, Zenon
<1> QED BY <1>1, <1>4, <1>5, <1>6, TurnKeeps, Zenon

\* A commit fails; the checkpoint is in or not.
LEMMA CommitFailsKeeps ==
    ASSUME IInv, CommitFails
    PROVE  IInv'
<1>1. /\ pc = "commit" /\ pc' = "poll" /\ NextSucceeded
      /\ \/ UNCHANGED <<committed, done>>
         \/ committed' = committed + 1 /\ done' = done \cup {log[committed + 1]}
      /\ UNCHANGED <<log, unsynced, attempts>> /\ UNCHANGED releasing
      /\ UNCHANGED <<store, released, latePuts, lateReleases>>
      /\ UNCHANGED <<log, sent, ok, delivered>>
      /\ UNCHANGED <<log, calls, accepted, at, last, ready>>
  BY Zenon DEF CommitFails, world, late, batch
<1>2. /\ releasing \in ReleaseCall /\ releasing.through <= committed /\ releasing.through \in Nat
      /\ committed \in Nat
  BY ConfigAssumption DEF IInv, PeerInv, RequestInv, ReleaseCall, WalInv
<1>3. WalInv' /\ PeerInv' /\ Onward
  <2>1. CASE UNCHANGED <<committed, done>>
    <3>1. UNCHANGED <<wal, done>>
      BY <1>1, <2>1, Zenon DEF wal
    <3> QED BY <1>1, <1>2, <3>1, WorldRests, Zenon
  <2>2. CASE committed' = committed + 1 /\ done' = done \cup {log[committed + 1]}
    <3>1. releasing' \in ReleaseCall /\ releasing'.through <= committed'
      BY <1>1, <1>2, <2>2
    <3> QED BY <1>1, <2>2, <3>1, CommitMoves, Zenon
  <2> QED BY <1>1, <2>1, <2>2, Zenon
<1>4. pc \in Turns /\ pc' \in Turns /\ ~Delivering'
  BY <1>1, Zenon DEF Turns, Delivering
<1>5. /\ sent' \subseteq 1..Len(log) /\ ok' \subseteq sent'
      /\ delivered' \subseteq 1..MaxEvents /\ \A j \in sent' : log[j] \in delivered'
  BY <1>1, SentRests, Zenon
<1> QED BY <1>1, <1>3, <1>4, <1>5, TurnKeeps, Zenon

\* The process starts again.
LEMMA RestartKeeps ==
    ASSUME IInv, Restart
    PROVE  IInv'
<1>1. /\ UNCHANGED <<wal, done>> /\ UNCHANGED <<store, released, latePuts, lateReleases>>
      /\ UNCHANGED releasing /\ UNCHANGED <<pc, batch, delivered, calls, accepted>>
  BY Zenon DEF Restart, world, late
<1>2. releasing \in ReleaseCall /\ releasing.through <= committed
  BY Zenon DEF IInv, PeerInv, RequestInv
<1>3. WalInv' /\ PeerInv' /\ Onward /\ committed' = committed
  BY <1>1, <1>2, WorldRests, Zenon
<1>4. Extends
  BY <1>1, LogRests, Zenon
<1> QED BY <1>1, <1>3, <1>4, QuietKeeps, Zenon

-----------------------------------------------------------------------------
(* The process goes.                                                       *)

\* The requests of the calls that die with the process were for records of the log.
LEMMA BackedIsPlaced ==
    ASSUME WalInv, NEW c, Backed(c)
    PROVE  Placed(calls[c].record) /\ calls[c].waiting \subseteq Peers
<1>1. /\ calls[c].record \in Record /\ calls[c].waiting \subseteq Peers
      /\ calls[c].record.seq \in DOMAIN log
      /\ calls[c].record.event = log[calls[c].record.seq]
  BY DEF Backed, Call, RecordAt
<1> QED BY <1>1, Zenon DEF Placed, WalInv

\* Nothing runs any more, whatever became of the log.
LEMMA ProcessGoneKeeps ==
    ASSUME IInv, WalInv', Surviving, Placing, committed <= committed', done \subseteq done',
           ProcessGone, UNCHANGED <<store, released, delivered, accepted>>
    PROVE  IInv'
<1>1. WalInv /\ StoreInv /\ RequestInv /\ CallInv /\ delivered \subseteq 1..MaxEvents
  BY Zenon DEF IInv, PeerInv, LoopInv
<1>2. StoreInv' /\ Grows
  BY <1>1, StoresRest, Zenon
<1>3. RequestInv'
  <2>1. \A m \in latePuts' : m.peer \in Peers /\ Placed(m.record)
    <3> SUFFICES ASSUME NEW c \in DOMAIN calls, NEW m \in Orphans(calls[c])
                 PROVE  m.peer \in Peers /\ Placed(m.record)
      BY <1>1, Zenon DEF ProcessGone, RequestInv
    <3>1. Placed(calls[c].record) /\ calls[c].waiting \subseteq Peers
      BY <1>1, BackedIsPlaced, Zenon DEF CallInv
    <3>2. m.peer \in calls[c].waiting /\ m.record = calls[c].record
      BY DEF Orphans
    <3> QED BY <3>1, <3>2, Zenon
  <2>2. \A m \in latePuts' : m.peer \in Peers /\ Placed(m.record)'
    BY <2>1, Zenon DEF Placing
  <2>3. releasing \in ReleaseCall /\ releasing.through \in 0..committed
    BY <1>1, ConfigAssumption DEF RequestInv, ReleaseCall, WalInv
  <2>4. \A m \in lateReleases' : m.peer \in Peers /\ m.through \in 0..committed
    <3>1. ASSUME NEW p \in releasing.waiting, NEW m, m = [peer |-> p, through |-> releasing.through]
          PROVE  m.peer \in Peers /\ m.through \in 0..committed
      BY <2>3, <3>1, Zenon DEF ReleaseCall
    <3> QED BY <1>1, <3>1, Zenon DEF ProcessGone, RequestInv
  <2>5. committed \in Nat /\ committed' \in Nat
    BY <1>1 DEF WalInv
  <2>6. \A x : x \in 0..committed => x \in 0..committed'
    BY <2>5
  <2>7. releasing' \in ReleaseCall /\ releasing'.through <= committed'
    BY <2>5, ConfigAssumption DEF ProcessGone, NoRelease, ReleaseCall
  <2> QED BY <2>2, <2>4, <2>6, <2>7, Zenon DEF RequestInv
<1>4. PeerInv' /\ Onward
  BY <1>2, <1>3, Zenon DEF PeerInv, Onward
<1>5. AcceptInv'
  BY <1>4, AcceptRests, Zenon
<1>6. DOMAIN calls' = {}
  BY DEF ProcessGone
<1>7. CallInv'
  BY <1>6, Zenon DEF CallInv
<1>8. LoopInv'
  <2>1. Len(log') \in Nat
    BY DEF WalInv
  <2>2. /\ pc' = "start" /\ at' = 0 /\ last' = 0 /\ ready' = 0 /\ sent' = {} /\ ok' = {}
        /\ delivered' = delivered
    BY Zenon DEF ProcessGone
  <2> QED BY <1>1, <1>6, <2>1, <2>2 DEF LoopInv, Delivering
<1> QED BY <1>4, <1>5, <1>7, <1>8, Zenon DEF IInv

\* The process is killed.
LEMMA KillKeeps ==
    ASSUME IInv, Kill
    PROVE  IInv'
<1>1. /\ ProcessGone /\ UNCHANGED <<store, released, delivered, accepted>> /\ UNCHANGED done
      /\ \/ UNCHANGED wal
         \/ /\ attempts < MaxEvents /\ attempts' = attempts + 1
            /\ log' = Append(log, attempts + 1) /\ unsynced' = unsynced + 1
            /\ UNCHANGED committed
  BY Zenon DEF Kill
<1>2. /\ WalInv' /\ Surviving /\ Placing /\ committed <= committed' /\ done \subseteq done'
  <2>1. CASE UNCHANGED wal
    BY <1>1, <2>1, LogRests, Zenon
  <2>2. CASE /\ attempts < MaxEvents /\ attempts' = attempts + 1
             /\ log' = Append(log, attempts + 1) /\ unsynced' = unsynced + 1
             /\ UNCHANGED committed
    <3>1. WalInv /\ unsynced' \in {0, unsynced + 1} /\ UNCHANGED <<committed, done>>
      BY <1>1, <2>2, Zenon DEF IInv
    <3> QED BY <2>2, <3>1, WalAppends, Zenon
  <2> QED BY <1>1, <2>1, <2>2, Zenon
<1> QED BY <1>1, <1>2, ProcessGoneKeeps, Zenon

\* The power fails.
LEMMA PowerLossKeeps ==
    ASSUME IInv, PowerLoss
    PROVE  IInv'
<1>1. /\ ProcessGone /\ UNCHANGED <<store, released, delivered, accepted>>
      /\ UNCHANGED <<committed, attempts, done>> /\ unsynced' = 0
  BY Zenon DEF PowerLoss
<1>2. PICK n \in committed..Len(log) : n >= Len(log) - unsynced /\ log' = SubSeq(log, 1, n)
  BY Zenon DEF PowerLoss
<1>3. WalInv
  BY Zenon DEF IInv
<1>4. /\ WalInv' /\ Surviving /\ Placing /\ committed <= committed' /\ done \subseteq done'
  BY <1>1, <1>2, <1>3, WalTruncates, Zenon
<1> QED BY <1>1, <1>4, ProcessGoneKeeps, Zenon

\* The publisher is closed.
LEMMA CloseKeeps ==
    ASSUME IInv, Close
    PROVE  IInv'
<1>1. /\ ProcessGone /\ UNCHANGED <<store, released, delivered, accepted>>
      /\ UNCHANGED <<log, committed, attempts, done>> /\ unsynced' \in {0, unsynced}
  BY Zenon DEF Close
<1>2. WalInv /\ Len(log) \in Nat /\ unsynced \in 0..Len(log) /\ committed \in Nat /\ DOMAIN log = 1..Len(log)
  BY DEF IInv, WalInv
<1>3. WalInv'
  BY <1>1, <1>2 DEF WalInv
<1>4. Surviving
  BY <1>1, <1>2 DEF Surviving, Synced
<1>5. Placing
  BY <1>1, Zenon DEF Placing, Placed
<1>6. committed <= committed' /\ done \subseteq done'
  BY <1>1, <1>2
<1> QED BY <1>1, <1>3, <1>4, <1>5, <1>6, ProcessGoneKeeps, Zenon

-----------------------------------------------------------------------------
(* Replicate.                                                              *)

\* A batch starts after the checkpoint and ends in the log.
LEMMA BatchBounds ==
    ASSUME WalInv, committed < Len(log)
    PROVE  BatchEnd \in 0..Len(log) /\ committed + 1 <= BatchEnd
<1>1. committed \in Nat /\ Len(log) \in Nat /\ committed + BatchSize \in Int /\ BatchSize >= 1
  BY ConfigAssumption DEF WalInv
<1> QED BY <1>1, ConfigAssumption DEF BatchEnd

\* A call of the loop for a record of the log is backed from the start.
LEMMA NewCallBacked ==
    ASSUME WalInv, WalInv', UNCHANGED log, NEW k \in DOMAIN log, calls'[Loop] = NewCall(k)
    PROVE  Backed(Loop)' /\ calls'[Loop].record.seq = k
<1>1. log[k] \in 1..MaxEvents
  BY SeqElements, Zenon DEF WalInv
<1>2. k \in 1..MaxEvents
  BY ConfigAssumption DEF WalInv
<1>3. NewCall(k) = [record |-> [seq |-> k, event |-> log[k]], waiting |-> Peers, acks |-> {}]
  BY Zenon DEF NewCall, RecordAt
<1>4. NewCall(k) \in Call /\ NewCall(k).record.seq = k /\ NewCall(k).acks = {}
      /\ NewCall(k).record = [seq |-> k, event |-> log[k]]
  BY <1>1, <1>2, <1>3 DEF Call, Record
<1>5. Loop \in Callers
  BY Zenon DEF Callers
<1> QED BY <1>4, <1>5, Zenon DEF Backed, RecordAt

\* Pending returns records: the first of them is replicated.
LEMMA PollKeeps ==
    ASSUME IInv, Poll
    PROVE  IInv'
<1>1. /\ committed < Len(log) /\ last' = BatchEnd /\ at' = committed + 1
      /\ calls' = CallsWith(Loop, NewCall(committed + 1)) /\ pc' = "replicate"
      /\ sent' = {} /\ ok' = {} /\ ready' = committed /\ UNCHANGED <<delivered, accepted>>
      /\ UNCHANGED <<wal, done>> /\ UNCHANGED <<store, released, latePuts, lateReleases>>
      /\ UNCHANGED releasing
  BY Zenon DEF Poll, world, late
<1>2. /\ WalInv /\ PeerInv /\ CallInv /\ releasing \in ReleaseCall /\ releasing.through <= committed
      /\ delivered \subseteq 1..MaxEvents
  BY Zenon DEF IInv, PeerInv, RequestInv, LoopInv
<1>3. WalInv' /\ PeerInv' /\ Onward /\ log' = log /\ committed' = committed
  BY <1>1, <1>2, WorldRests, Zenon
<1>4. Extends
  BY <1>3, Zenon DEF Extends
<1>5. AcceptInv'
  BY <1>1, <1>3, AcceptRests, Zenon
<1>6. committed \in Nat /\ Len(log) \in Nat /\ DOMAIN log = 1..Len(log)
  BY <1>2 DEF WalInv
<1>7. BatchEnd \in 0..Len(log) /\ committed + 1 <= BatchEnd
  BY <1>1, <1>2, BatchBounds, Zenon
<1>8. /\ DOMAIN calls' = DOMAIN calls \cup {Loop} /\ calls'[Loop] = NewCall(committed + 1)
      /\ \A c \in DOMAIN calls : c # Loop => calls'[c] = calls[c]
  BY <1>1, Zenon DEF CallsWith
<1>9. Backed(Loop)' /\ calls'[Loop].record.seq = committed + 1
  <2>1. PICK k : k = committed + 1
    BY Zenon
  <2>2. k \in DOMAIN log /\ calls'[Loop] = NewCall(k)
    BY <1>1, <1>6, <1>8, <2>1
  <2> QED BY <1>2, <1>3, <2>1, <2>2, NewCallBacked, Zenon
<1>10. CallInv'
  <2> SUFFICES ASSUME NEW c \in DOMAIN calls', c # Loop PROVE Backed(c)'
    BY <1>9, Zenon DEF CallInv
  <2>1. c \in DOMAIN calls /\ calls'[c] = calls[c] /\ Backed(c)
    BY <1>2, <1>8, Zenon DEF CallInv
  <2> QED BY <1>2, <1>3, <1>4, <2>1, BackedLasts, Zenon
<1>11. LoopInv'
  <2>1. Covered(at - 1)'
    <3>1. at' - 1 = committed
      BY <1>1, <1>6
    <3>2. \A j \in 1..committed : ~(committed < j)
      BY <1>6
    <3> QED BY <1>3, <3>1, <3>2, Zenon DEF Covered
  <2>2. /\ at' \in 0..Len(log') /\ last' \in 0..Len(log') /\ ready' \in 0..Len(log')
        /\ committed' < at' /\ at' <= last'
    BY <1>1, <1>3, <1>6, <1>7
  <2>3. ~Delivering'
    BY <1>1, Zenon DEF Delivering
  <2>4. Loop \in DOMAIN calls' /\ calls'[Loop].record.seq = at'
    BY <1>1, <1>8, <1>9, Zenon
  <2> QED BY <1>1, <1>2, <2>1, <2>2, <2>3, <2>4, Zenon DEF LoopInv
<1> QED BY <1>3, <1>5, <1>10, <1>11, Zenon DEF IInv

\* The call c with one answer more, or one request less, and the requests lost.
Answering(c, call, lost) ==
    /\ c \in DOMAIN calls
    /\ call \in Call
    /\ call.record = calls[c].record
    /\ call.acks \subseteq Holders(call.record.seq)'
    /\ \A m \in lost : m.peer \in Peers /\ m.record = call.record

\* What every step of a Replicate call has.
Replicating == UNCHANGED Elsewhere /\ StoreInv' /\ Grows

\* The log rests while a call is answered.
LEMMA ReplicatingRests ==
    ASSUME IInv, Replicating
    PROVE  /\ WalInv' /\ Extends /\ Placing /\ Onward
           /\ UNCHANGED <<log, committed, last, sent, ok, releasing, delivered, done>>
<1>1. UNCHANGED <<wal, done>> /\ UNCHANGED <<log, committed, last, sent, ok, releasing, delivered, done>>
  BY Zenon DEF Replicating, Elsewhere, wal
<1>2. /\ WalInv' /\ Extends /\ Surviving /\ Placing /\ committed <= committed' /\ done \subseteq done'
  BY <1>1, LogRests, Zenon
<1> QED BY <1>1, <1>2, Zenon DEF Onward, Replicating

\* The requests a call leaves behind are for its record.
LEMMA LeftBehind ==
    ASSUME IInv, Replicating, NEW c, NEW call, NEW lost, Answering(c, call, lost),
           latePuts' \subseteq latePuts \cup Orphans(call) \cup lost
    PROVE  PeerInv'
<1>1. /\ WalInv' /\ Placing /\ UNCHANGED <<log, committed, releasing>>
  BY ReplicatingRests, Zenon
<1>2. lateReleases' = lateReleases /\ StoreInv'
  BY Zenon DEF Replicating, Elsewhere
<1>3. WalInv /\ RequestInv /\ Backed(c)
  BY Zenon DEF IInv, PeerInv, CallInv, Answering
<1>4. Placed(call.record) /\ call.waiting \subseteq Peers
  <2>1. Placed(calls[c].record)
    BY <1>3, BackedIsPlaced, Zenon
  <2> QED BY <2>1, Zenon DEF Answering, Call
<1>5. ASSUME NEW m \in latePuts' PROVE m.peer \in Peers /\ Placed(m.record)
  <2>1. CASE m \in latePuts
    BY <1>3, <2>1, Zenon DEF RequestInv
  <2>2. CASE m \in Orphans(call)
    <3>1. m.peer \in call.waiting /\ m.record = call.record
      BY <2>2 DEF Orphans
    <3> QED BY <1>4, <3>1, Zenon
  <2>3. CASE m \in lost
    BY <1>4, <2>3, Zenon DEF Answering
  <2> QED BY <2>1, <2>2, <2>3, Zenon
<1>6. \A m \in latePuts' : m.peer \in Peers /\ Placed(m.record)'
  BY <1>1, <1>5, Zenon DEF Placing
<1>7. RequestInv'
  BY <1>1, <1>2, <1>3, <1>6, Zenon DEF RequestInv
<1> QED BY <1>2, <1>7, Zenon DEF PeerInv

\* A call with its quorum: so have the peers that hold its record.
LEMMA QuorumHolds ==
    ASSUME NEW c, NEW call, NEW lost, Answering(c, call, lost), Satisfied(call.acks)
    PROVE  Satisfied(Holders(call.record.seq)')
<1>1. call.acks \subseteq Holders(call.record.seq)' /\ Holders(call.record.seq)' \subseteq Peers
  BY Zenon DEF Answering, Holders
<1> QED BY <1>1, SatisfiedMonotone, Zenon

\* PublishWithReceipt returns to its client, with a receipt that stands on a
\* synced record and its quorum, or with an error.
LEMMA ClientReturnsKeeps ==
    ASSUME IInv, Replicating, NEW c, NEW call, NEW lost, Answering(c, call, lost), PeerInv',
           NEW satisfied \in BOOLEAN, satisfied => Satisfied(call.acks),
           c # Loop, ClientReturns(c, satisfied)
    PROVE  IInv'
<1>1. /\ WalInv' /\ Extends /\ Onward
      /\ UNCHANGED <<log, committed, last, sent, ok, releasing, delivered, done>>
  BY ReplicatingRests, Zenon
<1>2. /\ calls' = CallsWithout(c) /\ UNCHANGED <<pc, at, ready>>
      /\ accepted' = IF satisfied THEN accepted \cup {c} ELSE accepted
  BY Zenon DEF ClientReturns
<1>3. WalInv /\ PeerInv /\ CallInv /\ LoopInv /\ AcceptInv /\ Grows
  BY <1>1, Zenon DEF IInv, Onward
<1>4. DOMAIN calls' = DOMAIN calls \ {c} /\ \A d \in DOMAIN calls' : calls'[d] = calls[d]
  BY <1>2, Zenon DEF CallsWithout
<1>5. CallInv'
  <2> SUFFICES ASSUME NEW d \in DOMAIN calls' PROVE Backed(d)'
    BY Zenon DEF CallInv
  <2>1. Backed(d) /\ calls'[d] = calls[d]
    BY <1>3, <1>4, Zenon DEF CallInv
  <2> QED BY <1>1, <1>3, <2>1, BackedLasts, Zenon
<1>6. LoopInv'
  <2>1. /\ UNCHANGED <<pc, batch, delivered>> /\ releasing'.then = releasing.then
        /\ (Loop \in DOMAIN calls) <=> (Loop \in DOMAIN calls')
        /\ Loop \in DOMAIN calls => calls'[Loop].record = calls[Loop].record
        /\ pc = "replicate" => committed' = committed
    BY <1>1, <1>2, <1>4, Zenon DEF batch
  <2>2. committed <= committed'
    BY <1>1, Zenon DEF Onward
  <2> QED BY <1>1, <1>3, <2>1, <2>2, LoopRests, Zenon
<1>7. ASSUME satisfied PROVE c \in 1..MaxEvents /\ (c \in done \/ Kept(c))'
  <2> DEFINE k == call.record.seq
  <2>1. /\ calls[c].record = call.record /\ Backed(c)
    BY <1>3, Zenon DEF Answering, CallInv
  <2>2. /\ c \in Callers /\ k \in DOMAIN log /\ call.record = RecordAt(k)
        /\ call.record.event = c /\ k <= Synced
    BY <2>1, Zenon DEF Backed
  <2>3. log[k] = c /\ c \in 1..MaxEvents
    BY <2>2 DEF RecordAt, Callers
  <2>4. Satisfied(Holders(k)')
    BY <1>7, QuorumHolds, Zenon
  <2>5. k \in Nat /\ 1 <= k /\ committed \in Nat /\ Synced' \in Int /\ Synced' = Synced
    <3>1. k \in 1..Len(log) /\ Len(log) \in Nat /\ committed \in Nat /\ Synced \in Int
      BY <1>3, <2>2 DEF WalInv, Synced
    <3>2. Synced' = Synced
      BY Zenon DEF Replicating, Elsewhere, wal, Synced
    <3> QED BY <3>1, <3>2
  <2>6. CASE k <= committed
    <3>1. k \in 1..committed
      BY <2>5, <2>6
    <3> QED BY <1>1, <1>3, <2>3, <3>1, Zenon DEF WalInv
  <2>7. CASE ~(k <= committed)
    <3>1. k \in 1..Synced' /\ committed' < k /\ log'[k] = c
      BY <1>1, <2>2, <2>3, <2>5, <2>7
    <3> HIDE DEF k
    <3> QED BY <2>3, <2>4, <3>1, Zenon DEF Kept
  <2> QED BY <2>3, <2>6, <2>7, Zenon
<1>8. AcceptInv'
  <2>1. ASSUME NEW e \in accepted PROVE (e \in done \/ Kept(e))'
    <3>1. e \in done \/ Kept(e)
      BY <1>3, Zenon DEF AcceptInv
    <3> QED BY <1>1, <1>3, <3>1, AcceptedLasts, Zenon
  <2>2. accepted \subseteq 1..MaxEvents
    BY <1>3, Zenon DEF AcceptInv
  <2> QED BY <1>2, <1>7, <2>1, <2>2, Zenon DEF AcceptInv
<1> QED BY <1>1, <1>5, <1>6, <1>8, Zenon DEF IInv

\* The replay loop goes on to the next record, or delivers what has its quorum.
LEMMA LoopReturnsKeeps ==
    ASSUME IInv, Replicating, NEW call, NEW lost, Answering(Loop, call, lost), PeerInv',
           NEW satisfied \in BOOLEAN, satisfied => Satisfied(call.acks), LoopReturns(satisfied)
    PROVE  IInv'
<1>1. /\ WalInv' /\ Extends /\ Onward
      /\ UNCHANGED <<log, committed, last, sent, ok, releasing, delivered, done>>
  BY ReplicatingRests, Zenon
<1>2. /\ WalInv /\ PeerInv /\ CallInv /\ LoopInv /\ Grows /\ UNCHANGED accepted
      /\ committed <= committed'
  BY <1>1, Zenon DEF IInv, Onward, LoopReturns
<1>3. AcceptInv'
  BY <1>1, <1>2, AcceptRests, Zenon
<1>4. /\ Loop \in DOMAIN calls /\ pc = "replicate" /\ call.record.seq = at
      /\ committed < at /\ at <= last /\ Covered(at - 1)
  BY <1>2, Zenon DEF Answering, LoopInv
<1>5. /\ committed \in Nat /\ at \in Nat /\ last \in Nat /\ Len(log) \in Nat /\ at <= Len(log)
      /\ last <= Len(log) /\ DOMAIN log = 1..Len(log)
  BY <1>2 DEF WalInv, LoopInv
<1>6. PICK n, b : n = at /\ b = at - 1
  BY Zenon
<1>7. Covered(b)'
  <2>1. Covered(b) /\ b \in 0..Len(log)
    BY <1>4, <1>5, <1>6
  <2> QED BY <1>1, <1>2, <2>1, CoveredLasts, Zenon
<1>8. ASSUME satisfied PROVE Covered(n)'
  <2>1. Satisfied(Holders(n)')
    BY <1>4, <1>6, <1>8, QuorumHolds, Zenon
  <2>2. \A j \in 1..n : j \in 1..b \/ j = n
    BY <1>5, <1>6
  <2> QED BY <1>7, <2>1, <2>2, Zenon DEF Covered
<1>9. ASSUME NEW d \in DOMAIN calls, d # Loop, calls'[d] = calls[d] PROVE Backed(d)'
  <2>1. Backed(d)
    BY <1>2, Zenon DEF CallInv
  <2> QED BY <1>1, <1>2, <1>9, <2>1, BackedLasts, Zenon
<1>10. CASE satisfied /\ at < last
  <2>1. at' = at + 1 /\ calls' = CallsWith(Loop, NewCall(at + 1)) /\ UNCHANGED <<pc, ready>>
    BY <1>10, Zenon DEF LoopReturns
  <2>2. PICK k : k = at + 1
    BY Zenon
  <2>3. k \in DOMAIN log /\ calls' = CallsWith(Loop, NewCall(k))
    BY <1>5, <1>10, <2>1, <2>2
  <2>4. /\ DOMAIN calls' = DOMAIN calls \cup {Loop} /\ calls'[Loop] = NewCall(k)
        /\ \A d \in DOMAIN calls : d # Loop => calls'[d] = calls[d]
    BY <2>3, Zenon DEF CallsWith
  <2>5. Backed(Loop)' /\ calls'[Loop].record.seq = k
    BY <1>1, <1>2, <2>3, <2>4, NewCallBacked, Zenon
  <2>6. CallInv'
    BY <1>9, <2>4, <2>5, Zenon DEF CallInv
  <2>7. Covered(at - 1)'
    <3>1. at' - 1 = n
      BY <1>5, <1>6, <2>1
    <3> QED BY <1>8, <1>10, <3>1, Zenon
  <2>8. /\ at' \in 0..Len(log') /\ committed' < at' /\ at' <= last'
    BY <1>1, <1>4, <1>5, <1>10, <2>1
  <2>9. ~Delivering'
    BY <1>4, <2>1, Zenon DEF Delivering
  <2>10. /\ last' \in 0..Len(log') /\ ready' \in 0..Len(log')
         /\ sent' \subseteq 1..Len(log') /\ ok' \subseteq sent' /\ delivered' \subseteq 1..MaxEvents
         /\ \A j \in sent' : log'[j] \in delivered'
    BY <1>1, <1>2, <2>1, Zenon DEF LoopInv
  <2>11. LoopInv'
    BY <1>4, <2>1, <2>2, <2>4, <2>5, <2>7, <2>8, <2>9, <2>10, Zenon DEF LoopInv
  <2> QED BY <1>1, <1>3, <2>6, <2>11, Zenon DEF IInv
<1>11. CASE ~(satisfied /\ at < last)
  <2>1. /\ calls' = CallsWithout(Loop) /\ ready' = ReadyAfter(satisfied) /\ at' = at
        /\ pc' \in {"deliver", "poll"}
    BY <1>11, Zenon DEF LoopReturns
  <2>2. DOMAIN calls' = DOMAIN calls \ {Loop} /\ \A d \in DOMAIN calls' : calls'[d] = calls[d]
    BY <2>1, Zenon DEF CallsWithout
  <2>3. CallInv'
    BY <1>9, <2>2, Zenon DEF CallInv
  <2>4. ready' \in 0..Len(log') /\ Covered(ready)'
    <3>1. CASE satisfied
      <4>1. ready' = n
        BY <1>4, <1>5, <1>6, <1>11, <2>1, <3>1 DEF ReadyAfter
      <4>2. Covered(n)'
        BY <1>8, <3>1, Zenon
      <4> QED BY <1>1, <1>5, <1>6, <4>1, <4>2
    <3>2. CASE ~satisfied
      <4>1. ready' = b
        BY <1>6, <2>1, <3>2, Zenon DEF ReadyAfter
      <4> QED BY <1>1, <1>4, <1>5, <1>6, <1>7, <4>1
    <3> QED BY <3>1, <3>2, Zenon
  <2>5. /\ last' \in 0..Len(log') /\ at' \in 0..Len(log')
        /\ sent' \subseteq 1..Len(log') /\ ok' \subseteq sent' /\ delivered' \subseteq 1..MaxEvents
        /\ \A j \in sent' : log'[j] \in delivered'
    BY <1>1, <1>2, <2>1, Zenon DEF LoopInv
  <2>6. LoopInv'
    BY <2>1, <2>2, <2>4, <2>5, Zenon DEF LoopInv
  <2> QED BY <1>1, <1>3, <2>3, <2>6, Zenon DEF IInv
<1> QED BY <1>10, <1>11, Zenon

\* A call returns, to its client or to the loop.
LEMMA ReturnsKeeps ==
    ASSUME IInv, Replicating, NEW c, NEW call, NEW lost, Answering(c, call, lost),
           NEW satisfied \in BOOLEAN, satisfied => Satisfied(call.acks),
           Returns(c, call, satisfied, lost)
    PROVE  IInv'
<1>1. PeerInv'
  <2>1. latePuts' \subseteq latePuts \cup Orphans(call) \cup lost
    BY Zenon DEF Returns
  <2> QED BY <2>1, LeftBehind, Zenon
<1>2. CASE c = Loop
  <2>1. LoopReturns(satisfied) /\ Answering(Loop, call, lost)
    BY <1>2, Zenon DEF Returns
  <2> QED BY <1>1, <2>1, LoopReturnsKeeps, Zenon
<1>3. CASE c # Loop
  <2>1. ClientReturns(c, satisfied)
    BY <1>3, Zenon DEF Returns
  <2> QED BY <1>1, <1>3, <2>1, ClientReturnsKeeps, Zenon
<1> QED BY <1>2, <1>3, Zenon

\* An answer that completes a call, or that leaves it waiting.
LEMMA AnsweredKeeps ==
    ASSUME IInv, Replicating, NEW c, NEW call, NEW lost, Answering(c, call, lost),
           Answered(c, call, lost)
    PROVE  IInv'
<1>1. CASE Satisfied(call.acks)
  <2>1. Returns(c, call, TRUE, lost)
    BY <1>1, Zenon DEF Answered
  <2> QED BY <1>1, <2>1, ReturnsKeeps, Zenon
<1>2. CASE ~Satisfied(call.acks) /\ call.waiting = {}
  <2>1. Returns(c, call, FALSE, lost)
    BY <1>2, Zenon DEF Answered
  <2> QED BY <2>1, ReturnsKeeps, Zenon
<1>3. CASE ~Satisfied(call.acks) /\ call.waiting # {}
  <2>1. /\ calls' = CallsWith(c, call) /\ latePuts' = latePuts \cup lost
        /\ UNCHANGED <<accepted, pc, at, ready>>
    BY <1>3, Zenon DEF Answered
  <2>2. PeerInv'
    <3>1. latePuts' \subseteq latePuts \cup Orphans(call) \cup lost
      BY <2>1, Zenon
    <3> QED BY <3>1, LeftBehind, Zenon
  <2>3. /\ WalInv' /\ Extends /\ Onward
        /\ UNCHANGED <<log, committed, last, sent, ok, releasing, delivered, done>>
    BY ReplicatingRests, Zenon
  <2>4. WalInv /\ PeerInv /\ CallInv /\ LoopInv /\ Grows /\ committed <= committed'
    BY <2>3, Zenon DEF IInv, Onward
  <2>5. AcceptInv'
    BY <2>1, <2>2, <2>3, AcceptRests, Zenon
  <2>6. /\ DOMAIN calls' = DOMAIN calls \cup {c} /\ calls'[c] = call /\ c \in DOMAIN calls
        /\ \A d \in DOMAIN calls : d # c => calls'[d] = calls[d]
    BY <2>1, Zenon DEF CallsWith, Answering
  <2>7. Backed(c)'
    <3> DEFINE k == call.record.seq
    <3>1. /\ calls[c].record = call.record /\ Backed(c) /\ call \in Call
          /\ call.acks \subseteq Holders(k)'
      BY <2>4, Zenon DEF Answering, CallInv
    <3>2. /\ c \in Callers /\ k \in DOMAIN log /\ call.record = RecordAt(k)
          /\ (c # Loop => call.record.event = c /\ k <= Synced)
      BY <3>1, Zenon DEF Backed
    <3>3. RecordAt(k)' = RecordAt(k)
      BY <2>3, Zenon DEF RecordAt
    <3>4. Synced' = Synced
      BY Zenon DEF Replicating, Elsewhere, wal, Synced
    <3> QED BY <2>3, <2>6, <3>1, <3>2, <3>3, <3>4, Zenon DEF Backed
  <2>8. CallInv'
    <3> SUFFICES ASSUME NEW d \in DOMAIN calls', d # c PROVE Backed(d)'
      BY <2>7, Zenon DEF CallInv
    <3>1. Backed(d) /\ calls'[d] = calls[d]
      BY <2>4, <2>6, Zenon DEF CallInv
    <3> QED BY <2>2, <2>3, <2>4, <3>1, BackedLasts, Zenon
  <2>9. LoopInv'
    <3>1. /\ UNCHANGED <<pc, batch, delivered>> /\ releasing'.then = releasing.then
          /\ (Loop \in DOMAIN calls) <=> (Loop \in DOMAIN calls')
          /\ Loop \in DOMAIN calls => calls'[Loop].record = calls[Loop].record
          /\ pc = "replicate" => committed' = committed
      BY <2>1, <2>3, <2>6, Zenon DEF batch, Answering
    <3> QED BY <2>2, <2>3, <2>4, <3>1, LoopRests, Zenon
  <2> QED BY <2>2, <2>3, <2>5, <2>8, <2>9, Zenon DEF IInv
<1> QED BY <1>1, <1>2, <1>3, Zenon

\* The acknowledgements of a call so far are of holders after the step as well.
LEMMA AcksLast ==
    ASSUME IInv, Replicating, NEW c \in DOMAIN calls
    PROVE  /\ calls[c] \in Call
           /\ \A k : k = calls[c].record.seq => calls[c].acks \subseteq Holders(k)'
<1>1. Backed(c) /\ WalInv /\ PeerInv
  BY Zenon DEF IInv, CallInv
<1>2. calls[c] \in Call
  BY <1>1, Zenon DEF Backed
<1>3. ASSUME NEW k, k = calls[c].record.seq PROVE calls[c].acks \subseteq Holders(k)'
  <2>1. k \in DOMAIN log /\ calls[c].acks \subseteq Holders(k)
    BY <1>1, <1>3, Zenon DEF Backed
  <2>2. k \in Nat /\ released \in [Peers -> 0..MaxEvents] /\ released' \in [Peers -> 0..MaxEvents]
    BY <1>1, <2>1 DEF WalInv, PeerInv, StoreInv, Replicating
  <2>3. log'[k] = log[k] /\ Grows
    BY ReplicatingRests, Zenon DEF Onward
  <2>4. Holders(k) \subseteq Holders(k)'
    BY <2>2, <2>3, HoldersGrow, Zenon
  <2> QED BY <2>1, <2>4, Zenon
<1> QED BY <1>2, <1>3, Zenon

\* A peer stores the record, and its answer arrives.
LEMMA PeerAcksAnswers ==
    ASSUME IInv, NEW c \in Callers, NEW p \in Peers, PeerAcks(c, p)
    PROVE  \E call : Replicating /\ Answering(c, call, {}) /\ Answered(c, call, {})
<1>1. PICK call : call = [calls[c] EXCEPT !.waiting = @ \ {p}, !.acks = @ \cup {p}]
  BY Zenon
<1>2. /\ c \in DOMAIN calls /\ ~Conflicts(p, calls[c].record)
      /\ store' = AfterPut(p, calls[c].record) /\ Answered(c, call, {})
      /\ UNCHANGED Elsewhere
  BY <1>1, Zenon DEF PeerAcks
<1>3. UNCHANGED <<wal, done>> /\ UNCHANGED <<committed, released>>
  BY <1>2, Zenon DEF Elsewhere, wal
<1>4. WalInv' /\ Placing
  BY <1>3, LogRests, Zenon
<1>5. WalInv /\ StoreInv /\ Backed(c)
  BY <1>2, Zenon DEF IInv, PeerInv, CallInv
<1>6. PICK r : r = calls[c].record
  BY Zenon
<1>7. Placed(r)
  BY <1>5, <1>6, BackedIsPlaced, Zenon
<1>8. /\ StoreInv' /\ Grows /\ (released[p] >= r.seq \/ r \in store'[p])
  BY <1>2, <1>3, <1>4, <1>5, <1>6, <1>7, PutKeeps, Zenon
<1>9. Replicating
  BY <1>2, <1>8, Zenon DEF Replicating
<1>10. calls[c] \in Call /\ calls[c].acks \subseteq Holders(r.seq)'
  BY <1>2, <1>6, <1>9, AcksLast, Zenon
<1>11. p \in Holders(r.seq)'
  <2>1. r = RecordAt(r.seq) /\ log' = log /\ released' = released
    BY <1>3, <1>5, <1>6, Zenon DEF Backed, wal
  <2>2. RecordAt(r.seq)' = r
    BY <2>1, Zenon DEF RecordAt
  <2> QED BY <1>8, <2>1, <2>2, Zenon DEF Holders
<1>12. Answering(c, call, {})
  <2>1. call \in Call /\ call.record = r /\ call.acks = calls[c].acks \cup {p}
    BY <1>1, <1>6, <1>10, Zenon DEF Call
  <2> QED BY <1>2, <1>6, <1>10, <1>11, <2>1, Zenon DEF Answering
<1> QED BY <1>2, <1>9, <1>12, Zenon

\* A request less, whether refused, failed or given up: the stores rest.
LEMMA RequestGone ==
    ASSUME IInv, UNCHANGED Elsewhere, UNCHANGED store, NEW c \in DOMAIN calls, NEW p, NEW call,
           call \in {calls[c], [calls[c] EXCEPT !.waiting = @ \ {p}]}, NEW lost,
           \A m \in lost : m.peer \in Peers /\ m.record = calls[c].record
    PROVE  Replicating /\ Answering(c, call, lost)
<1>1. UNCHANGED <<wal, done>> /\ UNCHANGED <<store, released>>
  BY Zenon DEF Elsewhere
<1>2. WalInv' /\ Placing /\ committed <= committed'
  BY <1>1, LogRests, Zenon
<1>3. WalInv /\ StoreInv
  BY Zenon DEF IInv, PeerInv
<1>4. StoreInv' /\ Grows
  BY <1>1, <1>2, <1>3, StoresRest, Zenon
<1>5. Replicating
  BY <1>4, Zenon DEF Replicating
<1>6. PICK k : k = calls[c].record.seq
  BY Zenon
<1>7. calls[c] \in Call /\ calls[c].acks \subseteq Holders(k)'
  BY <1>5, <1>6, AcksLast, Zenon
<1>8. call \in Call /\ call.record = calls[c].record /\ call.acks = calls[c].acks
  BY <1>7, Zenon DEF Call
<1>9. Answering(c, call, lost)
  BY <1>6, <1>7, <1>8, Zenon DEF Answering
<1> QED BY <1>5, <1>9, Zenon

\* A peer answers 409.
LEMMA PeerRefusesAnswers ==
    ASSUME IInv, NEW c \in Callers, NEW p \in Peers, PeerRefuses(c, p)
    PROVE  /\ UNCHANGED store
           /\ \E call : Replicating /\ Answering(c, call, {}) /\ Answered(c, call, {})
<1>1. PICK call : call = [calls[c] EXCEPT !.waiting = @ \ {p}]
  BY Zenon
<1>2. /\ c \in DOMAIN calls /\ Answered(c, call, {})
      /\ UNCHANGED Elsewhere /\ UNCHANGED store
  BY <1>1, Zenon DEF PeerRefuses
<1>3. Replicating /\ Answering(c, call, {})
  BY <1>1, <1>2, RequestGone
<1> QED BY <1>2, <1>3, Zenon

\* A peer fails, or its answer is lost.
LEMMA PeerFailsAnswers ==
    ASSUME IInv, NEW c \in Callers, NEW p \in Peers, PeerFails(c, p)
    PROVE  /\ UNCHANGED store
           /\ \E call, lost : Replicating /\ Answering(c, call, lost) /\ Answered(c, call, lost)
<1>1. PICK call : call = [calls[c] EXCEPT !.waiting = @ \ {p}]
  BY Zenon
<1>2. PICK lost : lost = {[peer |-> p, record |-> calls[c].record]}
  BY Zenon
<1>3. /\ c \in DOMAIN calls /\ Answered(c, call, lost)
      /\ UNCHANGED Elsewhere /\ UNCHANGED store
  BY <1>1, <1>2, Zenon DEF PeerFails
<1>4. \A m \in lost : m.peer \in Peers /\ m.record = calls[c].record
  BY <1>2
<1>5. Replicating /\ Answering(c, call, lost)
  BY <1>1, <1>3, <1>4, RequestGone, Zenon
<1> QED BY <1>3, <1>5, Zenon

\* The call times out.
LEMMA TimeoutReturns ==
    ASSUME IInv, NEW c \in Callers, ReplicateTimeout(c)
    PROVE  /\ UNCHANGED store
           /\ \E call : Replicating /\ Answering(c, call, {}) /\ Returns(c, call, FALSE, {})
<1>1. PICK call : call = calls[c]
  BY Zenon
<1>2. /\ c \in DOMAIN calls /\ Returns(c, call, FALSE, {})
      /\ UNCHANGED Elsewhere /\ UNCHANGED store
  BY <1>1, Zenon DEF ReplicateTimeout
<1>3. Replicating /\ Answering(c, call, {})
  BY <1>1, <1>2, RequestGone
<1> QED BY <1>2, <1>3, Zenon

\* Every step of a Replicate call.
LEMMA ReplicateKeeps ==
    ASSUME IInv, NEW c \in Callers,
           \/ ReplicateTimeout(c)
           \/ \E p \in Peers : PeerAcks(c, p) \/ PeerRefuses(c, p) \/ PeerFails(c, p)
    PROVE  IInv'
<1>1. CASE ReplicateTimeout(c)
  <2>1. PICK call : Replicating /\ Answering(c, call, {}) /\ Returns(c, call, FALSE, {})
    BY <1>1, TimeoutReturns, Zenon
  <2> QED BY <2>1, ReturnsKeeps, Zenon
<1>2. ASSUME NEW p \in Peers, PeerAcks(c, p) \/ PeerRefuses(c, p) \/ PeerFails(c, p)
      PROVE  IInv'
  <2>1. PICK call, lost : Replicating /\ Answering(c, call, lost) /\ Answered(c, call, lost)
    BY <1>2, PeerAcksAnswers, PeerRefusesAnswers, PeerFailsAnswers, Zenon
  <2> QED BY <2>1, AnsweredKeeps, Zenon
<1> QED BY <1>1, <1>2, Zenon

-----------------------------------------------------------------------------
(* The theorems.                                                           *)

\* Nothing is in the log at first.
LEMMA InitHolds ==
    ASSUME Init
    PROVE  IInv
<1>1. /\ log = <<>> /\ committed = 0 /\ unsynced = 0 /\ attempts = 0 /\ done = {} /\ accepted = {}
      /\ calls = <<>> /\ pc = "start" /\ at = 0 /\ last = 0 /\ ready = 0 /\ sent = {} /\ ok = {}
      /\ releasing = NoRelease /\ latePuts = {} /\ lateReleases = {} /\ delivered = {}
      /\ store = [p \in Peers |-> {}] /\ released = [p \in Peers |-> 0]
  BY Zenon DEF Init
<1>2. MaxEvents \in Nat /\ Len(log) = 0 /\ DOMAIN log = {} /\ DOMAIN calls = {}
  BY <1>1, ConfigAssumption
<1>3. WalInv
  BY <1>1, <1>2 DEF WalInv
<1>4. PeerInv
  BY <1>1, <1>2 DEF PeerInv, StoreInv, RequestInv, NoRelease, ReleaseCall
<1>5. CallInv
  BY <1>2, Zenon DEF CallInv
<1>6. LoopInv
  BY <1>1, <1>2 DEF LoopInv, Delivering
<1>7. AcceptInv
  BY <1>1, Zenon DEF AcceptInv
<1> QED BY <1>3, <1>4, <1>5, <1>6, <1>7, Zenon DEF IInv

\* A step that changes nothing.
LEMMA StutterKeeps ==
    ASSUME IInv, UNCHANGED vars
    PROVE  IInv'
<1>1. /\ UNCHANGED <<wal, done>> /\ UNCHANGED <<store, released, latePuts, lateReleases>>
      /\ UNCHANGED releasing /\ UNCHANGED <<pc, batch, delivered, calls, accepted>>
  BY Zenon DEF vars, process, batch, world, late
<1>2. releasing \in ReleaseCall /\ releasing.through <= committed
  BY Zenon DEF IInv, PeerInv, RequestInv
<1>3. WalInv' /\ PeerInv' /\ Onward /\ committed' = committed
  BY <1>1, <1>2, WorldRests, Zenon
<1>4. Extends
  BY <1>1, LogRests, Zenon
<1> QED BY <1>1, <1>3, <1>4, QuietKeeps, Zenon

\* Every step keeps the invariant.
LEMMA NextKeeps ==
    ASSUME IInv, [Next]_vars
    PROVE  IInv'
<1>1. CASE Publish
  BY <1>1, PublishKeeps, Zenon
<1>2. CASE PublishFails
  BY <1>2, PublishFailsKeeps, Zenon
<1>3. ASSUME NEW c \in Callers, \/ ReplicateTimeout(c)
                              \/ \E p \in Peers : PeerAcks(c, p) \/ PeerRefuses(c, p) \/ PeerFails(c, p)
      PROVE  IInv'
  BY <1>3, ReplicateKeeps, Zenon
<1>4. ASSUME NEW m \in latePuts, LatePut(m) PROVE IInv'
  BY <1>4, LatePutKeeps, Zenon
<1>5. ASSUME NEW m \in lateReleases, LateRelease(m) PROVE IInv'
  BY <1>5, LateReleaseKeeps, Zenon
<1>6. CASE Start
  BY <1>6, StartKeeps, Zenon
<1>7. CASE Poll
  BY <1>7, PollKeeps, Zenon
<1>8. CASE Idle
  BY <1>8, IdleKeeps, Zenon
<1>9. ASSUME NEW k \in 1..MaxEvents, BrokerTakes(k) PROVE IInv'
  BY <1>9, BrokerTakesKeeps, Zenon
<1>10. CASE PublishReturns
  BY <1>10, PublishReturnsKeeps, Zenon
<1>11. CASE CommitNext
  BY <1>11, CommitNextKeeps, Zenon
<1>12. CASE CommitFails
  BY <1>12, CommitFailsKeeps, Zenon
<1>13. CASE CommitEnds
  BY <1>13, CommitEndsKeeps, Zenon
<1>14. ASSUME NEW p \in Peers, ReleaseAnswered(p) PROVE IInv'
  BY <1>14, ReleaseAnsweredKeeps, Zenon
<1>15. CASE ReleaseReturns
  BY <1>15, ReleaseReturnsKeeps, Zenon
<1>16. CASE Kill \/ PowerLoss \/ Close \/ Restart
  BY <1>16, KillKeeps, PowerLossKeeps, CloseKeeps, RestartKeeps, Zenon
<1>17. CASE UNCHANGED vars
  BY <1>17, StutterKeeps, Zenon
<1> QED BY <1>1, <1>2, <1>3, <1>4, <1>5, <1>6, <1>7, <1>8, <1>9,
           <1>10, <1>11, <1>12, <1>13, <1>14, <1>15, <1>16, <1>17, Zenon DEF Next

\* The inductive invariant holds of every behaviour of the edge.
THEOREM Invariance == Spec => []IInv
  BY InitHolds, NextKeeps, PTL DEF Spec

\* What the invariant says of a receipt.
LEMMA InvariantIsQuorum ==
    ASSUME IInv
    PROVE  AcceptedKeepsQuorum
<1>1. TypeOK
  <2>1. \A c \in DOMAIN calls : /\ c \in Callers
                                /\ calls[c].record \in Record
                                /\ calls[c].waiting \subseteq Peers
                                /\ calls[c].acks \subseteq Peers
    <3> TAKE c \in DOMAIN calls
    <3>1. c \in Callers /\ calls[c] \in Call
      BY Zenon DEF IInv, CallInv, Backed
    <3> QED BY <3>1, Zenon DEF Call
  <2>2. WalInv /\ StoreInv /\ LoopInv
    BY Zenon DEF IInv, PeerInv
  <2> QED BY <2>1, <2>2, Zenon DEF TypeOK, WalInv, StoreInv, LoopInv
<1>2. ASSUME NEW e \in accepted \ done
      PROVE  \E k \in (committed + 1)..Len(log) : log[k] = e /\ Satisfied(Holders(k))
  <2>1. Kept(e)
    BY Zenon DEF IInv, AcceptInv
  <2>2. PICK k \in 1..Synced : committed < k /\ log[k] = e /\ Satisfied(Holders(k))
    BY <2>1, Zenon DEF Kept
  <2>3. k \in (committed + 1)..Len(log)
    BY <2>2 DEF IInv, WalInv, Synced
  <2> QED BY <2>2, <2>3, Zenon
<1> QED BY <1>1, <1>2, Zenon DEF AcceptedKeepsQuorum

\* A receipt is never weakened afterwards: an event that PublishWithReceipt has
\* acknowledged and whose delivery is not checkpointed keeps copies that satisfy
\* the durability policy, for any peers and policy and however many events,
\* crashes, lost requests and late ones there are.
THEOREM ReceiptsHold == Spec => []AcceptedKeepsQuorum
  BY Invariance, InvariantIsQuorum, PTL

-----------------------------------------------------------------------------
(* The refinement.                                                         *)

\* What the contract sees of the copies.
Copies == [e \in 1..MaxEvents |-> Holding(e)]

\* A step that changes nothing the contract sees.
LEMMA NothingSeen ==
    ASSUME UNCHANGED <<log, store, accepted, delivered, done>>
    PROVE  UNCHANGED Contract!vars
<1>1. \A e : Holding(e)' = Holding(e)
  BY Zenon DEF Holding
<1>2. Copies' = Copies
  BY <1>1, Zenon DEF Copies
<1> QED BY <1>2, Zenon DEF Contract!vars, Copies

\* The local copy and the copies of the peers.
LEMMA WhoHolds ==
    ASSUME NEW e
    PROVE  /\ Local \in Holding(e) <=> \E k \in 1..Len(log) : log[k] = e
           /\ \A p \in Peers : p \in Holding(e) <=> \E r \in store[p] : r.event = e
           /\ Holding(e) \subseteq Nodes
<1>1. Local \notin Peers
  BY ConfigAssumption, Zenon DEF ConfigValid
<1>2. Holding(e) \subseteq Peers \cup {Local}
  BY Zenon DEF Holding
<1>3. Local \in Holding(e) <=> \E k \in 1..Len(log) : log[k] = e
  BY <1>1, Zenon DEF Holding
<1>4. \A p \in Peers : p \in Holding(e) <=> \E r \in store[p] : r.event = e
  BY <1>1, Zenon DEF Holding
<1> QED BY <1>2, <1>3, <1>4, Zenon DEF Nodes

\* An append is Persist: the log had the event nowhere.
LEMMA AppendMaps ==
    ASSUME IInv, attempts < MaxEvents, log' = Append(log, attempts + 1),
           UNCHANGED <<store, accepted, delivered, done>>
    PROVE  Contract!Next
<1>1. PICK e : e = attempts + 1
  BY Zenon
<1>2. e \in 1..MaxEvents /\ Len(log) \in Nat /\ DOMAIN log = 1..Len(log) /\ log \in Seq(1..MaxEvents)
  BY <1>1, ConfigAssumption DEF IInv, WalInv
<1>3. \A k \in 1..Len(log) : log[k] # e
  <2> TAKE k \in 1..Len(log)
  <2>1. log[k] \in 1..MaxEvents /\ log[k] <= attempts
    BY <1>2, SeqElements, Zenon DEF IInv, WalInv
  <2>2. attempts \in Int
    BY DEF IInv, WalInv
  <2> QED BY <1>1, <2>1, <2>2
<1>4. /\ Len(log') = Len(log) + 1 /\ log'[Len(log) + 1] = e
      /\ \A k \in 1..Len(log) : log'[k] = log[k]
  BY <1>1, <1>2
<1>5. \A k : k \in 1..Len(log') <=> k \in 1..Len(log) \/ k = Len(log) + 1
  BY <1>2, <1>4
<1>6. ASSUME NEW x PROVE Holding(x)' = IF x = e THEN Holding(x) \cup {Local} ELSE Holding(x)
  <2>1. (\E k \in 1..Len(log') : log'[k] = x) <=> x = e \/ \E k \in 1..Len(log) : log[k] = x
    BY <1>4, <1>5, Zenon
  <2> QED BY <2>1, Zenon DEF Holding
<1>7. Copies' = [Copies EXCEPT ![e] = @ \cup {Local}]
  BY <1>2, <1>6, Zenon DEF Copies
<1>8. Local \notin Copies[e]
  BY <1>2, <1>3, WhoHolds, Zenon DEF Copies
<1>9. Contract!Persist(e)
  BY <1>7, <1>8, Zenon DEF Contract!Persist, Copies
<1> QED BY <1>2, <1>9, Zenon DEF Contract!Next

\* A record that has its quorum is durable, and one that is released is settled.
LEMMA QuorumIsDurable ==
    ASSUME WalInv, StoreInv, NEW k \in DOMAIN log, Satisfied(Holders(k))
    PROVE  evaluate(Holding(log[k])) \/ log[k] \in done
<1>1. k \in Nat /\ k \in 1..Len(log) /\ committed \in Nat
  BY DEF WalInv
<1>2. CASE k <= committed
  <2>1. k \in 1..committed
    BY <1>1, <1>2
  <2> QED BY <2>1, Zenon DEF WalInv
<1>3. CASE committed < k
  <2>1. ASSUME NEW p \in Holders(k) PROVE p \in Holding(log[k])
    <3>1. p \in Peers /\ (released[p] >= k \/ RecordAt(k) \in store[p])
      BY Zenon DEF Holders
    <3>2. released[p] \in Int /\ released[p] <= committed
      BY <3>1, ConfigAssumption DEF StoreInv
    <3>3. RecordAt(k) \in store[p] /\ RecordAt(k).event = log[k]
      BY <1>1, <1>3, <3>1, <3>2 DEF RecordAt
    <3> QED BY <3>1, <3>3, WhoHolds, Zenon
  <2>2. Local \in Holding(log[k])
    BY <1>1, WhoHolds, Zenon
  <2>3. Holders(k) \cup {Local} \subseteq Holding(log[k])
    BY <2>1, <2>2, Zenon
  <2>4. evaluate(Holders(k) \cup {Local})
    BY Zenon DEF Satisfied
  <2> QED BY <2>3, <2>4, EvaluateMonotone, Zenon
<1> QED BY <1>1, <1>2, <1>3

\* Put is Replicate by a peer, with the answer to the client that it completes,
\* or changes nothing.
LEMMA PutMaps ==
    ASSUME NEW p \in Peers, NEW r \in Record, NEW answered,
           store \in [Peers -> SUBSET Record], store' = AfterPut(p, r),
           UNCHANGED <<log, delivered, done>>,
           \/ UNCHANGED accepted
           \/ /\ answered = r.event /\ accepted' = accepted \cup {answered}
              /\ evaluate(Holding(answered)') \/ answered \in done
    PROVE  Contract!Next \/ UNCHANGED Contract!vars
<1>1. Local \notin Peers /\ p \in Nodes \ {Local} /\ r.event \in 1..MaxEvents
  BY ConfigAssumption, Zenon DEF ConfigValid, Nodes, Record
<1>2. PICK e : e = r.event
  BY Zenon
<1>3. CASE store' = store
  <2>1. \A x : Holding(x)' = Holding(x)
    BY <1>3, Zenon DEF Holding
  <2>2. CASE UNCHANGED accepted
    BY <1>3, <2>2, NothingSeen, Zenon
  <2>3. CASE /\ answered = r.event /\ accepted' = accepted \cup {answered}
             /\ evaluate(Holding(answered)') \/ answered \in done
    <3>1. Copies' = Copies /\ Copies[e] = Holding(e)
      BY <1>1, <1>2, <2>1, Zenon DEF Copies
    <3>2. Contract!MayAck(e, Copies[e])
      BY <1>2, <2>1, <2>3, <3>1, Zenon DEF Contract!MayAck
    <3>3. Contract!Ack(e)
      BY <1>2, <2>3, <3>1, <3>2, Zenon DEF Contract!Ack, Copies
    <3> QED BY <1>1, <1>2, <3>3, Zenon DEF Contract!Next
  <2> QED BY <2>2, <2>3, Zenon
<1>4. CASE store' = [store EXCEPT ![p] = @ \cup {r}]
  <2>1. ASSUME NEW x PROVE Holding(x)' = IF x = e THEN Holding(x) \cup {p} ELSE Holding(x)
    <3>1. ASSUME NEW q \in Peers
          PROVE (\E s \in store'[q] : s.event = x) <=> (\E s \in store[q] : s.event = x) \/ (q = p /\ x = e)
      <4>1. store'[q] = IF q = p THEN store[q] \cup {r} ELSE store[q]
        BY <1>4, Zenon
      <4> QED BY <1>2, <4>1, Zenon
    <3>2. {q \in Peers : \E s \in store'[q] : s.event = x}
            = IF x = e THEN {q \in Peers : \E s \in store[q] : s.event = x} \cup {p}
                       ELSE {q \in Peers : \E s \in store[q] : s.event = x}
      BY <3>1, Zenon
    <3> QED BY <3>2, Zenon DEF Holding
  <2>2. Copies' = [Copies EXCEPT ![e] = @ \cup {p}]
    BY <1>1, <1>2, <2>1, Zenon DEF Copies
  <2>3. Copies'[e] = Holding(e)'
    BY <1>1, <1>2, Zenon DEF Copies
  <2>4. UNCHANGED accepted \/ (Contract!MayAck(e, Copies'[e]) /\ accepted' = accepted \cup {e})
    BY <1>2, <2>3, Zenon DEF Contract!MayAck
  <2>5. Contract!Replicate(e, p)
    BY <2>2, <2>4, Zenon DEF Contract!Replicate, Copies
  <2> QED BY <1>1, <1>2, <2>5, Zenon DEF Contract!Next
<1> QED BY <1>3, <1>4, Zenon DEF AfterPut

\* publishBatch is Deliver: what the loop hands over is durable.
LEMMA BrokerTakesMaps ==
    ASSUME IInv, NEW k \in 1..MaxEvents, BrokerTakes(k)
    PROVE  Contract!Next
<1>1. /\ pc = "deliver" /\ k \in (committed + 1)..ready /\ delivered' = delivered \cup {log[k]}
      /\ UNCHANGED <<log, store, accepted, done>>
  BY Zenon DEF BrokerTakes, wal
<1>2. /\ WalInv /\ StoreInv /\ Covered(ready) /\ ready \in 0..Len(log) /\ Len(log) \in Nat
      /\ committed \in Nat /\ DOMAIN log = 1..Len(log)
  BY <1>1 DEF IInv, PeerInv, LoopInv, WalInv, Delivering
<1>3. k \in DOMAIN log /\ k \in 1..ready /\ committed < k
  BY <1>1, <1>2
<1>4. Satisfied(Holders(k))
  BY <1>2, <1>3, Zenon DEF Covered
<1>5. PICK e : e = log[k]
  BY Zenon
<1>6. e \in 1..MaxEvents
  BY <1>2, <1>3, <1>5, SeqElements, Zenon DEF WalInv
<1>7. e \notin done
  <2> SUFFICES ASSUME e \in done PROVE FALSE
    BY Zenon
  <2>1. PICK j \in 1..committed : log[j] = e
    BY <1>2, Zenon DEF WalInv
  <2>2. j \in DOMAIN log
    BY <1>2, <2>1 DEF WalInv
  <2>3. j = k
    BY <1>2, <1>3, <1>5, <2>1, <2>2, Zenon DEF WalInv
  <2> QED BY <1>2, <1>3, <2>3
<1>8. evaluate(Holding(e))
  BY <1>2, <1>3, <1>4, <1>5, <1>7, QuorumIsDurable, Zenon
<1>9. \A x : Holding(x)' = Holding(x)
  BY <1>1, Zenon DEF Holding
<1>10. Copies' = Copies /\ Copies[e] = Holding(e)
  BY <1>6, <1>9, Zenon DEF Copies
<1>11. Contract!Deliver(e)
  BY <1>1, <1>5, <1>8, <1>10, Zenon DEF Contract!Deliver, Copies
<1> QED BY <1>6, <1>11, Zenon DEF Contract!Next

\* Commit is Checkpoint: of a record that the broker has.
LEMMA CommitMaps ==
    ASSUME IInv, NextSucceeded, done' = done \cup {log[committed + 1]},
           UNCHANGED <<log, store, accepted, delivered>>
    PROVE  Contract!Next
<1>1. /\ committed \in Nat /\ committed < Len(log) /\ Len(log) \in Nat /\ DOMAIN log = 1..Len(log)
  BY DEF IInv, LoopInv, WalInv, NextSucceeded
<1>2. PICK e : e = log[committed + 1]
  BY Zenon
<1>3. e \in delivered /\ delivered \subseteq 1..MaxEvents
  BY <1>2, Zenon DEF IInv, LoopInv, NextSucceeded
<1>4. \A x : Holding(x)' = Holding(x)
  BY Zenon DEF Holding
<1>5. Copies' = Copies
  BY <1>4, Zenon DEF Copies
<1>6. Contract!Checkpoint(e)
  BY <1>2, <1>3, <1>5, Zenon DEF Contract!Checkpoint, Copies
<1> QED BY <1>3, <1>6, Zenon DEF Contract!Next

\* Release is Release: every record at or below the checkpoint is of an event
\* that is checkpointed, or that the power took from the log.
LEMMA ReleaseMaps ==
    ASSUME IInv, NEW p \in Peers, NEW through \in 0..committed, ReleaseAt(p, through),
           UNCHANGED <<log, accepted, delivered, done>>
    PROVE  Contract!Next \/ UNCHANGED Contract!vars
<1>1. /\ WalInv /\ StoreInv /\ committed \in Nat /\ Len(log) \in Nat /\ DOMAIN log = 1..Len(log)
      /\ committed <= Len(log) /\ store \in [Peers -> SUBSET Record]
  BY DEF IInv, PeerInv, WalInv, StoreInv
<1>2. CASE through <= released[p]
  BY <1>2, NothingSeen, Zenon DEF ReleaseAt
<1>3. CASE ~(through <= released[p])
  <2>1. store' = [store EXCEPT ![p] = {r \in @ : r.seq > through}]
    BY <1>3, Zenon DEF ReleaseAt
  <2>2. store'[p] = {r \in store[p] : r.seq > through} /\ \A q \in Peers : q # p => store'[q] = store[q]
    BY <1>1, <2>1, Zenon
  <2> DEFINE given == {e \in 1..MaxEvents : p \in Holding(e) /\ p \notin Holding(e)'}
  <2>3. \A e : Holding(e)' = IF p \in Holding(e) /\ p \notin Holding(e)' THEN Holding(e) \ {p} ELSE Holding(e)
    <3> TAKE e
    <3>1. ASSUME NEW q \in Peers, q # p
          PROVE  (\E r \in store'[q] : r.event = e) <=> (\E r \in store[q] : r.event = e)
      BY <2>2, <3>1, Zenon
    <3>2. (\E r \in store'[p] : r.event = e) => (\E r \in store[p] : r.event = e)
      BY <2>2, Zenon
    <3>3. Local \in Holding(e) <=> Local \in Holding(e)'
      BY WhoHolds, ConfigAssumption, Zenon DEF Holding, ConfigValid
    <3>4. \A q \in Peers : /\ q \in Holding(e) <=> \E r \in store[q] : r.event = e
                           /\ q \in Holding(e)' <=> \E r \in store'[q] : r.event = e
      BY ConfigAssumption, Zenon DEF Holding, ConfigValid
    <3>5. Holding(e) \subseteq Peers \cup {Local} /\ Holding(e)' \subseteq Peers \cup {Local}
      BY Zenon DEF Holding
    <3>6. \A q : q \in Holding(e)' <=> q \in Holding(e) /\ ~(q = p /\ p \notin Holding(e)')
      BY <3>1, <3>2, <3>3, <3>4, <3>5, Zenon
    <3> QED BY <3>6, Zenon
  <2>4. \A e \in given : e \in done \/ Local \notin Holding(e)
    <3> SUFFICES ASSUME NEW e \in given, Local \in Holding(e) PROVE e \in done
      BY Zenon
    <3>1. PICK r \in store[p] : r.event = e
      BY WhoHolds, Zenon
    <3>2. r \notin store'[p]
      BY <3>1, ConfigAssumption, ZenonT(40) DEF Holding, ConfigValid
    <3>3. r.seq <= through /\ r.seq \in Nat /\ 1 <= r.seq
      BY <1>1, <2>2, <3>1, <3>2 DEF Record
    <3>4. PICK k \in 1..Len(log) : log[k] = e
      BY WhoHolds, Zenon
    <3>5. k = r.seq
      BY <1>1, <3>1, <3>4, Zenon DEF StoreInv, Placed
    <3>6. k \in 1..committed
      BY <1>1, <3>3, <3>5
    <3> QED BY <1>1, <3>4, <3>6, Zenon DEF WalInv
  <2>5. Copies' = [e \in 1..MaxEvents |-> IF e \in given THEN Copies[e] \ {p} ELSE Copies[e]]
    BY <2>3, Zenon DEF Copies
  <2>6. given \in SUBSET {e \in 1..MaxEvents : e \in done \/ Local \notin Copies[e]}
    BY <2>4, Zenon DEF Copies
  <2> HIDE DEF given
  <2>7. Contract!Release(p)
    BY <2>5, <2>6, Zenon DEF Contract!Release, Copies
  <2>8. p \in Nodes \ {Local}
    BY ConfigAssumption, Zenon DEF ConfigValid, Nodes
  <2> QED BY <2>7, <2>8, Zenon DEF Contract!Next
<1> QED BY <1>2, <1>3, Zenon

\* The power takes only events that were promised to nobody.
LEMMA PowerLossMaps ==
    ASSUME IInv, PowerLoss
    PROVE  Contract!Next
<1>1. /\ UNCHANGED <<store, delivered, accepted>> /\ UNCHANGED <<committed, attempts, done>>
      /\ unsynced' = 0
  BY Zenon DEF PowerLoss
<1>2. PICK n \in committed..Len(log) : n >= Len(log) - unsynced /\ log' = SubSeq(log, 1, n)
  BY Zenon DEF PowerLoss
<1>3. WalInv /\ AcceptInv
  BY Zenon DEF IInv
<1>4. Len(log') = n /\ \A k \in 1..n : log'[k] = log[k]
  BY <1>1, <1>2, <1>3, WalTruncates, Zenon
<1>5. /\ Len(log) \in Nat /\ committed \in Nat /\ n \in Nat /\ Synced \in Int /\ Synced <= n
      /\ DOMAIN log = 1..Len(log) /\ committed <= n /\ n <= Len(log)
  BY <1>2, <1>3 DEF WalInv, Synced
<1> DEFINE lost == {e \in 1..MaxEvents : Local \in Holding(e) /\ Local \notin Holding(e)'}
<1>6. ASSUME NEW e PROVE (Local \in Holding(e)') <=> \E k \in 1..n : log[k] = e
  <2>1. (\E k \in 1..Len(log') : log'[k] = e) <=> \E k \in 1..n : log[k] = e
    BY <1>4, Zenon
  <2> QED BY <2>1, ConfigAssumption, Zenon DEF Holding, ConfigValid
<1>7. \A e \in lost : e \notin done /\ e \notin accepted
  <2> TAKE e \in lost
  <2>1. PICK k \in 1..Len(log) : log[k] = e
    BY WhoHolds, Zenon
  <2>2. k \notin 1..n
    BY <1>6, <2>1, Zenon
  <2>3. ~(k <= n)
    BY <1>5, <2>2
  <2>4. \A j \in 1..n : log[j] # e
    <3> SUFFICES ASSUME NEW j \in 1..n, log[j] = e PROVE FALSE
      BY Zenon
    <3>1. j \in 1..Len(log)
      BY <1>5
    <3>2. j = k
      BY <1>3, <1>5, <2>1, <3>1, Zenon DEF WalInv
    <3> QED BY <2>2, <3>2, Zenon
  <2>5. \A j \in 1..committed : j \in 1..n
    BY <1>5
  <2>6. e \notin done
    BY <1>3, <2>4, <2>5, Zenon DEF WalInv
  <2>7. \A j \in 1..Synced : j \in 1..n
    BY <1>5
  <2>8. ~Kept(e)
    BY <2>4, <2>7, Zenon DEF Kept
  <2> QED BY <1>3, <2>6, <2>8, Zenon DEF AcceptInv
<1>8. \A e : Holding(e)' = IF Local \in Holding(e) /\ Local \notin Holding(e)'
                           THEN Holding(e) \ {Local} ELSE Holding(e)
  <2> TAKE e
  <2>1. \A q \in Peers : q \in Holding(e)' <=> q \in Holding(e)
    BY <1>1, ConfigAssumption, Zenon DEF Holding, ConfigValid
  <2>2. Local \in Holding(e)' => Local \in Holding(e)
    <3>1. \A k \in 1..n : k \in 1..Len(log)
      BY <1>5
    <3> QED BY <1>6, <3>1, WhoHolds, Zenon
  <2>3. Holding(e) \subseteq Peers \cup {Local} /\ Holding(e)' \subseteq Peers \cup {Local}
    BY Zenon DEF Holding
  <2>4. \A q : q \in Holding(e)' <=> q \in Holding(e) /\ ~(q = Local /\ Local \notin Holding(e)')
    BY <2>1, <2>2, <2>3, Zenon
  <2> QED BY <2>4, Zenon
<1>9. Copies' = [e \in 1..MaxEvents |-> IF e \in lost THEN Copies[e] \ {Local} ELSE Copies[e]]
  BY <1>8, Zenon DEF Copies
<1>10. lost \in SUBSET (1..MaxEvents \ (accepted \cup done))
  BY <1>7, Zenon
<1> HIDE DEF lost
<1>11. Contract!Lose
  BY <1>1, <1>9, <1>10, Zenon DEF Contract!Lose, Copies
<1> QED BY <1>11, Zenon DEF Contract!Next

\* What an answer makes of the clients: none hears of it, or one whose event
\* then has durable copies or is delivered already.
AnswersHonestly(c, r) ==
    \/ UNCHANGED accepted
    \/ /\ c = r.event /\ accepted' = accepted \cup {c}
       /\ evaluate(Holding(c)') \/ c \in done

\* A client that gets its receipt gets it for durable copies.
LEMMA ReturnIsHonest ==
    ASSUME IInv, Replicating, NEW c, NEW call, NEW lost, Answering(c, call, lost),
           NEW satisfied \in BOOLEAN, satisfied => Satisfied(call.acks),
           Returns(c, call, satisfied, lost)
    PROVE  AnswersHonestly(c, call.record)
<1>1. CASE c = Loop
  BY <1>1, Zenon DEF Returns, LoopReturns, AnswersHonestly
<1>2. CASE c # Loop /\ ~satisfied
  BY <1>2, Zenon DEF Returns, ClientReturns, AnswersHonestly
<1>3. CASE c # Loop /\ satisfied
  <2>1. accepted' = accepted \cup {c}
    BY <1>3, Zenon DEF Returns, ClientReturns
  <2>2. PICK k : k = call.record.seq
    BY Zenon
  <2>3. /\ WalInv /\ StoreInv /\ Backed(c) /\ call.record = calls[c].record
        /\ call.acks \subseteq Holders(k)' /\ Satisfied(call.acks)
    BY <1>3, <2>2, Zenon DEF IInv, PeerInv, CallInv, Answering
  <2>4. /\ k \in DOMAIN log /\ call.record = RecordAt(k) /\ call.record.event = c
    BY <1>3, <2>2, <2>3, Zenon DEF Backed
  <2>5. k \in 1..Len(log) /\ Len(log) \in Nat /\ committed \in Nat /\ log[k] = c
    BY <2>3, <2>4 DEF WalInv, RecordAt
  <2>6. log' = log /\ released' = released
    BY Zenon DEF Replicating, Elsewhere, wal
  <2>7. CASE k <= committed
    <3>1. k \in 1..committed
      BY <2>5, <2>7
    <3>2. c \in done
      BY <2>3, <2>5, <3>1, Zenon DEF WalInv
    <3> QED BY <2>1, <2>4, <3>2, Zenon DEF AnswersHonestly
  <2>8. CASE committed < k
    <3>1. ASSUME NEW p \in call.acks PROVE p \in Holding(c)'
      <4>1. p \in Peers /\ (released'[p] >= k \/ RecordAt(k)' \in store'[p])
        BY <2>3, Zenon DEF Holders
      <4>2. released'[p] \in Int /\ released'[p] <= committed
        BY <2>3, <2>6, <4>1, ConfigAssumption DEF StoreInv
      <4>3. RecordAt(k)' \in store'[p]
        BY <2>5, <2>8, <4>1, <4>2
      <4>4. RecordAt(k)'.event = c
        BY <2>5, <2>6, Zenon DEF RecordAt
      <4> QED BY <4>1, <4>3, <4>4, Zenon DEF Holding
    <3>2. Local \in Holding(c)'
      BY <2>5, <2>6, Zenon DEF Holding
    <3>3. call.acks \cup {Local} \subseteq Holding(c)'
      BY <3>1, <3>2, Zenon
    <3>4. evaluate(call.acks \cup {Local})
      BY <2>3, Zenon DEF Satisfied
    <3>5. evaluate(Holding(c)')
      BY <3>3, <3>4, EvaluateMonotone, Zenon
    <3> QED BY <2>1, <2>4, <3>5, Zenon DEF AnswersHonestly
  <2> QED BY <2>5, <2>7, <2>8
<1> QED BY <1>1, <1>2, <1>3, Zenon

\* The same of a call that may go on waiting.
LEMMA AnswerIsHonest ==
    ASSUME IInv, Replicating, NEW c, NEW call, NEW lost, Answering(c, call, lost),
           Answered(c, call, lost)
    PROVE  AnswersHonestly(c, call.record)
<1>1. CASE Satisfied(call.acks)
  <2>1. Returns(c, call, TRUE, lost)
    BY <1>1, Zenon DEF Answered
  <2> QED BY <1>1, <2>1, ReturnIsHonest, Zenon
<1>2. CASE ~Satisfied(call.acks) /\ call.waiting = {}
  <2>1. Returns(c, call, FALSE, lost)
    BY <1>2, Zenon DEF Answered
  <2> QED BY <2>1, ReturnIsHonest, Zenon
<1>3. CASE ~Satisfied(call.acks) /\ call.waiting # {}
  BY <1>3, Zenon DEF Answered, AnswersHonestly
<1> QED BY <1>1, <1>2, <1>3, Zenon

\* Every step of a Replicate call maps to an answer, a copy or nothing.
LEMMA ReplicateMaps ==
    ASSUME IInv, NEW c \in Callers,
           \/ ReplicateTimeout(c)
           \/ \E p \in Peers : PeerAcks(c, p) \/ PeerRefuses(c, p) \/ PeerFails(c, p)
    PROVE  Contract!Next \/ UNCHANGED Contract!vars
<1>1. PICK r : r = calls[c].record
  BY Zenon
<1>2. ASSUME c \in DOMAIN calls, Replicating, AnswersHonestly(c, r),
             NEW p \in Peers, store' \in {store, AfterPut(p, r)}
      PROVE  Contract!Next \/ UNCHANGED Contract!vars
  <2>1. store \in [Peers -> SUBSET Record] /\ Backed(c)
    BY <1>2, Zenon DEF IInv, PeerInv, StoreInv, CallInv
  <2>2. r \in Record
    BY <1>1, <2>1, Zenon DEF Backed, Call
  <2>3. UNCHANGED <<log, delivered, done>>
    BY <1>2, Zenon DEF Replicating, Elsewhere, wal
  <2>4. \/ UNCHANGED accepted
        \/ /\ c = r.event /\ accepted' = accepted \cup {c}
           /\ evaluate(Holding(c)') \/ c \in done
    BY <1>2, Zenon DEF AnswersHonestly
  <2>5. CASE store' = AfterPut(p, r)
    BY <2>1, <2>2, <2>3, <2>4, <2>5, PutMaps, Zenon
  <2>6. CASE store' = store
    <3>1. CASE UNCHANGED accepted
      BY <2>3, <2>6, <3>1, NothingSeen, Zenon
    <3>2. CASE /\ c = r.event /\ accepted' = accepted \cup {c}
               /\ evaluate(Holding(c)') \/ c \in done
      <4>1. Holding(c)' = Holding(c) /\ \A x : Holding(x)' = Holding(x)
        BY <2>3, <2>6, Zenon DEF Holding
      <4>2. c \in 1..MaxEvents
        BY <2>2, <3>2, Zenon DEF Record
      <4>3. Copies' = Copies /\ Copies[c] = Holding(c)
        BY <4>1, <4>2, Zenon DEF Copies
      <4>4. Contract!MayAck(c, Copies[c])
        BY <3>2, <4>1, <4>3, Zenon DEF Contract!MayAck
      <4>5. Contract!Ack(c)
        BY <2>3, <3>2, <4>3, <4>4, Zenon DEF Contract!Ack, Copies
      <4> QED BY <4>2, <4>5, Zenon DEF Contract!Next
    <3> QED BY <2>4, <3>1, <3>2, Zenon
  <2> QED BY <1>2, <2>5, <2>6, Zenon
<1>3. CASE ReplicateTimeout(c)
  <2>1. PICK call : Replicating /\ Answering(c, call, {}) /\ Returns(c, call, FALSE, {})
    BY <1>3, TimeoutReturns, Zenon
  <2>2. AnswersHonestly(c, call.record) /\ call.record = r /\ c \in DOMAIN calls
    BY <1>1, <2>1, ReturnIsHonest, Zenon DEF Answering
  <2>3. UNCHANGED <<log, store, accepted, delivered, done>>
    <3>1. UNCHANGED <<store, accepted>>
      BY <1>3, <2>1, Zenon DEF ReplicateTimeout, Returns, LoopReturns, ClientReturns
    <3> QED BY <2>1, <3>1, Zenon DEF Replicating, Elsewhere, wal
  <2> QED BY <2>3, NothingSeen, Zenon
<1>4. ASSUME NEW p \in Peers, PeerAcks(c, p) \/ PeerRefuses(c, p) \/ PeerFails(c, p)
      PROVE  Contract!Next \/ UNCHANGED Contract!vars
  <2>1. PICK call, lost : Replicating /\ Answering(c, call, lost) /\ Answered(c, call, lost)
    BY <1>4, PeerAcksAnswers, PeerRefusesAnswers, PeerFailsAnswers, Zenon
  <2>2. AnswersHonestly(c, r) /\ c \in DOMAIN calls
    BY <1>1, <2>1, AnswerIsHonest, Zenon DEF Answering
  <2>3. store' \in {store, AfterPut(p, r)}
    BY <1>1, <1>4, Zenon DEF PeerAcks, PeerRefuses, PeerFails
  <2> QED BY <1>2, <2>1, <2>2, <2>3, Zenon
<1> QED BY <1>3, <1>4, Zenon

\* Every step is a step of the contract, or one it does not see.
LEMMA StepMaps ==
    ASSUME IInv, [Next]_vars
    PROVE  Contract!Next \/ UNCHANGED Contract!vars
<1>1. CASE Publish
  <2>1. attempts < MaxEvents /\ log' = Append(log, attempts + 1) /\ UNCHANGED <<store, accepted, delivered, done>>
    BY <1>1, Zenon DEF Publish, world
  <2> QED BY <2>1, AppendMaps, Zenon
<1>2. CASE PublishFails
  <2>1. /\ attempts < MaxEvents /\ UNCHANGED <<store, accepted, delivered, done>>
        /\ log' = log \/ log' = Append(log, attempts + 1)
    BY <1>2, Zenon DEF PublishFails, world
  <2>2. CASE log' = log
    BY <2>1, <2>2, NothingSeen, Zenon
  <2>3. CASE log' = Append(log, attempts + 1)
    BY <2>1, <2>3, AppendMaps, Zenon
  <2> QED BY <2>1, <2>2, <2>3, Zenon
<1>3. ASSUME NEW c \in Callers, \/ ReplicateTimeout(c)
                              \/ \E p \in Peers : PeerAcks(c, p) \/ PeerRefuses(c, p) \/ PeerFails(c, p)
      PROVE  Contract!Next \/ UNCHANGED Contract!vars
  BY <1>3, ReplicateMaps, Zenon
<1>4. ASSUME NEW m \in latePuts, LatePut(m) PROVE Contract!Next \/ UNCHANGED Contract!vars
  <2>1. /\ store' \in {store, AfterPut(m.peer, m.record)}
        /\ UNCHANGED <<log, delivered, done>> /\ UNCHANGED accepted
    BY <1>4, Zenon DEF LatePut, wal
  <2>2. PICK p, r : p = m.peer /\ r = m.record
    BY Zenon
  <2>3. p \in Peers /\ r \in Record /\ store \in [Peers -> SUBSET Record]
    BY <2>2, Zenon DEF IInv, PeerInv, RequestInv, StoreInv, Placed
  <2>4. CASE store' = store
    BY <2>1, <2>4, NothingSeen, Zenon
  <2>5. CASE store' = AfterPut(p, r)
    BY <2>1, <2>3, <2>5, PutMaps, Zenon
  <2> QED BY <2>1, <2>2, <2>4, <2>5, Zenon
<1>5. ASSUME NEW m \in lateReleases, LateRelease(m) PROVE Contract!Next \/ UNCHANGED Contract!vars
  <2>1. /\ UNCHANGED <<store, released>> \/ ReleaseAt(m.peer, m.through)
        /\ UNCHANGED <<log, accepted, delivered, done>>
    BY <1>5, Zenon DEF LateRelease, wal
  <2>2. m.peer \in Peers /\ m.through \in 0..committed
    BY Zenon DEF IInv, PeerInv, RequestInv
  <2>3. CASE UNCHANGED <<store, released>>
    BY <2>1, <2>3, NothingSeen, Zenon
  <2>4. CASE ReleaseAt(m.peer, m.through)
    BY <2>1, <2>2, <2>4, ReleaseMaps, Zenon
  <2> QED BY <2>1, <2>3, <2>4, Zenon
<1>6. CASE Start \/ Poll \/ Idle \/ PublishReturns \/ CommitEnds \/ ReleaseReturns \/ Close \/ Restart
  <2>1. UNCHANGED <<log, store, accepted, delivered, done>>
    BY <1>6, Zenon DEF Start, Poll, Idle, PublishReturns, CommitEnds, ReleaseReturns, Close, Restart,
                       world, wal
  <2> QED BY <2>1, NothingSeen, Zenon
<1>7. ASSUME NEW k \in 1..MaxEvents, BrokerTakes(k) PROVE Contract!Next
  BY <1>7, BrokerTakesMaps, Zenon
<1>8. CASE CommitNext
  <2>1. /\ NextSucceeded /\ done' = done \cup {log[committed + 1]}
        /\ UNCHANGED <<log, store, accepted, delivered>>
    BY <1>8, Zenon DEF CommitNext, world
  <2> QED BY <2>1, CommitMaps, Zenon
<1>9. CASE CommitFails
  <2>1. /\ NextSucceeded
        /\ done' = done \/ done' = done \cup {log[committed + 1]}
        /\ UNCHANGED <<log, store, accepted, delivered>>
    BY <1>9, Zenon DEF CommitFails, world
  <2>2. CASE done' = done
    BY <2>1, <2>2, NothingSeen, Zenon
  <2>3. CASE done' = done \cup {log[committed + 1]}
    BY <2>1, <2>3, CommitMaps, Zenon
  <2> QED BY <2>1, <2>2, <2>3, Zenon
<1>10. ASSUME NEW p \in Peers, ReleaseAnswered(p) PROVE Contract!Next \/ UNCHANGED Contract!vars
  <2>1. /\ UNCHANGED <<store, released>> \/ ReleaseAt(p, releasing.through)
        /\ UNCHANGED <<log, accepted, delivered, done>>
    BY <1>10, Zenon DEF ReleaseAnswered, wal
  <2>2. releasing.through \in 0..committed
    BY ConfigAssumption DEF IInv, PeerInv, RequestInv, ReleaseCall, WalInv
  <2>3. CASE UNCHANGED <<store, released>>
    BY <2>1, <2>3, NothingSeen, Zenon
  <2>4. CASE ReleaseAt(p, releasing.through)
    BY <2>1, <2>2, <2>4, ReleaseMaps, Zenon
  <2> QED BY <2>1, <2>3, <2>4, Zenon
<1>11. CASE Kill
  <2>1. /\ UNCHANGED <<store, accepted, delivered, done>>
        /\ log' = log \/ (attempts < MaxEvents /\ log' = Append(log, attempts + 1))
    BY <1>11, Zenon DEF Kill, wal
  <2>2. CASE log' = log
    BY <2>1, <2>2, NothingSeen, Zenon
  <2>3. CASE attempts < MaxEvents /\ log' = Append(log, attempts + 1)
    BY <2>1, <2>3, AppendMaps, Zenon
  <2> QED BY <2>1, <2>2, <2>3, Zenon
<1>12. CASE PowerLoss
  BY <1>12, PowerLossMaps, Zenon
<1>13. CASE UNCHANGED vars
  <2>1. UNCHANGED <<log, store, accepted, delivered, done>>
    BY <1>13, Zenon DEF vars, wal, world
  <2> QED BY <2>1, NothingSeen, Zenon
<1> QED BY <1>1, <1>2, <1>3, <1>4, <1>5, <1>6, <1>7, <1>8, <1>9, <1>10, <1>11, <1>12, <1>13,
           Zenon DEF Next

\* The contract starts with no copies, and so does the edge.
LEMMA InitMaps ==
    ASSUME Init
    PROVE  Contract!Init
<1>1. \A e : Holding(e) = {}
  BY DEF Init, Holding
<1>2. Copies = [e \in 1..MaxEvents |-> {}]
  BY <1>1, Zenon DEF Copies
<1> QED BY <1>2, Zenon DEF Init, Contract!Init, Copies

\* The edge implements IngestContract for any peers, policy and faults: a client
\* is answered and an event delivered only from durable copies, a delivery is
\* checkpointed only after the broker has it, a peer gives up a copy only of an
\* event that is checkpointed or that the power took, and the power takes
\* nothing that was acknowledged.
THEOREM Refinement == Spec => ImplementsIngest
<1>1. Init => Contract!Init
  BY InitMaps, Zenon
<1>2. IInv /\ [Next]_vars => [Contract!Next]_(Contract!vars)
  BY StepMaps, Zenon
<1> QED BY <1>1, <1>2, Invariance, PTL DEF Spec, ImplementsIngest, Contract!Spec
=============================================================================
