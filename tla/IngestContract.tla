--------------------------- MODULE IngestContract ---------------------------
(***************************************************************************)
(* What an edge promises for the events handed to it, the state machines   *)
(* of internal/formal (durable_ingest.go, replication.go) in one and with  *)
(* the losses they leave out: a client is answered and the event goes      *)
(* downstream only from durable copies that satisfy the policy, the        *)
(* checkpoint follows the delivery, and a copy is given up only after the  *)
(* checkpoint.  A power failure takes only what was promised to nobody.    *)
(***************************************************************************)
CONSTANTS
    Events, Nodes, Origin,
    Durable(_)      \* the durability policy, of the nodes that hold a copy

VARIABLES
    copies,      \* event -> the nodes that hold it
    acked,       \* events whose client was answered
    downstream,  \* events the broker has
    settled      \* events whose delivery is checkpointed

vars == <<copies, acked, downstream, settled>>

Init ==
    /\ copies = [e \in Events |-> {}]
    /\ acked = {} /\ downstream = {} /\ settled = {}

Persist(e) ==
    /\ Origin \notin copies[e]
    /\ copies' = [copies EXCEPT ![e] = @ \cup {Origin}]
    /\ UNCHANGED <<acked, downstream, settled>>

\* A client may be answered late, when its event is delivered and released.
MayAck(e, nodes) == Durable(nodes) \/ e \in settled

Ack(e) ==
    /\ MayAck(e, copies[e])
    /\ acked' = acked \cup {e}
    /\ UNCHANGED <<copies, downstream, settled>>

\* The answer of a peer, and that to the client when it completes the quorum.
Replicate(e, n) ==
    /\ copies' = [copies EXCEPT ![e] = @ \cup {n}]
    /\ \/ UNCHANGED acked
       \/ MayAck(e, copies'[e]) /\ acked' = acked \cup {e}
    /\ UNCHANGED <<downstream, settled>>

Deliver(e) ==
    /\ Durable(copies[e])
    /\ downstream' = downstream \cup {e}
    /\ UNCHANGED <<copies, acked, settled>>

Checkpoint(e) ==
    /\ e \in downstream
    /\ settled' = settled \cup {e}
    /\ UNCHANGED <<copies, acked, downstream>>

\* A node gives up copies of events that are checkpointed, or that the origin
\* has lost itself.
Release(n) ==
    /\ \E given \in SUBSET {e \in Events : e \in settled \/ Origin \notin copies[e]} :
           copies' = [e \in Events |-> IF e \in given THEN copies[e] \ {n} ELSE copies[e]]
    /\ UNCHANGED <<acked, downstream, settled>>

Lose ==
    /\ \E lost \in SUBSET (Events \ (acked \cup settled)) :
           copies' = [e \in Events |-> IF e \in lost THEN copies[e] \ {Origin} ELSE copies[e]]
    /\ UNCHANGED <<acked, downstream, settled>>

Next ==
    \/ \E e \in Events : \/ Persist(e) \/ Ack(e) \/ Deliver(e) \/ Checkpoint(e)
                         \/ \E n \in Nodes \ {Origin} : Replicate(e, n)
    \/ \E n \in Nodes \ {Origin} : Release(n)
    \/ Lose

Spec == Init /\ [][Next]_vars
=============================================================================
