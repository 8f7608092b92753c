------------------------------ MODULE LiveFeed ------------------------------
(***************************************************************************)
(* The live feed of the gateway: transactions that insert events           *)
(* (WriteEvent), and the stream that polls telemetry_events with a cursor  *)
(* on (ingested_at, event_id) and resumes from the browser's Last-Event-ID *)
(* (LiveEvents in internal/storage/dashboard.go, handleLive in             *)
(* internal/api/dashboard.go).                                             *)
(*                                                                         *)
(* ingested_at is the database's now(), the start of the inserting         *)
(* transaction; rows become visible when it commits.  Event identifiers    *)
(* are numbers.                                                            *)
(***************************************************************************)
EXTENDS Integers, FiniteSets, Sequences

CONSTANTS
    EventNumbers,   \* identifiers of the events, numbers from 1
    PollLimit,      \* rows of one query, 500 in the code
    ConnectMargin,  \* how far before the connection the stream starts
    MaxClock,       \* bound on the database clock
    MaxReconnects   \* bound on the reconnections of the browser

VARIABLES
    dbClock,    \* the database clock
    inserting,  \* open transactions: records [id, at]
    rows,       \* telemetry_events: records [id, at]
    stream,     \* {} or the cursor of the open connection
    shown,      \* events delivered to the browser, in order
    lastID,     \* the browser's Last-Event-ID: {} or a cursor
    late,       \* rows that appeared, or were there, behind a cursor
    reconnects

feedVars == <<dbClock, inserting, rows, stream, shown, lastID, late, reconnects>>

ASSUME FeedAssumption ==
    /\ EventNumbers \subseteq Nat \ {0}
    /\ PollLimit \in Nat \ {0} /\ ConnectMargin \in Nat

Key(r) == <<r.at, r.id>>

\* The tuple comparison of the query.
Later(k, c) == k[1] > c[1] \/ (k[1] = c[1] /\ k[2] > c[2])

FeedInit ==
    /\ dbClock = 0 /\ inserting = {} /\ rows = {} /\ stream = {} /\ shown = <<>>
    /\ lastID = {} /\ late = {} /\ reconnects = 0

BeginInsert(e) ==
    /\ \A r \in inserting \cup rows : r.id # e
    /\ inserting' = inserting \cup {[id |-> e, at |-> dbClock]}
    /\ UNCHANGED <<dbClock, rows, stream, shown, lastID, late, reconnects>>

CommitInsert(r) ==
    /\ inserting' = inserting \ {r} /\ rows' = rows \cup {r}
    /\ late' = late \cup {q \in {r} : \E c \in stream \cup lastID : ~Later(Key(q), c)}
    /\ UNCHANGED <<dbClock, stream, shown, lastID, reconnects>>

ClockTicks ==
    /\ dbClock < MaxClock /\ dbClock' = dbClock + 1
    /\ UNCHANGED <<inserting, rows, stream, shown, lastID, late, reconnects>>

\* A new stream starts a margin before now, a resumed one at the browser's last
\* event.
Connect ==
    /\ stream = {}
    /\ stream' = IF lastID = {} THEN {<<dbClock - ConnectMargin, 0>>} ELSE lastID
    /\ late' = late \cup {r \in rows : lastID = {} /\ \E c \in stream' : ~Later(Key(r), c)}
    /\ UNCHANGED <<dbClock, inserting, rows, shown, lastID, reconnects>>

\* Mutation: the cursor compares times alone.
AheadInTime(c) == {r \in rows : r.at > c[1]}

Ahead(c) == {r \in rows : Later(Key(r), c)}

\* The next rows after a cursor, in order, at most PollLimit of them.
LiveEvents(c) ==
    LET Rank(r) == Cardinality({q \in Ahead(c) : Later(Key(r), Key(q))})
        size == Cardinality(Ahead(c))
    IN [k \in 1..(IF size < PollLimit THEN size ELSE PollLimit) |->
            CHOOSE r \in Ahead(c) : Rank(r) = k - 1]

\* The first n events of a page reach the browser, which remembers the last.
Receives(page, n) ==
    /\ shown' = shown \o [k \in 1..n |-> page[k].id]
    /\ lastID' = IF n = 0 THEN lastID ELSE {Key(page[n])}

\* One query of a poll.
PollStream ==
    \E c \in stream :
        LET page == LiveEvents(c)
        IN /\ page # <<>> /\ Receives(page, Len(page)) /\ stream' = lastID'
           /\ UNCHANGED <<dbClock, inserting, rows, late, reconnects>>

\* The connection is lost, in the middle of a page perhaps.
Disconnect ==
    /\ reconnects < MaxReconnects /\ reconnects' = reconnects + 1
    /\ \E c \in stream : \E n \in 0..Len(LiveEvents(c)) : Receives(LiveEvents(c), n)
    /\ stream' = {}
    /\ UNCHANGED <<dbClock, inserting, rows, late>>

FeedNext ==
    \/ \E e \in EventNumbers : BeginInsert(e)
    \/ \E r \in inserting : CommitInsert(r)
    \/ ClockTicks \/ Connect \/ PollStream \/ Disconnect

-----------------------------------------------------------------------------

\* The feed shows no event twice, over any number of reconnections from the
\* browser's Last-Event-ID.
ShownOnce == \A j, k \in DOMAIN shown : shown[j] = shown[k] => j = k

\* A row the cursor has passed was shown, unless it became visible only after the
\* cursor had passed it: events that share an ingestion time are never skipped at
\* a page boundary.
PassedShown ==
    \A r \in rows \ late : \A c \in stream \cup lastID :
        Later(Key(r), c) \/ \E k \in DOMAIN shown : shown[k] = r.id

\* The feed skips nothing it has passed and repeats nothing.
FeedComplete ==
    /\ PassedShown
    /\ ShownOnce
=============================================================================
