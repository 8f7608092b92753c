------------------------------- MODULE Ingest -------------------------------
(***************************************************************************)
(* The ingestion endpoints of the gateway (internal/api): events, metrics, *)
(* change markers and OTLP batches.  A handler checks the request, names   *)
(* each record and publishes it, and answers.  The client of the request   *)
(* sends it again when the answer is an error or does not arrive, so that  *)
(* handlers of several attempts may run at once.                           *)
(***************************************************************************)
EXTENDS Integers, Sequences, FiniteSets

CONSTANTS
    IngestRequests,     \* requests: endpoint, the checks it fails, and its
                        \* records with the ID the client gave (0: none) and their form
    MaxIngestAttempts

VARIABLES
    ingestRequest,      \* the request
    handlers,           \* one per attempt: phase, next record, rejected, answer, named
    settled,            \* the client has seen an answer it does not retry
    publishedRecords,   \* what the publisher persisted: record, attempt, event and change ID
    lastEventID         \* the last ID newEventID made

ingestVars == <<ingestRequest, handlers, settled, publishedRecords, lastEventID>>

\* IDs a client gives are smaller than those the gateway makes.
FirstGeneratedID == 100

\* The three endpoints of this gateway take one record, which their checks
\* accept whole; the records of an OTLP batch have no ID.
ASSUME IngestAssumption ==
    \A r \in IngestRequests :
        /\ r.endpoint \in {"event", "metric", "change", "logs", "metrics"}
        /\ r.records \in Seq([id : 0..(FirstGeneratedID - 1), supported : BOOLEAN])
        /\ IF r.endpoint \in {"logs", "metrics"}
           THEN \A i \in DOMAIN r.records : r.records[i].id = 0
           ELSE Len(r.records) = 1 /\ r.records[1].supported

IngestInit ==
    /\ ingestRequest \in IngestRequests
    /\ handlers = <<>> /\ settled = FALSE
    /\ publishedRecords = {} /\ lastEventID = FirstGeneratedID

-----------------------------------------------------------------------------
IsOTLP == ingestRequest.endpoint \in {"logs", "metrics"}
Records == ingestRequest.records

NewHandler == [phase |-> "checking", next |-> 1, rejected |-> 0, answer |-> 0, named |-> 0]

Answer(h, status) == [h EXCEPT !.phase = "answered", !.answer = status]

\* A client sends the request, or sends it again: its wait for the answer may
\* end at any time.
SendRequest ==
    /\ ~settled /\ Len(handlers) < MaxIngestAttempts
    /\ handlers' = Append(handlers, NewHandler)
    /\ UNCHANGED <<ingestRequest, settled, publishedRecords, lastEventID>>

\* The answer of the last attempt; the client has left the earlier ones.
ReceiveAnswer ==
    /\ ~settled /\ handlers # <<>>
    /\ handlers[Len(handlers)].phase = "answered"
    /\ handlers[Len(handlers)].answer < 500
    /\ settled' = TRUE
    /\ UNCHANGED <<ingestRequest, handlers, publishedRecords, lastEventID>>

\* The checks in the order of each handler; the first that fails answers.
\* handleMetric looks at the value before the tenant.
Checks ==
    CASE ingestRequest.endpoint = "event" -> <<"body", "valid", "tenant">>
      [] ingestRequest.endpoint = "metric" -> <<"body", "valid", "value", "tenant">>
      [] ingestRequest.endpoint = "change" -> <<"size", "body", "valid", "future">>
      [] OTHER -> <<"media", "body">>

StatusOf(check) ==
    CASE check = "tenant" -> 403 [] check = "media" -> 415 [] check = "size" -> 413
      [] OTHER -> 400

Failing(fails) == {k \in DOMAIN Checks : Checks[k] \in fails}

\* A timestamp more than five minutes ahead no longer is after a while.
CheckRequest(a) ==
    /\ handlers[a].phase = "checking"
    /\ \E fails \in {ingestRequest.fails, ingestRequest.fails \ {"future"}} :
          LET failing == Failing(fails)
          IN handlers' = [handlers EXCEPT ![a] =
                IF failing = {} THEN [@ EXCEPT !.phase = "publishing"]
                ELSE Answer(@, StatusOf(Checks[CHOOSE k \in failing : \A j \in failing : k <= j]))]
    /\ UNCHANGED <<ingestRequest, settled, publishedRecords, lastEventID>>

Current(h) == Records[h.next]

\* A data point that is not a finite number, a metric that is neither a gauge
\* nor a sum, or one without a name.
RejectRecord(a) ==
    /\ handlers[a].phase = "publishing" /\ handlers[a].next <= Len(Records)
    /\ ~Current(handlers[a]).supported
    /\ handlers' = [handlers EXCEPT ![a].next = @ + 1, ![a].rejected = @ + 1]
    /\ UNCHANGED <<ingestRequest, settled, publishedRecords, lastEventID>>

\* ensureEventID keeps the ID of an event or a metric; handleChange makes an
\* event ID in any case and keeps the change ID; OTLP records have none.
KeepsID(record) == record.id # 0 /\ ingestRequest.endpoint \in {"event", "metric"}

EventIDOf(record) == IF KeepsID(record) THEN record.id ELSE lastEventID + 1

ChangeIDOf(record) ==
    IF ingestRequest.endpoint # "change" THEN 0
    ELSE IF record.id # 0 THEN record.id ELSE EventIDOf(record)

Published(a, h) ==
    [record |-> h.next, attempt |-> a,
     event |-> EventIDOf(Current(h)), change |-> ChangeIDOf(Current(h))]

\* Mutation: an OTLP handler goes on after a record that was not published.
AfterFailureGoesOn(h) ==
    IF IsOTLP THEN [h EXCEPT !.next = @ + 1] ELSE Answer(h, 503)

AfterFailure(h) == Answer(h, 503)

\* The publisher's error does not say whether the record is durable.
PublishRecord(a) ==
    /\ handlers[a].phase = "publishing" /\ handlers[a].next <= Len(Records)
    /\ Current(handlers[a]).supported
    /\ lastEventID' = IF KeepsID(Current(handlers[a])) THEN lastEventID ELSE lastEventID + 1
    /\ \/ /\ publishedRecords' = publishedRecords \cup {Published(a, handlers[a])}
          /\ handlers' = [handlers EXCEPT ![a].next = @ + 1,
                                          ![a].named = EventIDOf(Current(handlers[a]))]
       \/ /\ publishedRecords' \in {publishedRecords,
                                    publishedRecords \cup {Published(a, handlers[a])}}
          /\ handlers' = [handlers EXCEPT ![a] = AfterFailure(@)]
    /\ UNCHANGED <<ingestRequest, settled>>

\* newEventID fails: 500, and 503 from an OTLP handler.
NamingFails(a) ==
    /\ handlers[a].phase = "publishing" /\ handlers[a].next <= Len(Records)
    /\ Current(handlers[a]).supported /\ ~KeepsID(Current(handlers[a]))
    /\ handlers' = [handlers EXCEPT ![a] = Answer(@, IF IsOTLP THEN 503 ELSE 500)]
    /\ UNCHANGED <<ingestRequest, settled, publishedRecords, lastEventID>>

FinishRequest(a) ==
    /\ handlers[a].phase = "publishing" /\ handlers[a].next > Len(Records)
    /\ handlers' = [handlers EXCEPT ![a] = Answer(@, IF IsOTLP THEN 200 ELSE 202)]
    /\ UNCHANGED <<ingestRequest, settled, publishedRecords, lastEventID>>

IngestNext ==
    \/ SendRequest
    \/ ReceiveAnswer
    \/ \E a \in DOMAIN handlers :
          \/ CheckRequest(a)
          \/ RejectRecord(a)
          \/ PublishRecord(a)
          \/ NamingFails(a)
          \/ FinishRequest(a)

-----------------------------------------------------------------------------
\* What the client may conclude from an answer, with earlier attempts of the
\* request still running.  200 and 202 mean that this attempt published every
\* record it does not report as rejected, under the ID a 202 names.  4xx means that it
\* published none, and no attempt ever does unless only the clock stood against
\* it.  503 means that it stopped at the
\* first failure: the records it published are the supported ones up to there.
AnswersHonest ==
    \A a \in DOMAIN handlers :
        LET h == handlers[a]
            mine == {p \in publishedRecords : p.attempt = a}
            supported == {i \in DOMAIN Records : Records[i].supported}
        IN h.phase = "answered" =>
              /\ h.answer \in {200, 202} =>
                    /\ {p.record : p \in mine} = supported
                    /\ h.rejected = Len(Records) - Cardinality(supported)
                    /\ h.answer = 202 => \E p \in mine : p.event = h.named
              /\ h.answer \notin {200, 202} /\ h.answer < 500 =>
                    mine = {} /\ ("future" \in ingestRequest.fails \/ publishedRecords = {})
              /\ h.answer >= 500 =>
                    {p.record : p \in mine} \in
                        {{i \in supported : i < h.next}, {i \in supported : i <= h.next}}

\* "Producers should retry with a stable event ID": however many attempts overlap,
\* a record with an ID of its own is published under that ID only, and a change
\* under its change ID; without one there is a copy per attempt, and two
\* records never share an event ID.
RetriesRecognised ==
    \A p, q \in publishedRecords :
        LET own == Records[p.record].id
        IN /\ p.record # q.record => p.event # q.event
           /\ p.record = q.record =>
                 /\ own # 0 /\ ingestRequest.endpoint # "change" => p.event = own
                 /\ own # 0 /\ ingestRequest.endpoint = "change" => p.change = q.change
                 /\ p.attempt = q.attempt => p = q

IngestHonest == AnswersHonest /\ RetriesRecognised
=============================================================================
