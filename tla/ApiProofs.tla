------------------------------ MODULE ApiProofs -----------------------------
(***************************************************************************)
(* What is proved of the gateway's HTTP interface: what the answers to an  *)
(* ingestion request say, and what the live feed shows.                    *)
(***************************************************************************)
EXTENDS Ingest, LiveFeed, FiniteSetTheorems, TLAPS

-----------------------------------------------------------------------------
(***************************************************************************)
(* Ingestion: what an answer says, with attempts that overlap.             *)
(***************************************************************************)

IngestSpec == IngestInit /\ [][IngestNext]_ingestVars

\* Attempt a has published record i, as far as P tells.
Has(a, i, P) == \E p \in P : p.attempt = a /\ p.record = i

\* Some attempt may get past the checks.
Passes ==
    \E fails \in {ingestRequest.fails, ingestRequest.fails \ {"future"}} : Failing(fails) = {}

\* The supported records of request R before the n-th.
Below(R, n) == {i \in DOMAIN R.records : R.records[i].supported /\ i < n}

OTLP(R) == R.endpoint \in {"logs", "metrics"}

\* Attempt a has published the supported records before the n-th.
PublishedBelow(R, a, n, P) == \A i \in DOMAIN R.records : Has(a, i, P) <=> i \in Below(R, n)

HasNamed(a, h, P) == \E p \in P : p.attempt = a /\ p.event = h.named

\* What the answer of attempt a stands for; ok says that the checks can be passed.
AnswerInv(R, ok, a, h, P) ==
    \/ /\ h.answer \in {200, 202} /\ h.next = Len(R.records) + 1
       /\ PublishedBelow(R, a, h.next, P)
       /\ h.answer = 202 => HasNamed(a, h, P)
    \/ /\ h.answer \in 400..499
       /\ \A i \in DOMAIN R.records : ~Has(a, i, P)
       /\ "future" \in R.fails \/ ~ok
    \/ /\ h.answer \in 500..599
       /\ PublishedBelow(R, a, h.next, P) \/ PublishedBelow(R, a, h.next + 1, P)

IngestHandler == [phase : {"checking", "publishing", "answered"}, next : Nat \ {0},
            rejected : Int, answer : Nat, named : Nat]

HandlerInv(R, ok, a, h, P) ==
    /\ h.next <= Len(R.records) + 1
    /\ h.rejected = (h.next - 1) - Cardinality(Below(R, h.next))
    /\ h.phase = "checking" => h.next = 1
    /\ h.phase # "answered" => PublishedBelow(R, a, h.next, P)
    /\ h.phase = "publishing" => ok
    /\ h.phase # "answered" /\ h.next > 1 /\ ~OTLP(R) => HasNamed(a, h, P)
    /\ h.phase = "answered" => AnswerInv(R, ok, a, h, P)

\* The ID of the client is used as it is.
KeptID(R, i) == R.records[i].id # 0 /\ R.endpoint \in {"event", "metric"}

\* What a record was published under, when the last ID made is last.
NamedInv(R, p, last) ==
    /\ p.record \in DOMAIN R.records /\ p.event \in Nat
    /\ KeptID(R, p.record) => p.event = R.records[p.record].id
    /\ ~KeptID(R, p.record) => p.event > FirstGeneratedID /\ p.event <= last
    /\ R.endpoint = "change" /\ R.records[p.record].id # 0 => p.change = R.records[p.record].id

\* No two published records are mixed up.
RecordsApart(p, q) ==
    /\ p.attempt = q.attempt /\ p.record = q.record => p = q
    /\ p.event = q.event => p.record = q.record

IngestInv ==
    /\ ingestRequest \in IngestRequests
    /\ handlers \in Seq(IngestHandler)
    /\ lastEventID \in Nat /\ lastEventID >= FirstGeneratedID
    /\ \A a \in DOMAIN handlers :
          HandlerInv(ingestRequest, Passes, a, handlers[a], publishedRecords)
    /\ \A p \in publishedRecords :
          p.attempt \in DOMAIN handlers /\ NamedInv(ingestRequest, p, lastEventID)
    /\ \A p, q \in publishedRecords : RecordsApart(p, q)
    /\ publishedRecords # {} => Passes

\* What a member of Seq(S) is.
LEMMA SeqFacts ==
    ASSUME NEW S, NEW s \in Seq(S)
    PROVE  Len(s) \in Nat /\ DOMAIN s = 1..Len(s) /\ \A i \in DOMAIN s : s[i] \in S
  OBVIOUS

\* The records of a request, as the assumption has them.
LEMMA RequestFacts ==
    ASSUME NEW R \in IngestRequests
    PROVE  /\ Len(R.records) \in Nat /\ DOMAIN R.records = 1..Len(R.records)
           /\ \A i \in DOMAIN R.records :
                 /\ R.records[i].id \in Nat /\ R.records[i].id < FirstGeneratedID
                 /\ R.records[i].supported \in BOOLEAN
                 /\ OTLP(R) => R.records[i].id = 0
           /\ ~OTLP(R) => Len(R.records) = 1 /\ R.records[1].supported
           /\ OTLP(R) <=> R.endpoint \notin {"event", "metric", "change"}
  <1> DEFINE S == [id : 0..(FirstGeneratedID - 1), supported : BOOLEAN]
  <1>1. R.records \in Seq(S)
    BY IngestAssumption, Zenon
  <1>2. /\ Len(R.records) \in Nat /\ DOMAIN R.records = 1..Len(R.records)
        /\ \A i \in DOMAIN R.records : R.records[i] \in S
    <2> HIDE DEF S
    <2> QED
      BY <1>1, SeqFacts, Zenon
  <1>3. \A x \in S : x.id \in Nat /\ x.id < FirstGeneratedID /\ x.supported \in BOOLEAN
    BY DEF FirstGeneratedID
  <1>4. R.endpoint \in {"event", "metric", "change", "logs", "metrics"}
    BY IngestAssumption, Zenon
  <1>5. /\ OTLP(R) => \A i \in DOMAIN R.records : R.records[i].id = 0
        /\ ~OTLP(R) => Len(R.records) = 1 /\ R.records[1].supported
    BY IngestAssumption, Zenon DEF OTLP
  <1>6. OTLP(R) <=> R.endpoint \notin {"event", "metric", "change"}
    BY <1>4 DEF OTLP
  <1>7. \A i \in DOMAIN R.records :
           /\ R.records[i].id \in Nat /\ R.records[i].id < FirstGeneratedID
           /\ R.records[i].supported \in BOOLEAN
    <2> HIDE DEF S
    <2> QED
      BY <1>2, <1>3, Zenon
  <1> QED
    BY <1>2, <1>5, <1>6, <1>7, Zenon

\* The supported records before the next one, one record further.
LEMMA BelowFacts ==
    ASSUME NEW R \in IngestRequests, NEW n \in DOMAIN R.records
    PROVE  /\ Below(R, n + 1) = IF R.records[n].supported THEN Below(R, n) \cup {n} ELSE Below(R, n)
           /\ n \notin Below(R, n)
           /\ Cardinality(Below(R, n)) \in Nat
           /\ Cardinality(Below(R, n + 1)) =
                 Cardinality(Below(R, n)) + (IF R.records[n].supported THEN 1 ELSE 0)
  <1>1. /\ Len(R.records) \in Nat /\ DOMAIN R.records = 1..Len(R.records)
        /\ \A i \in DOMAIN R.records : R.records[i].supported \in BOOLEAN
    BY RequestFacts, Zenon
  <1>2. Below(R, n + 1) = IF R.records[n].supported THEN Below(R, n) \cup {n} ELSE Below(R, n)
    BY <1>1 DEF Below
  <1>3. IsFiniteSet(1..Len(R.records))
    BY <1>1, FS_Interval
  <1>4. Below(R, n) \subseteq 1..Len(R.records) /\ n \notin Below(R, n)
    BY <1>1 DEF Below
  <1>5. IsFiniteSet(Below(R, n))
    BY <1>3, <1>4, FS_Subset
  <1>6. Cardinality(Below(R, n)) \in Nat
    BY <1>5, FS_CardinalityType
  <1>7. Cardinality(Below(R, n) \cup {n}) = Cardinality(Below(R, n)) + 1
    BY <1>4, <1>5, FS_AddElement, Zenon
  <1> QED
    BY <1>2, <1>4, <1>6, <1>7

\* Nothing is before the first record, and all is before the one after the last.
LEMMA BelowEnds ==
    ASSUME NEW R \in IngestRequests
    PROVE  /\ Below(R, 1) = {} /\ Cardinality(Below(R, 1)) = 0
           /\ Below(R, Len(R.records) + 1) = {i \in DOMAIN R.records : R.records[i].supported}
  <1>1. Len(R.records) \in Nat /\ DOMAIN R.records = 1..Len(R.records)
    BY RequestFacts, Zenon
  <1>2. Below(R, 1) = {}
    BY <1>1 DEF Below
  <1>3. Below(R, Len(R.records) + 1) = {i \in DOMAIN R.records : R.records[i].supported}
    BY <1>1 DEF Below
  <1> QED
    BY <1>2, <1>3, FS_EmptySet, Zenon

\* While the request stays, so does whether it passes the checks.
LEMMA PassesSame ==
    ASSUME ingestRequest' = ingestRequest
    PROVE  Passes' = Passes
  BY Zenon DEF Passes, Failing, Checks

\* A handler's facts depend on what its own attempt has published.
LEMMA HandlerFrame ==
    ASSUME NEW R, NEW ok, NEW a, NEW h, NEW P, NEW Q, P \subseteq Q,
           \A p \in Q \ P : p.attempt # a, HandlerInv(R, ok, a, h, P)
    PROVE  HandlerInv(R, ok, a, h, Q)
  <1>1. \A i : Has(a, i, P) <=> Has(a, i, Q)
    BY Zenon DEF Has
  <1>2. HasNamed(a, h, P) => HasNamed(a, h, Q)
    BY Zenon DEF HasNamed
  <1>3. \A n : PublishedBelow(R, a, n, P) => PublishedBelow(R, a, n, Q)
    BY <1>1, Zenon DEF PublishedBelow
  <1>4. AnswerInv(R, ok, a, h, P) => AnswerInv(R, ok, a, h, Q)
    <2>1. (\A i \in DOMAIN R.records : ~Has(a, i, P)) => \A i \in DOMAIN R.records : ~Has(a, i, Q)
      BY <1>1, Zenon
    <2> QED
      BY <1>2, <1>3, <2>1 DEF AnswerInv
  <1> QED
    BY <1>2, <1>3, <1>4, Zenon DEF HandlerInv

\* A step of one handler that publishes nothing, although it may make an ID.
LEMMA HandlerStep ==
    ASSUME IngestInv, NEW a \in DOMAIN handlers, NEW h \in IngestHandler,
           handlers' = [handlers EXCEPT ![a] = h],
           UNCHANGED <<ingestRequest, publishedRecords>>,
           lastEventID' = lastEventID \/ (lastEventID' \in Nat /\ lastEventID' >= lastEventID),
           HandlerInv(ingestRequest, Passes, a, h, publishedRecords)
    PROVE  IngestInv'
  <1>1. /\ handlers \in Seq(IngestHandler) /\ lastEventID \in Nat
        /\ lastEventID >= FirstGeneratedID /\ FirstGeneratedID \in Nat
    BY DEF IngestInv, FirstGeneratedID
  <1>2. handlers' \in Seq(IngestHandler) /\ DOMAIN handlers' = DOMAIN handlers
    BY <1>1
  <1>3. \A b \in DOMAIN handlers : handlers'[b] = IF b = a THEN h ELSE handlers[b]
    BY <1>1
  <1>4. Passes' = Passes
    BY PassesSame
  <1>5. \A b \in DOMAIN handlers' :
           HandlerInv(ingestRequest, Passes, b, handlers'[b], publishedRecords)
    BY <1>2, <1>3, Zenon DEF IngestInv
  <1>6. lastEventID' \in Nat /\ lastEventID' >= lastEventID /\ lastEventID' >= FirstGeneratedID
    BY <1>1
  <1>7. \A q \in publishedRecords : NamedInv(ingestRequest, q, lastEventID')
    <2>1. \A q \in publishedRecords : NamedInv(ingestRequest, q, lastEventID)
      BY Zenon DEF IngestInv
    <2> QED
      BY <1>1, <1>6, <2>1 DEF NamedInv
  <1> QED
    BY <1>2, <1>4, <1>5, <1>6, <1>7, Zenon DEF IngestInv

\* What a handler is known by.
LEMMA HandlerFacts ==
    ASSUME IngestInv, NEW a \in DOMAIN handlers
    PROVE  /\ handlers[a] \in IngestHandler
           /\ HandlerInv(ingestRequest, Passes, a, handlers[a], publishedRecords)
           /\ ingestRequest \in IngestRequests
  BY SeqFacts, Zenon DEF IngestInv

\* An answer leaves the rest of the handler.
LEMMA AnswerFacts ==
    ASSUME NEW h \in IngestHandler, NEW s \in Nat
    PROVE  /\ Answer(h, s) \in IngestHandler
           /\ Answer(h, s).phase = "answered" /\ Answer(h, s).answer = s
           /\ Answer(h, s).next = h.next /\ Answer(h, s).rejected = h.rejected
           /\ Answer(h, s).named = h.named
  BY Zenon DEF Answer, IngestHandler

\* A handler that answers, given what its answer stands for.
LEMMA AnswerStep ==
    ASSUME IngestInv, NEW a \in DOMAIN handlers, NEW s \in Nat, NEW P,
           AnswerInv(ingestRequest, Passes, a, Answer(handlers[a], s), P)
    PROVE  HandlerInv(ingestRequest, Passes, a, Answer(handlers[a], s), P)
  <1> DEFINE h == handlers[a]
             g == Answer(h, s)
  <1>1. h \in IngestHandler /\ HandlerInv(ingestRequest, Passes, a, h, publishedRecords)
    BY HandlerFacts, Zenon
  <1>2. g.phase = "answered" /\ g.next = h.next /\ g.rejected = h.rejected
    BY <1>1, AnswerFacts, Zenon
  <1> HIDE DEF h, g
  <1>3. /\ h.next <= Len(ingestRequest.records) + 1
        /\ h.rejected = (h.next - 1) - Cardinality(Below(ingestRequest, h.next))
    BY <1>1, Zenon DEF HandlerInv
  <1>4. AnswerInv(ingestRequest, Passes, a, g, P)
    BY Zenon DEF g, h
  <1>5. HandlerInv(ingestRequest, Passes, a, g, P)
    BY <1>2, <1>3, <1>4 DEF HandlerInv
  <1> QED
    BY <1>5, Zenon DEF g, h

\* A new attempt has published nothing.
LEMMA SendRequestInv ==
    ASSUME IngestInv, SendRequest
    PROVE  IngestInv'
  <1> DEFINE n == Len(handlers) + 1
  <1>1. handlers \in Seq(IngestHandler) /\ handlers' = Append(handlers, NewHandler)
    BY DEF IngestInv, SendRequest
  <1>2. NewHandler \in IngestHandler
    BY DEF NewHandler, IngestHandler
  <1>3. /\ handlers' \in Seq(IngestHandler) /\ DOMAIN handlers' = DOMAIN handlers \cup {n}
        /\ handlers'[n] = NewHandler /\ n \notin DOMAIN handlers
        /\ \A b \in DOMAIN handlers : handlers'[b] = handlers[b]
    BY <1>1, <1>2
  <1>4. UNCHANGED <<ingestRequest, publishedRecords, lastEventID>> /\ Passes' = Passes
    BY PassesSame DEF SendRequest
  <1>5. \A p \in publishedRecords : p.attempt # n
    BY <1>3, Zenon DEF IngestInv
  <1>6. PublishedBelow(ingestRequest, n, 1, publishedRecords)
    BY <1>5, BelowEnds DEF PublishedBelow, Has, IngestInv
  <1>7. NewHandler.phase = "checking" /\ NewHandler.next = 1 /\ NewHandler.rejected = 0
    BY DEF NewHandler
  <1>8. Len(ingestRequest.records) \in Nat /\ Cardinality(Below(ingestRequest, 1)) = 0
    BY RequestFacts, BelowEnds, Zenon DEF IngestInv
  <1>9. HandlerInv(ingestRequest, Passes, n, NewHandler, publishedRecords)
    <2> HIDE DEF n
    <2> QED
      BY <1>6, <1>7, <1>8 DEF HandlerInv
  <1>10. \A b \in DOMAIN handlers' :
            HandlerInv(ingestRequest, Passes, b, handlers'[b], publishedRecords)
    BY <1>3, <1>9, Zenon DEF IngestInv
  <1>11. \A p \in publishedRecords : p.attempt \in DOMAIN handlers'
    BY <1>3, Zenon DEF IngestInv
  <1> QED
    BY <1>3, <1>4, <1>10, <1>11, Zenon DEF IngestInv

\* The checks let a request on to be published, or answer it with a 4xx.
LEMMA CheckRequestInv ==
    ASSUME IngestInv, NEW a \in DOMAIN handlers, CheckRequest(a)
    PROVE  IngestInv'
  <1> DEFINE h == handlers[a]
             F == ingestRequest.fails
  <1>1. /\ h \in IngestHandler /\ HandlerInv(ingestRequest, Passes, a, h, publishedRecords)
        /\ ingestRequest \in IngestRequests
    BY HandlerFacts, Zenon
  <1>2. PICK fails \in {F, F \ {"future"}} :
           handlers' = [handlers EXCEPT ![a] =
              IF Failing(fails) = {} THEN [h EXCEPT !.phase = "publishing"]
              ELSE Answer(h, StatusOf(Checks[CHOOSE k \in Failing(fails) :
                                                \A j \in Failing(fails) : k <= j]))]
    BY Zenon DEF CheckRequest
  <1>3. h.phase = "checking" /\ UNCHANGED <<ingestRequest, publishedRecords, lastEventID>>
    BY DEF CheckRequest
  <1>4. CASE Failing(fails) = {}
    <2> DEFINE g == [h EXCEPT !.phase = "publishing"]
    <2>1. g \in IngestHandler /\ g.phase = "publishing" /\ g.next = h.next /\ g.rejected = h.rejected
      BY <1>1 DEF IngestHandler
    <2>2. Passes
      BY <1>4, Zenon DEF Passes
    <2>3. /\ h.next <= Len(ingestRequest.records) + 1 /\ h.next = 1
          /\ h.rejected = (h.next - 1) - Cardinality(Below(ingestRequest, h.next))
          /\ PublishedBelow(ingestRequest, a, h.next, publishedRecords)
      BY <1>1, <1>3 DEF HandlerInv
    <2>4. handlers' = [handlers EXCEPT ![a] = g]
      BY <1>2, <1>4, Zenon
    <2> HIDE DEF g, h
    <2>5. HandlerInv(ingestRequest, Passes, a, g, publishedRecords)
      BY <2>1, <2>2, <2>3 DEF HandlerInv
    <2> QED
      BY <1>3, <2>1, <2>4, <2>5, HandlerStep, Zenon
  <1>5. CASE Failing(fails) # {}
    <2> DEFINE s == StatusOf(Checks[CHOOSE k \in Failing(fails) :
                                                \A j \in Failing(fails) : k <= j])
               g == Answer(h, s)
    <2>1. s \in 400..499
      BY DEF StatusOf
    <2> HIDE DEF s
    <2>2. s \in Nat
      BY <2>1
    <2>3. "future" \in F \/ ~Passes
      <3> SUFFICES ASSUME "future" \notin F
                   PROVE  ~Passes
        OBVIOUS
      <3>1. F \ {"future"} = F
        OBVIOUS
      <3>2. fails = F
        BY <3>1, Zenon
      <3> QED
        BY <1>5, <3>1, <3>2, Zenon DEF Passes
    <2>4. /\ g \in IngestHandler /\ g.answer = s
      BY <1>1, <2>2, AnswerFacts, Zenon
    <2>5. \A i \in DOMAIN ingestRequest.records : ~Has(a, i, publishedRecords)
      <3>1. h.next = 1 /\ PublishedBelow(ingestRequest, a, h.next, publishedRecords)
        BY <1>1, <1>3 DEF HandlerInv
      <3>2. Below(ingestRequest, 1) = {}
        BY <1>1, BelowEnds, Zenon
      <3> HIDE DEF h
      <3> QED
        BY <3>1, <3>2 DEF PublishedBelow
    <2>6. AnswerInv(ingestRequest, Passes, a, g, publishedRecords)
      <3> HIDE DEF g, F
      <3>1. "future" \in ingestRequest.fails \/ ~Passes
        BY <2>3, Zenon DEF F
      <3> QED
        BY <2>1, <2>4, <2>5, <3>1, Zenon DEF AnswerInv
    <2>7. handlers' = [handlers EXCEPT ![a] = g]
      BY <1>2, <1>5, Zenon DEF s
    <2>8. HandlerInv(ingestRequest, Passes, a, g, publishedRecords)
      BY <2>2, <2>6, AnswerStep, Zenon
    <2> HIDE DEF g, h
    <2> QED
      BY <1>3, <2>4, <2>7, <2>8, HandlerStep, Zenon
  <1> QED
    BY <1>4, <1>5

\* A handler in the middle of its records.
LEMMA PublishingFacts ==
    ASSUME IngestInv, NEW a \in DOMAIN handlers, handlers[a].phase = "publishing"
    PROVE  /\ Passes
           /\ PublishedBelow(ingestRequest, a, handlers[a].next, publishedRecords)
           /\ handlers[a].next > 1 /\ ~OTLP(ingestRequest) =>
                 HasNamed(a, handlers[a], publishedRecords)
           /\ handlers[a].next \in Nat \ {0} /\ handlers[a].rejected \in Int
           /\ handlers[a].next <= Len(ingestRequest.records) + 1
           /\ Len(ingestRequest.records) \in Nat
           /\ DOMAIN ingestRequest.records = 1..Len(ingestRequest.records)
           /\ handlers[a].rejected =
                 (handlers[a].next - 1) - Cardinality(Below(ingestRequest, handlers[a].next))
  <1> DEFINE h == handlers[a]
  <1>1. /\ h \in IngestHandler /\ HandlerInv(ingestRequest, Passes, a, h, publishedRecords)
        /\ ingestRequest \in IngestRequests
    BY HandlerFacts, Zenon
  <1>2. Len(ingestRequest.records) \in Nat /\ DOMAIN ingestRequest.records = 1..Len(ingestRequest.records)
    BY <1>1, RequestFacts, Zenon
  <1>3. h.next \in Nat \ {0} /\ h.rejected \in Int
    BY <1>1, Zenon DEF IngestHandler
  <1>4. /\ Passes
        /\ PublishedBelow(ingestRequest, a, h.next, publishedRecords)
        /\ h.next > 1 /\ ~OTLP(ingestRequest) => HasNamed(a, h, publishedRecords)
        /\ h.next <= Len(ingestRequest.records) + 1
        /\ h.rejected = (h.next - 1) - Cardinality(Below(ingestRequest, h.next))
    BY <1>1 DEF HandlerInv
  <1> QED
    BY <1>2, <1>3, <1>4, Zenon

\* A record that is not supported is counted and left out.
LEMMA RejectRecordInv ==
    ASSUME IngestInv, NEW a \in DOMAIN handlers, RejectRecord(a)
    PROVE  IngestInv'
  <1> DEFINE h == handlers[a]
             g == [h EXCEPT !.next = h.next + 1, !.rejected = h.rejected + 1]
             R == ingestRequest
  <1>1. h \in IngestHandler /\ R \in IngestRequests
    BY HandlerFacts, Zenon
  <1>2. /\ h.phase = "publishing" /\ h.next <= Len(R.records) /\ ~R.records[h.next].supported
        /\ UNCHANGED <<ingestRequest, publishedRecords, lastEventID>>
    BY DEF RejectRecord, Current, Records
  <1>3. handlers' = [handlers EXCEPT ![a] = g]
    BY Zenon DEF RejectRecord
  <1>4. /\ Passes /\ PublishedBelow(R, a, h.next, publishedRecords)
        /\ h.next \in Nat \ {0} /\ h.rejected \in Int
        /\ Len(R.records) \in Nat /\ DOMAIN R.records = 1..Len(R.records)
        /\ h.rejected = (h.next - 1) - Cardinality(Below(R, h.next))
    BY <1>2, PublishingFacts, Zenon
  <1>5. /\ g \in IngestHandler /\ g.next = h.next + 1 /\ g.rejected = h.rejected + 1
        /\ g.phase = "publishing"
    <2>1. h.next + 1 \in Nat \ {0} /\ h.rejected + 1 \in Int
      BY <1>4
    <2>2. g \in IngestHandler /\ g.phase = h.phase /\ g.next = h.next + 1 /\ g.rejected = h.rejected + 1
      <3> HIDE DEF h
      <3> QED
        BY <1>1, <2>1, Zenon DEF IngestHandler
    <2> QED
      BY <1>2, <2>2, Zenon
  <1>6. h.next \in DOMAIN R.records
    BY <1>2, <1>4
  <1>7. OTLP(R)
    BY <1>1, <1>2, <1>4, RequestFacts
  <1> HIDE DEF g, h, R
  <1>8. /\ Below(R, h.next + 1) = Below(R, h.next)
        /\ Cardinality(Below(R, h.next + 1)) = Cardinality(Below(R, h.next))
        /\ Cardinality(Below(R, h.next)) \in Nat
    BY <1>1, <1>2, <1>6, BelowFacts, Zenon
  <1>9. PublishedBelow(R, a, g.next, publishedRecords)
    BY <1>4, <1>5, <1>8, Zenon DEF PublishedBelow
  <1>10. g.rejected = (g.next - 1) - Cardinality(Below(R, g.next)) /\ g.next <= Len(R.records) + 1
    BY <1>2, <1>4, <1>5, <1>8
  <1>11. HandlerInv(R, Passes, a, g, publishedRecords)
    BY <1>4, <1>5, <1>7, <1>9, <1>10 DEF HandlerInv
  <1> QED
    BY <1>2, <1>3, <1>5, <1>11, HandlerStep, Zenon DEF R

\* A failure to name a record stops the attempt before it.
LEMMA NamingFailsInv ==
    ASSUME IngestInv, NEW a \in DOMAIN handlers, NamingFails(a)
    PROVE  IngestInv'
  <1> DEFINE h == handlers[a]
             s == IF IsOTLP THEN 503 ELSE 500
             g == Answer(h, s)
  <1>1. h \in IngestHandler
    BY HandlerFacts, Zenon
  <1>2. h.phase = "publishing" /\ UNCHANGED <<ingestRequest, publishedRecords, lastEventID>>
    BY DEF NamingFails
  <1>3. handlers' = [handlers EXCEPT ![a] = g]
    BY DEF NamingFails
  <1>4. s \in Nat /\ s \in 500..599
    OBVIOUS
  <1> HIDE DEF s
  <1>5. g \in IngestHandler /\ g.answer = s /\ g.next = h.next
    BY <1>1, <1>4, AnswerFacts, Zenon
  <1>6. PublishedBelow(ingestRequest, a, h.next, publishedRecords)
    BY <1>2, PublishingFacts, Zenon
  <1>7. AnswerInv(ingestRequest, Passes, a, g, publishedRecords)
    <2> HIDE DEF g, h
    <2> QED
      BY <1>4, <1>5, <1>6, Zenon DEF AnswerInv
  <1>8. HandlerInv(ingestRequest, Passes, a, g, publishedRecords)
    BY <1>4, <1>7, AnswerStep, Zenon
  <1> HIDE DEF g, h
  <1> QED
    BY <1>2, <1>3, <1>5, <1>8, HandlerStep, Zenon

\* An attempt that got through has published what it could.
LEMMA FinishRequestInv ==
    ASSUME IngestInv, NEW a \in DOMAIN handlers, FinishRequest(a)
    PROVE  IngestInv'
  <1> DEFINE h == handlers[a]
             s == IF IsOTLP THEN 200 ELSE 202
             g == Answer(h, s)
             R == ingestRequest
  <1>1. h \in IngestHandler /\ R \in IngestRequests
    BY HandlerFacts, Zenon
  <1>2. /\ h.phase = "publishing" /\ h.next > Len(R.records)
        /\ UNCHANGED <<ingestRequest, publishedRecords, lastEventID>>
    BY DEF FinishRequest, Records
  <1>3. handlers' = [handlers EXCEPT ![a] = g]
    BY DEF FinishRequest
  <1>4. s \in {200, 202} /\ (s = 202 <=> ~OTLP(R))
    BY DEF IsOTLP, OTLP
  <1> HIDE DEF s
  <1>0. s \in Nat
    BY <1>4
  <1>5. g \in IngestHandler /\ g.answer = s /\ g.next = h.next /\ g.named = h.named
    BY <1>1, <1>0, AnswerFacts, Zenon
  <1>6. /\ PublishedBelow(R, a, h.next, publishedRecords)
        /\ h.next > 1 /\ ~OTLP(R) => HasNamed(a, h, publishedRecords)
        /\ h.next \in Nat \ {0} /\ h.next <= Len(R.records) + 1 /\ Len(R.records) \in Nat
    BY <1>2, PublishingFacts, Zenon
  <1>7. ~OTLP(R) => Len(R.records) = 1
    BY <1>1, RequestFacts, Zenon
  <1>8. g.next = Len(R.records) + 1
    BY <1>2, <1>5, <1>6
  <1>9. s = 202 => HasNamed(a, g, publishedRecords)
    <2> HIDE DEF g, h, R
    <2>0. s = 202 => Len(R.records) = 1
      BY <1>4, <1>7, Zenon
    <2>1. s = 202 => h.next > 1
      BY <1>2, <2>0, Zenon
    <2>2. s = 202 => HasNamed(a, h, publishedRecords)
      BY <2>1, <1>4, <1>6, Zenon
    <2>3. g.named = h.named
      BY <1>5
    <2> QED
      BY <2>2, <2>3 DEF HasNamed
  <1>10. AnswerInv(R, Passes, a, g, publishedRecords)
    <2> HIDE DEF g, h, R
    <2> QED
      BY <1>4, <1>5, <1>6, <1>8, <1>9, Zenon DEF AnswerInv
  <1>11. HandlerInv(R, Passes, a, g, publishedRecords)
    BY <1>0, <1>10, AnswerStep, Zenon
  <1> HIDE DEF g, h
  <1> QED
    BY <1>2, <1>3, <1>5, <1>11, HandlerStep, Zenon

\* The name a record is published under.
LEMMA PublishedFacts ==
    ASSUME IngestInv, NEW a \in DOMAIN handlers,
           handlers[a].phase = "publishing", handlers[a].next \in DOMAIN ingestRequest.records,
           lastEventID' = IF KeepsID(Current(handlers[a])) THEN lastEventID ELSE lastEventID + 1
    PROVE  LET p == Published(a, handlers[a])
           IN  /\ p.attempt = a /\ p.record = handlers[a].next
               /\ p.event = EventIDOf(Current(handlers[a])) /\ p.event \in Nat
               /\ NamedInv(ingestRequest, p, lastEventID')
               /\ lastEventID' \in Nat /\ lastEventID' >= lastEventID
               /\ \A q \in publishedRecords : RecordsApart(p, q) /\ RecordsApart(q, p)
  <1> DEFINE R == ingestRequest
             i == handlers[a].next
             p == Published(a, handlers[a])
             e == EventIDOf(Current(handlers[a]))
  <1>1. R \in IngestRequests /\ lastEventID \in Nat /\ lastEventID >= FirstGeneratedID
    BY DEF IngestInv
  <1>2. /\ p.attempt = a /\ p.record = i /\ p.event = e
        /\ p.change = ChangeIDOf(Current(handlers[a]))
    BY DEF Published
  <1>3. KeepsID(Current(handlers[a])) <=> KeptID(R, i)
    BY DEF KeepsID, KeptID, Current, Records
  <1>4. e = IF KeptID(R, i) THEN R.records[i].id ELSE lastEventID + 1
    BY <1>3 DEF EventIDOf, Current, Records
  <1>5. lastEventID' = IF KeptID(R, i) THEN lastEventID ELSE lastEventID + 1
    BY <1>3
  <1>6. R.endpoint = "change" /\ R.records[i].id # 0 => p.change = R.records[i].id
    BY <1>2 DEF ChangeIDOf, Current, Records
  <1>7. /\ R.records[i].id \in Nat /\ R.records[i].id < FirstGeneratedID
        /\ DOMAIN R.records = 1..Len(R.records) /\ Len(R.records) \in Nat
        /\ ~OTLP(R) => Len(R.records) = 1
        /\ OTLP(R) <=> R.endpoint \notin {"event", "metric", "change"}
    BY <1>1, RequestFacts, Zenon
  <1>8. PublishedBelow(R, a, i, publishedRecords)
    BY PublishingFacts, Zenon
  <1>9. i \notin Below(R, i)
    BY <1>1, BelowFacts, Zenon
  <1>10. \A q \in publishedRecords : q.attempt = a => q.record # i
    BY <1>8, <1>9, Zenon DEF PublishedBelow, Has
  <1>11. \A q \in publishedRecords : NamedInv(R, q, lastEventID)
    BY Zenon DEF IngestInv
  <1> HIDE DEF p, e, R, i
  <1>12. lastEventID' \in Nat /\ lastEventID' >= lastEventID /\ e \in Nat
    BY <1>1, <1>4, <1>5, <1>7
  <1>13. i \in DOMAIN R.records
    BY DEF i, R
  <1>14. NamedInv(R, p, lastEventID')
    <2>1. KeptID(R, i) => e = R.records[i].id
      BY <1>4
    <2>2. ~KeptID(R, i) => e > FirstGeneratedID /\ e <= lastEventID'
      BY <1>1, <1>4, <1>5 DEF FirstGeneratedID
    <2> QED
      BY <1>2, <1>6, <1>12, <1>13, <2>1, <2>2 DEF NamedInv
  <1>15. \A q \in publishedRecords : q.event = e => q.record = i
    <2> SUFFICES ASSUME NEW q \in publishedRecords, q.event = e
                 PROVE  q.record = i
      OBVIOUS
    <2>1. /\ q.record \in DOMAIN R.records /\ q.event \in Nat
          /\ KeptID(R, q.record) => q.event = R.records[q.record].id
          /\ ~KeptID(R, q.record) => q.event > FirstGeneratedID /\ q.event <= lastEventID
      BY <1>11, Zenon DEF NamedInv
    <2>2. CASE OTLP(R)
      <3>1. ~KeptID(R, i) /\ ~KeptID(R, q.record)
        BY <2>2, <1>7 DEF KeptID
      <3> QED
        BY <3>1, <2>1, <1>1, <1>4
    <2>3. CASE ~OTLP(R)
      <3>1. DOMAIN R.records = 1..1
        BY <2>3, <1>7, Zenon
      <3> QED
        BY <3>1, <2>1, <1>13
    <2> QED
      BY <2>2, <2>3
  <1>16. \A q \in publishedRecords : RecordsApart(p, q) /\ RecordsApart(q, p)
    BY <1>2, <1>10, <1>15, Zenon DEF RecordsApart
  <1> QED
    BY <1>2, <1>12, <1>14, <1>16 DEF p, e, R, i

\* A step of one handler that publishes a record.
LEMMA PublishStep ==
    ASSUME IngestInv, NEW a \in DOMAIN handlers, NEW h \in IngestHandler, NEW p,
           handlers' = [handlers EXCEPT ![a] = h], ingestRequest' = ingestRequest,
           publishedRecords' = publishedRecords \cup {p}, p.attempt = a, Passes,
           lastEventID' \in Nat, lastEventID' >= lastEventID,
           NamedInv(ingestRequest, p, lastEventID'),
           \A q \in publishedRecords : RecordsApart(p, q) /\ RecordsApart(q, p),
           HandlerInv(ingestRequest, Passes, a, h, publishedRecords')
    PROVE  IngestInv'
  <1>1. /\ handlers \in Seq(IngestHandler) /\ lastEventID \in Nat
        /\ lastEventID >= FirstGeneratedID /\ FirstGeneratedID \in Nat
    BY DEF IngestInv, FirstGeneratedID
  <1>2. handlers' \in Seq(IngestHandler) /\ DOMAIN handlers' = DOMAIN handlers
    BY <1>1
  <1>3. \A b \in DOMAIN handlers : handlers'[b] = IF b = a THEN h ELSE handlers[b]
    BY <1>1
  <1>4. Passes' = Passes
    BY PassesSame
  <1>5. \A b \in DOMAIN handlers' :
           HandlerInv(ingestRequest, Passes, b, handlers'[b], publishedRecords')
    <2> SUFFICES ASSUME NEW b \in DOMAIN handlers, b # a
                 PROVE  HandlerInv(ingestRequest, Passes, b, handlers[b], publishedRecords')
      BY <1>2, <1>3, Zenon
    <2>1. HandlerInv(ingestRequest, Passes, b, handlers[b], publishedRecords)
      BY Zenon DEF IngestInv
    <2>2. /\ publishedRecords \subseteq publishedRecords'
          /\ \A q \in publishedRecords' \ publishedRecords : q.attempt # b
      BY Zenon
    <2> QED
      BY <2>1, <2>2, HandlerFrame, Zenon
  <1>6. \A q \in publishedRecords : NamedInv(ingestRequest, q, lastEventID')
    <2>1. \A q \in publishedRecords : NamedInv(ingestRequest, q, lastEventID)
      BY Zenon DEF IngestInv
    <2> QED
      BY <1>1, <2>1 DEF NamedInv
  <1>7. \A q \in publishedRecords' :
           q.attempt \in DOMAIN handlers' /\ NamedInv(ingestRequest, q, lastEventID')
    BY <1>2, <1>6, Zenon DEF IngestInv
  <1>8. \A q, r \in publishedRecords' : RecordsApart(q, r)
    <2>1. RecordsApart(p, p)
      BY Zenon DEF RecordsApart
    <2>2. \A q, r \in publishedRecords : RecordsApart(q, r)
      BY Zenon DEF IngestInv
    <2> QED
      BY <2>1, <2>2, Zenon
  <1>9. lastEventID' >= FirstGeneratedID
    BY <1>1
  <1> QED
    BY <1>2, <1>4, <1>5, <1>7, <1>8, <1>9, Zenon DEF IngestInv

\* A record is published and the handler goes on; or it answers 503, and the
\* record may be published all the same.
LEMMA PublishRecordInv ==
    ASSUME IngestInv, NEW a \in DOMAIN handlers, PublishRecord(a)
    PROVE  IngestInv'
  <1> DEFINE h == handlers[a]
             R == ingestRequest
             i == h.next
             p == Published(a, h)
             P == publishedRecords
             Q == P \cup {p}
             g == [h EXCEPT !.next = i + 1, !.named = EventIDOf(Current(h))]
             f == Answer(h, 503)
  <1>1. h \in IngestHandler /\ R \in IngestRequests
    BY HandlerFacts, Zenon
  <1>2. /\ h.phase = "publishing" /\ i <= Len(R.records) /\ R.records[i].supported
        /\ ingestRequest' = ingestRequest
        /\ lastEventID' = IF KeepsID(Current(h)) THEN lastEventID ELSE lastEventID + 1
    BY DEF PublishRecord, Current, Records
  <1>3. /\ Passes /\ PublishedBelow(R, a, i, P)
        /\ i \in Nat \ {0} /\ h.rejected \in Int
        /\ Len(R.records) \in Nat /\ DOMAIN R.records = 1..Len(R.records)
        /\ h.rejected = (i - 1) - Cardinality(Below(R, i))
    BY <1>2, PublishingFacts, Zenon
  <1>4. i \in DOMAIN R.records
    BY <1>2, <1>3
  <1>5. /\ p.attempt = a /\ p.record = i
        /\ p.event = EventIDOf(Current(h)) /\ p.event \in Nat
        /\ NamedInv(R, p, lastEventID')
        /\ lastEventID' \in Nat /\ lastEventID' >= lastEventID
        /\ \A q \in P : RecordsApart(p, q) /\ RecordsApart(q, p)
    BY <1>2, <1>4, PublishedFacts, Zenon
  <1>6. /\ Below(R, i + 1) = Below(R, i) \cup {i}
        /\ Cardinality(Below(R, i + 1)) = Cardinality(Below(R, i)) + 1
        /\ Cardinality(Below(R, i)) \in Nat
    <2> HIDE DEF R, h, i
    <2> QED
      BY <1>1, <1>2, <1>4, BelowFacts, Zenon
  <1>7. PublishedBelow(R, a, i + 1, Q)
    <2> HIDE DEF R, i, p, P
    <2>1. \A j : Has(a, j, Q) <=> Has(a, j, P) \/ j = i
      BY <1>5, Zenon DEF Has
    <2> QED
      BY <1>3, <1>6, <2>1, Zenon DEF PublishedBelow
  <1>8. /\ f \in IngestHandler /\ f.answer = 503 /\ f.next = i
    BY <1>1, AnswerFacts
  <1>9. CASE P' = Q /\ handlers' = [handlers EXCEPT ![a] = g]
    <2>1. i + 1 \in Nat \ {0} /\ EventIDOf(Current(h)) \in Nat
      BY <1>3, <1>5
    <2>2. /\ g \in IngestHandler /\ g.phase = h.phase /\ g.next = i + 1
          /\ g.rejected = h.rejected /\ g.named = EventIDOf(Current(h))
      <3> HIDE DEF h, i
      <3> QED
        BY <1>1, <2>1, Zenon DEF IngestHandler
    <2>3. HasNamed(a, g, Q)
      <3> HIDE DEF g, h, p, P
      <3> QED
        BY <1>5, <2>2, Zenon DEF HasNamed
    <2>4. HandlerInv(R, Passes, a, g, Q)
      <3> HIDE DEF g, h, R, i, p, P, Q
      <3>1. g.next <= Len(R.records) + 1 /\ g.rejected = (g.next - 1) - Cardinality(Below(R, g.next))
        BY <1>2, <1>3, <1>6, <2>2
      <3>2. g.phase = "publishing" /\ PublishedBelow(R, a, g.next, Q)
        BY <1>2, <1>7, <2>2, Zenon
      <3> QED
        BY <1>3, <2>3, <3>1, <3>2 DEF HandlerInv
    <2> HIDE DEF g, h, p
    <2> QED
      BY <1>2, <1>3, <1>5, <1>9, <2>2, <2>4, PublishStep, Zenon
  <1>10. CASE P' = Q /\ handlers' = [handlers EXCEPT ![a] = f]
    <2>1. AnswerInv(R, Passes, a, f, Q)
      <3> HIDE DEF f, R, i, p, P, Q
      <3> QED
        BY <1>7, <1>8 DEF AnswerInv
    <2>2. HandlerInv(R, Passes, a, f, Q)
      BY <2>1, AnswerStep
    <2> HIDE DEF f, h, p
    <2> QED
      BY <1>2, <1>3, <1>5, <1>8, <1>10, <2>2, PublishStep, Zenon
  <1>11. CASE P' = P /\ handlers' = [handlers EXCEPT ![a] = f]
    <2>1. AnswerInv(R, Passes, a, f, P)
      <3> HIDE DEF f, R, i, P
      <3> QED
        BY <1>3, <1>8 DEF AnswerInv
    <2>2. HandlerInv(R, Passes, a, f, P)
      BY <2>1, AnswerStep
    <2> HIDE DEF f, h
    <2> QED
      BY <1>2, <1>5, <1>8, <1>11, <2>2, HandlerStep, Zenon
  <1>12. AfterFailure(h) = f
    BY DEF AfterFailure
  <1> QED
    BY <1>9, <1>10, <1>11, <1>12, Zenon DEF PublishRecord

\* The three kinds of answers exclude each other.
LEMMA AnswerRanges ==
    ASSUME NEW n
    PROVE  /\ n \in 400..499 => n \notin {200, 202} /\ n \notin 500..599
           /\ n \in 500..599 => n \notin {200, 202} /\ n \notin 400..499
  OBVIOUS

\* The inductive invariant says what the answers and the names say.
LEMMA IngestHonestHolds == IngestInv => IngestHonest
  <1> SUFFICES ASSUME IngestInv
               PROVE  IngestHonest
    OBVIOUS
  <1> DEFINE R == ingestRequest
  <1>1. /\ R \in IngestRequests /\ Records = R.records
        /\ Len(R.records) \in Nat /\ DOMAIN R.records = 1..Len(R.records)
    BY RequestFacts, Zenon DEF IngestInv, Records
  <1> DEFINE mine(a) == {p \in publishedRecords : p.attempt = a}
             supported == {i \in DOMAIN R.records : R.records[i].supported}
             done(a) == {p.record : p \in mine(a)}
  <1>2. ASSUME NEW a \in DOMAIN handlers, handlers[a].phase = "answered"
        PROVE  /\ handlers[a].answer \in {200, 202} =>
                      /\ done(a) = supported
                      /\ handlers[a].rejected = Len(R.records) - Cardinality(supported)
                      /\ handlers[a].answer = 202 => \E p \in mine(a) : p.event = handlers[a].named
               /\ handlers[a].answer \notin {200, 202} /\ handlers[a].answer < 500 =>
                      mine(a) = {} /\ ("future" \in R.fails \/ publishedRecords = {})
               /\ handlers[a].answer >= 500 =>
                      done(a) \in {{i \in supported : i < handlers[a].next},
                                  {i \in supported : i <= handlers[a].next}}
    <2> DEFINE h == handlers[a]
    <2>1. /\ h \in IngestHandler /\ HandlerInv(R, Passes, a, h, publishedRecords)
      BY HandlerFacts, Zenon
    <2>2. \A p \in publishedRecords : p.record \in DOMAIN R.records
      BY Zenon DEF IngestInv, NamedInv
    <2>3. \A i : i \in done(a) <=> Has(a, i, publishedRecords)
      BY Zenon DEF Has
    <2>4. \A i \in done(a) : i \in DOMAIN R.records
      BY <2>2, Zenon
    <2>5. \A n : PublishedBelow(R, a, n, publishedRecords) => done(a) = Below(R, n)
      <3> HIDE DEF done, R
      <3>1. \A n : \A i \in Below(R, n) : i \in DOMAIN R.records
        BY Zenon DEF Below
      <3> QED
        BY <2>3, <2>4, <3>1, Zenon DEF PublishedBelow
    <2>6. AnswerInv(R, Passes, a, h, publishedRecords)
      BY <1>2, <2>1, Zenon DEF HandlerInv
    <2>7. h.rejected = (h.next - 1) - Cardinality(Below(R, h.next)) /\ h.next \in Nat
      BY <2>1, Zenon DEF HandlerInv, IngestHandler
    <2>8. Below(R, Len(R.records) + 1) = supported
      BY <1>1, BelowEnds, Zenon
    <2>9. ASSUME h.answer \in {200, 202}
          PROVE  /\ done(a) = supported
                 /\ h.rejected = Len(R.records) - Cardinality(supported)
                 /\ h.answer = 202 => \E p \in mine(a) : p.event = h.named
      <3>1. /\ h.next = Len(R.records) + 1 /\ PublishedBelow(R, a, h.next, publishedRecords)
            /\ h.answer = 202 => HasNamed(a, h, publishedRecords)
        <4> HIDE DEF h, R
        <4> QED
          BY <2>6, <2>9, AnswerRanges, Zenon DEF AnswerInv
      <3>2. done(a) = supported
        BY <2>5, <2>8, <3>1, Zenon
      <3>3. h.rejected = Len(R.records) - Cardinality(supported)
        <4> HIDE DEF h, R, supported
        <4> QED
          BY <1>1, <2>7, <2>8, <3>1
      <3>4. h.answer = 202 => \E p \in mine(a) : p.event = h.named
        BY <3>1, Zenon DEF HasNamed
      <3> QED
        BY <3>2, <3>3, <3>4, Zenon
    <2>10. ASSUME h.answer \in 400..499
           PROVE  mine(a) = {} /\ ("future" \in R.fails \/ publishedRecords = {})
      <3>1. /\ \A i \in DOMAIN R.records : ~Has(a, i, publishedRecords)
            /\ "future" \in R.fails \/ ~Passes
        <4> HIDE DEF h, R
        <4>1. h.answer \notin {200, 202} /\ h.answer \notin 500..599
          BY <2>10
        <4> QED
          BY <2>6, <2>10, <4>1, Zenon DEF AnswerInv
      <3>2. mine(a) = {}
        BY <2>2, <3>1, Zenon DEF Has
      <3>3. "future" \in R.fails \/ publishedRecords = {}
        BY <3>1, Zenon DEF IngestInv
      <3> QED
        BY <3>2, <3>3, Zenon
    <2>11. ASSUME h.answer \in 500..599
           PROVE  done(a) \in {{i \in supported : i < h.next}, {i \in supported : i <= h.next}}
      <3>1. PublishedBelow(R, a, h.next, publishedRecords) \/ PublishedBelow(R, a, h.next + 1, publishedRecords)
        <4> HIDE DEF h, R
        <4> QED
          BY <2>6, <2>11, AnswerRanges, Zenon DEF AnswerInv
      <3>2. done(a) = Below(R, h.next) \/ done(a) = Below(R, h.next + 1)
        BY <2>5, <3>1, Zenon
      <3>3. /\ Below(R, h.next) = {i \in supported : i < h.next}
            /\ Below(R, h.next + 1) = {i \in supported : i <= h.next}
        <4> HIDE DEF h
        <4> QED
          BY <1>1, <2>7 DEF Below
      <3>4. done(a) \in {{i \in supported : i < h.next}, {i \in supported : i <= h.next}}
        BY <3>2, <3>3, Zenon
      <3> QED
        BY <3>4, Zenon
    <2>12. h.answer \in {200, 202} \cup 400..499 \cup 500..599
      BY <2>6, Zenon DEF AnswerInv
    <2>13. /\ h.answer \notin {200, 202} /\ h.answer < 500 => h.answer \in 400..499
           /\ h.answer >= 500 => h.answer \in 500..599
      <3> HIDE DEF h
      <3> QED
        BY <2>12
    <2> HIDE DEF done, mine, supported
    <2>14. h.answer \notin {200, 202} /\ h.answer < 500 =>
              mine(a) = {} /\ ("future" \in R.fails \/ publishedRecords = {})
      BY <2>10, <2>13, Zenon
    <2>15. h.answer >= 500 =>
              done(a) \in {{i \in supported : i < h.next}, {i \in supported : i <= h.next}}
      BY <2>11, <2>13, Zenon
    <2> QED
      BY <2>9, <2>14, <2>15, Zenon
  <1>6. AnswersHonest
    BY <1>2, Zenon DEF AnswersHonest, Records
  <1>4. ASSUME NEW p \in publishedRecords, NEW q \in publishedRecords
        PROVE  /\ p.record # q.record => p.event # q.event
               /\ p.record = q.record =>
                     /\ Records[p.record].id # 0 /\ ingestRequest.endpoint # "change" =>
                           p.event = Records[p.record].id
                     /\ Records[p.record].id # 0 /\ ingestRequest.endpoint = "change" =>
                           p.change = q.change
                     /\ p.attempt = q.attempt => p = q
    <2>1. NamedInv(R, p, lastEventID) /\ NamedInv(R, q, lastEventID) /\ RecordsApart(p, q)
      BY Zenon DEF IngestInv
    <2>2. /\ p.record \in DOMAIN R.records
          /\ KeptID(R, p.record) => p.event = R.records[p.record].id
          /\ R.endpoint = "change" /\ R.records[p.record].id # 0 => p.change = R.records[p.record].id
          /\ R.endpoint = "change" /\ R.records[q.record].id # 0 => q.change = R.records[q.record].id
      BY <2>1, Zenon DEF NamedInv
    <2>3. /\ OTLP(R) => R.records[p.record].id = 0
          /\ OTLP(R) <=> R.endpoint \notin {"event", "metric", "change"}
      BY <1>1, <2>2, RequestFacts, Zenon
    <2>4. R.records[p.record].id # 0 /\ R.endpoint # "change" => KeptID(R, p.record)
      BY <2>3 DEF KeptID
    <2> QED
      BY <1>1, <2>1, <2>2, <2>4, Zenon DEF RecordsApart
  <1>5. RetriesRecognised
    BY <1>4, Zenon DEF RetriesRecognised
  <1> QED
    BY <1>5, <1>6 DEF IngestHonest

\* The client's receipt of an answer, and steps of others, change nothing here.
LEMMA IngestStutterInv ==
    ASSUME IngestInv, UNCHANGED <<ingestRequest, handlers, publishedRecords, lastEventID>>
    PROVE  IngestInv'
  <1>1. Passes' = Passes
    BY PassesSame
  <1> QED
    BY <1>1, Zenon DEF IngestInv

\* The invariant holds from the first request on.
THEOREM IngestInvariance == IngestSpec => []IngestInv
  <1>1. IngestInit => IngestInv
    BY DEF IngestInit, IngestInv, FirstGeneratedID
  <1>2. IngestInv /\ [IngestNext]_ingestVars => IngestInv'
    <2> SUFFICES ASSUME IngestInv, [IngestNext]_ingestVars
                 PROVE  IngestInv'
      OBVIOUS
    <2>1. CASE SendRequest
      BY <2>1, SendRequestInv, Zenon
    <2>2. CASE ReceiveAnswer
      BY <2>2, IngestStutterInv, Zenon DEF ReceiveAnswer
    <2>3. CASE \E a \in DOMAIN handlers :
                  \/ CheckRequest(a) \/ RejectRecord(a) \/ PublishRecord(a)
                  \/ NamingFails(a) \/ FinishRequest(a)
      BY <2>3, CheckRequestInv, RejectRecordInv, PublishRecordInv, NamingFailsInv,
         FinishRequestInv, Zenon
    <2>4. CASE UNCHANGED ingestVars
      BY <2>4, IngestStutterInv, Zenon DEF ingestVars
    <2> QED
      BY <2>1, <2>2, <2>3, <2>4, Zenon DEF IngestNext
  <1> QED
    BY <1>1, <1>2, PTL DEF IngestSpec

\* What the gateway answers is what it has published, for any requests and any
\* number of attempts that overlap: a success means that the attempt published
\* every record it does not report as rejected, a 4xx that it published nothing,
\* an error that it stopped at its first failure; and a retry of a record with an
\* ID of the client's publishes it under that ID again (handleEvent,
\* handleMetric, handleChange and the OTLP handlers).
THEOREM AnswersAreHonest == IngestSpec => []IngestHonest
  BY IngestInvariance, IngestHonestHolds, PTL

-----------------------------------------------------------------------------
(***************************************************************************)
(* The live feed: the cursor passes nothing over.                          *)
(***************************************************************************)

FeedSpec == FeedInit /\ [][FeedNext]_feedVars

FeedRow == [id : EventNumbers, at : Nat]
Cursor == Int \X Nat

\* The rows of A before r, in the order of the feed.
Earlier(A, r) == {q \in A : Later(Key(r), Key(q))}

\* The number of rows of A before r.
RankIn(A, r) == Cardinality(Earlier(A, r))

\* Event identifiers name rows.
OneRowEach(A) == \A q, r \in A : q.id = r.id => q = r

\* The keys of rows are cursors.
LEMMA KeyFacts ==
    ASSUME NEW r \in FeedRow
    PROVE  Key(r) \in Cursor /\ Key(r)[1] = r.at /\ Key(r)[2] = r.id /\ r.at \in Nat /\ r.id \in Nat
  <1>1. r.at \in Nat /\ r.id \in Nat
    BY FeedAssumption, Zenon DEF FeedRow
  <1> QED
    BY <1>1 DEF Key, Cursor

\* The comparison of the query is a strict order, total on cursors.
LEMMA LaterOrder ==
    ASSUME NEW a \in Cursor, NEW b \in Cursor, NEW c \in Cursor
    PROVE  /\ ~Later(a, a)
           /\ Later(a, b) /\ Later(b, c) => Later(a, c)
           /\ Later(a, b) => ~Later(b, a)
           /\ ~Later(a, b) /\ ~Later(b, a) => a = b
  BY DEF Cursor, Later

\* Rows with the same key are the same row.
LEMMA KeyNames ==
    ASSUME NEW A, A \subseteq FeedRow, OneRowEach(A), NEW q \in A, NEW r \in A, Key(q) = Key(r)
    PROVE  q = r
  <1>1. q.id = r.id
    BY KeyFacts
  <1> QED
    BY <1>1, Zenon DEF OneRowEach

\* Places count up in the order of the feed, and every place is taken.
LEMMA RankFacts ==
    ASSUME NEW A, A \subseteq FeedRow, IsFiniteSet(A), OneRowEach(A)
    PROVE  /\ Cardinality(A) \in Nat
           /\ \A r \in A : RankIn(A, r) \in 0..(Cardinality(A) - 1)
           /\ \A q, r \in A : Later(Key(r), Key(q)) => RankIn(A, q) < RankIn(A, r)
           /\ \A k \in 1..Cardinality(A) : \E r \in A : RankIn(A, r) = k - 1
  <1> DEFINE n == Cardinality(A)
  <1>1. n \in Nat
    BY FS_CardinalityType, Zenon
  <1>2. \A r \in A : IsFiniteSet(Earlier(A, r)) /\ RankIn(A, r) \in Nat /\ r \notin Earlier(A, r)
    <2> SUFFICES ASSUME NEW r \in A
                 PROVE  IsFiniteSet(Earlier(A, r)) /\ RankIn(A, r) \in Nat /\ r \notin Earlier(A, r)
      BY Zenon
    <2>1. Earlier(A, r) \subseteq A
      BY Zenon DEF Earlier
    <2>2. IsFiniteSet(Earlier(A, r))
      BY <2>1, FS_Subset, Zenon
    <2>3. RankIn(A, r) \in Nat
      BY <2>2, FS_CardinalityType, Zenon DEF RankIn
    <2>4. ~Later(Key(r), Key(r))
      BY KeyFacts, LaterOrder, Zenon
    <2> QED
      BY <2>2, <2>3, <2>4, Zenon DEF Earlier
  <1>3. \A r \in A : RankIn(A, r) < n
    <2> SUFFICES ASSUME NEW r \in A
                 PROVE  RankIn(A, r) < n
      BY Zenon
    <2>1. Earlier(A, r) \subseteq A /\ Earlier(A, r) # A
      BY <1>2, Zenon DEF Earlier
    <2>2. Cardinality(Earlier(A, r)) <= n /\ Cardinality(Earlier(A, r)) # n
      BY <2>1, FS_Subset, Zenon
    <2> HIDE DEF n
    <2> QED
      BY <1>1, <1>2, <2>2 DEF RankIn
  <1>4. \A q, r \in A : Later(Key(r), Key(q)) => RankIn(A, q) < RankIn(A, r)
    <2> SUFFICES ASSUME NEW q \in A, NEW r \in A, Later(Key(r), Key(q))
                 PROVE  RankIn(A, q) < RankIn(A, r)
      BY Zenon
    <2>1. Key(q) \in Cursor /\ Key(r) \in Cursor /\ \A x \in A : Key(x) \in Cursor
      BY KeyFacts, Zenon
    <2>2. \A x \in A : Later(Key(q), Key(x)) => Later(Key(r), Key(x))
      BY <2>1, LaterOrder, Zenon
    <2>3. Earlier(A, q) \subseteq Earlier(A, r) /\ q \in Earlier(A, r)
      BY <2>2, Zenon DEF Earlier
    <2>4. Earlier(A, q) # Earlier(A, r)
      BY <1>2, <2>3, Zenon
    <2>5. RankIn(A, q) <= RankIn(A, r) /\ RankIn(A, q) # RankIn(A, r)
      BY <1>2, <2>3, <2>4, FS_Subset, Zenon DEF RankIn
    <2> QED
      BY <1>2, <2>5
  <1> DEFINE f == [r \in A |-> RankIn(A, r)]
             T == 0..(n - 1)
  <1>5. \A q, r \in A : RankIn(A, q) = RankIn(A, r) => q = r
    <2> SUFFICES ASSUME NEW q \in A, NEW r \in A, q # r
                 PROVE  RankIn(A, q) # RankIn(A, r)
      BY Zenon
    <2>1. Key(q) # Key(r) /\ Key(q) \in Cursor /\ Key(r) \in Cursor
      BY KeyFacts, KeyNames, Zenon
    <2>2. Later(Key(q), Key(r)) \/ Later(Key(r), Key(q))
      BY <2>1, LaterOrder, Zenon
    <2> QED
      BY <1>2, <1>4, <2>2
  <1>6. \A r \in A : RankIn(A, r) \in T
    <2> HIDE DEF n
    <2> QED
      BY <1>1, <1>2, <1>3
  <1>7. f \in Injection(A, T)
    <2> HIDE DEF T
    <2> QED
      BY <1>5, <1>6, Zenon DEF Injection, IsInjective
  <1>8. IsFiniteSet(T) /\ Cardinality(T) = n
    <2> HIDE DEF n
    <2> QED
      BY <1>1, FS_Interval
  <1>9. f \in Surjection(A, T)
    <2> HIDE DEF T, f
    <2> QED
      BY <1>7, <1>8, FS_Injection, Zenon
  <1>10. \A t \in T : \E r \in A : RankIn(A, r) = t
    <2> HIDE DEF T
    <2> QED
      BY <1>9, Zenon DEF Surjection
  <1>11. \A k \in 1..n : k - 1 \in T
    <2> HIDE DEF n
    <2> QED
      BY <1>1
  <1> QED
    BY <1>1, <1>4, <1>6, <1>10, <1>11, Zenon

\* The page after cursor c: rows ahead of it, in order, with none left out.
PageOf(c, page) ==
    /\ page \in Seq(rows) /\ DOMAIN page = 1..Len(page)
    /\ \A k \in 1..Len(page) : page[k] \in rows /\ Later(Key(page[k]), c)
    /\ \A j, k \in 1..Len(page) : j < k => Later(Key(page[k]), Key(page[j]))
    /\ \A k \in 1..Len(page) : \A q \in rows :
          Later(Key(q), c) /\ ~Later(Key(q), Key(page[k])) => \E j \in 1..k : page[j] = q

\* LiveEvents computes that page.
LEMMA LiveEventsPage ==
    ASSUME rows \subseteq FeedRow, IsFiniteSet(rows), OneRowEach(rows), NEW c \in Cursor
    PROVE  PageOf(c, LiveEvents(c))
  <1> DEFINE A == Ahead(c)
             n == Cardinality(A)
             m == IF n < PollLimit THEN n ELSE PollLimit
             Row(k) == CHOOSE r \in A : RankIn(A, r) = k - 1
             page == LiveEvents(c)
  <1>1. A \subseteq rows /\ A \subseteq FeedRow /\ \A r \in rows : r \in A <=> Later(Key(r), c)
    BY Zenon DEF Ahead
  <1>2. IsFiniteSet(A) /\ OneRowEach(A)
    BY <1>1, FS_Subset, Zenon DEF OneRowEach
  <1> HIDE DEF A
  <1>3. /\ n \in Nat
        /\ \A r \in A : RankIn(A, r) \in 0..(n - 1)
        /\ \A q, r \in A : Later(Key(r), Key(q)) => RankIn(A, q) < RankIn(A, r)
        /\ \A k \in 1..n : \E r \in A : RankIn(A, r) = k - 1
    BY <1>1, <1>2, RankFacts, Zenon
  <1>4. page = [k \in 1..m |-> Row(k)]
    BY Zenon DEF LiveEvents, RankIn, Earlier, A
  <1> HIDE DEF n, page
  <1>5. m \in Nat /\ m <= n
    BY <1>3, FeedAssumption
  <1> HIDE DEF m
  <1>6. \A k \in 1..m : k \in 1..n
    BY <1>3, <1>5
  <1>7. \A k \in 1..m : Row(k) \in A /\ RankIn(A, Row(k)) = k - 1
    BY <1>3, <1>6, Zenon
  <1> HIDE DEF Row
  <1>8. page \in Seq(rows) /\ Len(page) = m /\ DOMAIN page = 1..m
    <2>1. \A k \in 1..m : Row(k) \in rows
      BY <1>1, <1>7, Zenon
    <2> QED
      BY <1>4, <1>5, <2>1
  <1>9. \A k \in 1..m : page[k] \in A /\ RankIn(A, page[k]) = k - 1
    BY <1>4, <1>7, Zenon
  <1>10. \A r \in A : Key(r) \in Cursor
    BY <1>1, KeyFacts, Zenon
  <1>11. \A q, r \in A : RankIn(A, q) = RankIn(A, r) => q = r
    <2> SUFFICES ASSUME NEW q \in A, NEW r \in A, q # r
                 PROVE  RankIn(A, q) # RankIn(A, r)
      BY Zenon
    <2>1. Key(q) # Key(r) /\ Key(q) \in Cursor /\ Key(r) \in Cursor
      BY <1>1, <1>2, <1>10, KeyNames, Zenon
    <2>2. Later(Key(q), Key(r)) \/ Later(Key(r), Key(q))
      BY <2>1, LaterOrder, Zenon
    <2> QED
      BY <1>3, <2>2
  <1>12. \A j, k \in 1..m : j < k => Later(Key(page[k]), Key(page[j]))
    <2> SUFFICES ASSUME NEW j \in 1..m, NEW k \in 1..m, j < k
                 PROVE  Later(Key(page[k]), Key(page[j]))
      BY Zenon
    <2>1. page[j] \in A /\ page[k] \in A /\ RankIn(A, page[j]) < RankIn(A, page[k])
      BY <1>9
    <2>2. ~Later(Key(page[j]), Key(page[k]))
      BY <1>3, <2>1
    <2>3. Key(page[j]) # Key(page[k])
      BY <1>1, <1>2, <1>3, <2>1, KeyNames
    <2> QED
      BY <1>10, <2>1, <2>2, <2>3, LaterOrder, Zenon
  <1>13. \A k \in 1..m : \A q \in A : ~Later(Key(q), Key(page[k])) => \E j \in 1..k : page[j] = q
    <2> SUFFICES ASSUME NEW k \in 1..m, NEW q \in A, ~Later(Key(q), Key(page[k]))
                 PROVE  \E j \in 1..k : page[j] = q
      BY Zenon
    <2>1. page[k] \in A /\ RankIn(A, page[k]) = k - 1
      BY <1>9, Zenon
    <2>2. q = page[k] \/ Later(Key(page[k]), Key(q))
      BY <1>1, <1>2, <1>10, <2>1, KeyNames, LaterOrder, Zenon
    <2>3. RankIn(A, q) \in Nat /\ RankIn(A, q) <= k - 1
      BY <1>3, <2>1, <2>2
    <2>4. PICK j \in 1..k : j = RankIn(A, q) + 1
      BY <2>3
    <2>5. j \in 1..m
      BY <1>5, <2>4
    <2>6. page[j] \in A /\ RankIn(A, page[j]) = RankIn(A, q)
      BY <1>9, <2>3, <2>4, <2>5
    <2>7. page[j] = q
      BY <1>11, <2>6, Zenon
    <2> QED
      BY <2>7
  <1>14. PageOf(c, page)
    BY <1>1, <1>8, <1>9, <1>12, <1>13, Zenon DEF PageOf
  <1> QED
    BY <1>14, Zenon DEF page

\* What is known of an event that was shown: its row is not ahead of cursor c.
ShownBehind(c) ==
    \A k \in DOMAIN shown : \E r \in rows : r.id = shown[k] /\ ~Later(Key(r), c)

\* The inductive invariant.
FeedInv ==
    /\ dbClock \in Nat
    /\ rows \cup inserting \subseteq FeedRow /\ OneRowEach(rows \cup inserting)
    /\ IsFiniteSet(rows)
    /\ stream = {} \/ \E c \in Cursor : stream = {c}
    /\ lastID = {} \/ \E c \in Cursor : lastID = {c}
    /\ stream # {} /\ lastID # {} => stream = lastID
    /\ shown \in Seq(EventNumbers)
    /\ lastID = {} => shown = <<>>
    /\ \A c \in stream \cup lastID : ShownBehind(c)
    /\ PassedShown
    /\ ShownOnce

\* A new transaction has a row of its own.
LEMMA BeginInsertInv ==
    ASSUME FeedInv, NEW e \in EventNumbers, BeginInsert(e)
    PROVE  FeedInv'
  <1> DEFINE r == [id |-> e, at |-> dbClock]
  <1>1. r \in FeedRow /\ r.id = e
    BY DEF FeedInv, FeedRow
  <1>2. /\ \A q \in rows \cup inserting : q.id # e
        /\ (rows \cup inserting)' = (rows \cup inserting) \cup {r}
        /\ UNCHANGED <<dbClock, rows, stream, shown, lastID, late>>
    BY Zenon DEF BeginInsert
  <1> HIDE DEF r
  <1>3. (rows \cup inserting)' \subseteq FeedRow /\ OneRowEach((rows \cup inserting)')
    BY <1>1, <1>2, Zenon DEF FeedInv, OneRowEach
  <1>4. PassedShown' /\ ShownOnce'
    BY <1>2, Zenon DEF FeedInv, PassedShown, ShownOnce
  <1>5. \A c \in stream' \cup lastID' : ShownBehind(c)'
    BY <1>2, Zenon DEF FeedInv, ShownBehind
  <1> QED
    BY <1>2, <1>3, <1>4, <1>5, Zenon DEF FeedInv

\* A row that becomes visible behind a cursor counts as late.
LEMMA CommitInsertInv ==
    ASSUME FeedInv, NEW r \in inserting, CommitInsert(r)
    PROVE  FeedInv'
  <1>1. /\ rows' = rows \cup {r} /\ inserting' \subseteq inserting
        /\ late' = late \cup {q \in {r} : \E c \in stream \cup lastID : ~Later(Key(q), c)}
        /\ UNCHANGED <<dbClock, stream, shown, lastID>>
    BY Zenon DEF CommitInsert
  <1>2. (rows \cup inserting)' \subseteq rows \cup inserting
    BY <1>1, Zenon
  <1>3. (rows \cup inserting)' \subseteq FeedRow /\ OneRowEach((rows \cup inserting)')
    BY <1>2, Zenon DEF FeedInv, OneRowEach
  <1>4. IsFiniteSet(rows')
    BY <1>1, FS_AddElement, Zenon DEF FeedInv
  <1>5. PassedShown'
    BY <1>1, Zenon DEF FeedInv, PassedShown
  <1>6. ShownOnce'
    BY <1>1, Zenon DEF FeedInv, ShownOnce
  <1>7. \A c \in stream' \cup lastID' : ShownBehind(c)'
    BY <1>1, Zenon DEF FeedInv, ShownBehind
  <1> QED
    BY <1>1, <1>3, <1>4, <1>5, <1>6, <1>7, Zenon DEF FeedInv

\* A connection starts at the browser's last event, or shows from here on.
LEMMA ConnectInv ==
    ASSUME FeedInv, Connect
    PROVE  FeedInv'
  <1>1. /\ stream = {} /\ stream' = IF lastID = {} THEN {<<dbClock - ConnectMargin, 0>>} ELSE lastID
        /\ late' = late \cup {r \in rows : lastID = {} /\ \E c \in stream' : ~Later(Key(r), c)}
        /\ UNCHANGED <<dbClock, inserting, rows, shown, lastID>>
    BY Zenon DEF Connect
  <1>2. <<dbClock - ConnectMargin, 0>> \in Cursor
    BY FeedAssumption DEF FeedInv, Cursor
  <1>3. CASE lastID = {}
    <2>1. stream' = {<<dbClock - ConnectMargin, 0>>} /\ lastID' = {} /\ shown' = <<>>
      BY <1>1, <1>3, Zenon DEF FeedInv
    <2>2. \A c \in stream' \cup lastID' : ShownBehind(c)'
      <3>1. DOMAIN shown' = {}
        BY <2>1
      <3> QED
        BY <3>1, Zenon DEF ShownBehind
    <2>3. PassedShown'
      BY <1>1, <1>3, Zenon DEF PassedShown
    <2>4. ShownOnce'
      BY <1>1, Zenon DEF FeedInv, ShownOnce
    <2> QED
      BY <1>1, <1>2, <2>1, <2>2, <2>3, <2>4, Zenon DEF FeedInv
  <1>4. CASE lastID # {}
    <2>1. stream' = lastID /\ lastID' = lastID /\ late \subseteq late'
      BY <1>1, <1>4, Zenon
    <2>2. \A c \in stream' \cup lastID' : ShownBehind(c)'
      BY <1>1, <2>1, Zenon DEF FeedInv, ShownBehind
    <2>3. PassedShown'
      BY <1>1, <2>1, Zenon DEF FeedInv, PassedShown
    <2>4. ShownOnce'
      BY <1>1, Zenon DEF FeedInv, ShownOnce
    <2> QED
      BY <1>1, <1>4, <2>1, <2>2, <2>3, <2>4, Zenon DEF FeedInv
  <1> QED
    BY <1>3, <1>4

\* The clock touches nothing the feed shows.
LEMMA ClockTicksInv ==
    ASSUME FeedInv, ClockTicks
    PROVE  FeedInv'
  <1>1. dbClock' \in Nat
    BY DEF FeedInv, ClockTicks
  <1>2. UNCHANGED <<inserting, rows, stream, shown, lastID, late>>
    BY Zenon DEF ClockTicks
  <1>3. PassedShown' /\ ShownOnce' /\ \A c \in stream' \cup lastID' : ShownBehind(c)'
    BY <1>2, Zenon DEF FeedInv, PassedShown, ShownOnce, ShownBehind
  <1> QED
    BY <1>1, <1>2, <1>3, Zenon DEF FeedInv

\* What the browser was shown after the first n events of a page.
LEMMA ReceivesFacts ==
    ASSUME FeedInv, NEW c \in stream, NEW n \in 1..Len(LiveEvents(c)), Receives(LiveEvents(c), n)
    PROVE  /\ c \in Cursor /\ PageOf(c, LiveEvents(c))
           /\ shown' \in Seq(EventNumbers)
           /\ Len(shown) \in Nat /\ DOMAIN shown = 1..Len(shown)
           /\ DOMAIN shown' = 1..(Len(shown) + n)
           /\ \A k \in 1..Len(shown) : shown'[k] = shown[k]
           /\ \A j \in 1..n : shown'[Len(shown) + j] = LiveEvents(c)[j].id
           /\ lastID' = {Key(LiveEvents(c)[n])} /\ Key(LiveEvents(c)[n]) \in Cursor
           /\ \A j \in 1..n : j \in 1..Len(LiveEvents(c))
  <1> DEFINE page == LiveEvents(c)
             more == [k \in 1..n |-> page[k].id]
  <1>1. c \in Cursor
    BY Zenon DEF FeedInv
  <1>2. rows \subseteq FeedRow /\ OneRowEach(rows)
    BY Zenon DEF FeedInv, OneRowEach
  <1>3. PageOf(c, page)
    BY <1>1, <1>2, LiveEventsPage, Zenon DEF FeedInv
  <1>4. shown' = shown \o more /\ lastID' = IF n = 0 THEN lastID ELSE {Key(page[n])}
    BY Zenon DEF Receives
  <1>5. page \in Seq(rows) /\ \A k \in 1..Len(page) : page[k] \in rows
    BY <1>3, Zenon DEF PageOf
  <1> HIDE DEF page
  <1>6. Len(page) \in Nat /\ n \in Nat /\ n # 0 /\ \A j \in 1..n : j \in 1..Len(page)
    BY <1>5 DEF page
  <1>7. \A j \in 1..n : page[j].id \in EventNumbers
    BY <1>2, <1>5, <1>6, Zenon DEF FeedRow
  <1>8. more \in Seq(EventNumbers) /\ Len(more) = n /\ \A j \in 1..n : more[j] = page[j].id
    BY <1>6, <1>7
  <1> HIDE DEF more
  <1>9. shown \in Seq(EventNumbers)
    BY Zenon DEF FeedInv
  <1>10. /\ shown' \in Seq(EventNumbers)
         /\ Len(shown) \in Nat /\ DOMAIN shown = 1..Len(shown)
         /\ DOMAIN shown' = 1..(Len(shown) + n)
         /\ \A k \in 1..Len(shown) : shown'[k] = shown[k]
         /\ \A j \in 1..n : shown'[Len(shown) + j] = more[j]
    <2>1. /\ Len(shown) \in Nat /\ DOMAIN shown = 1..Len(shown)
          /\ Len(shown \o more) = Len(shown) + n /\ shown \o more \in Seq(EventNumbers)
      BY <1>8, <1>9
    <2>2. /\ \A k \in 1..Len(shown) : (shown \o more)[k] = shown[k]
          /\ \A j \in 1..n : (shown \o more)[Len(shown) + j] = more[j]
      BY <1>6, <1>8, <1>9
    <2>3. DOMAIN (shown \o more) = 1..(Len(shown) + n)
      BY <2>1
    <2> QED
      BY <1>4, <2>1, <2>2, <2>3, Zenon
  <1>11. n \in 1..n
    BY <1>6
  <1>12. lastID' = {Key(page[n])} /\ Key(page[n]) \in Cursor
    BY <1>2, <1>4, <1>5, <1>6, <1>11, KeyFacts, Zenon
  <1>13. \A j \in 1..n : shown'[Len(shown) + j] = page[j].id
    BY <1>8, <1>10, Zenon
  <1> QED
    BY <1>1, <1>3, <1>6, <1>10, <1>12, <1>13, Zenon DEF page

\* The first events of a page reach the browser: nothing is passed over and
\* nothing is repeated.
LEMMA ReceivesInv ==
    ASSUME FeedInv, NEW c \in stream, NEW n \in 1..Len(LiveEvents(c)), Receives(LiveEvents(c), n),
           stream' = {} \/ stream' = lastID', UNCHANGED <<dbClock, inserting, rows, late>>
    PROVE  FeedInv'
  <1> DEFINE page == LiveEvents(c)
             L == Len(shown)
             d == Key(page[n])
  <1>1. /\ c \in Cursor /\ PageOf(c, page)
        /\ shown' \in Seq(EventNumbers)
        /\ L \in Nat /\ DOMAIN shown = 1..L
        /\ DOMAIN shown' = 1..(L + n)
        /\ \A k \in 1..L : shown'[k] = shown[k]
        /\ \A j \in 1..n : shown'[L + j] = page[j].id
        /\ lastID' = {d} /\ d \in Cursor
        /\ \A j \in 1..n : j \in 1..Len(page)
    BY ReceivesFacts, Zenon
  <1>2. n \in 1..Len(page) /\ n \in Nat
    OBVIOUS
  <1> HIDE DEF page, L
  <1>3. n \in 1..n /\ \A k \in 1..L : k \in 1..(L + n)
    BY <1>1, <1>2
  <1>4. \A j \in 1..n : L + j \in 1..(L + n)
    BY <1>1, <1>2
  <1>5. \A k \in 1..(L + n) : k \in 1..L \/ \E j \in 1..n : k = L + j
    <2> SUFFICES ASSUME NEW k \in 1..(L + n), k \notin 1..L
                 PROVE  \E j \in 1..n : k = L + j
      BY Zenon
    <2>1. k - L \in 1..n /\ k = L + (k - L)
      BY <1>1, <1>2
    <2> QED
      BY <2>1
  <1>6. rows \subseteq FeedRow /\ OneRowEach(rows)
    BY Zenon DEF FeedInv, OneRowEach
  <1>7. /\ \A k \in 1..Len(page) : page[k] \in rows /\ Later(Key(page[k]), c)
        /\ \A j, k \in 1..Len(page) : j < k => Later(Key(page[k]), Key(page[j]))
        /\ \A k \in 1..Len(page) : \A q \in rows :
              Later(Key(q), c) /\ ~Later(Key(q), Key(page[k])) => \E j \in 1..k : page[j] = q
    BY <1>1, Zenon DEF PageOf
  <1>8. \A r \in rows : Key(r) \in Cursor
    BY <1>6, KeyFacts, Zenon
  <1>9. Later(d, c)
    BY <1>2, <1>7, Zenon
  <1>10. \A j \in 1..n : ~Later(Key(page[j]), d)
    <2> SUFFICES ASSUME NEW j \in 1..n
                 PROVE  ~Later(Key(page[j]), d)
      BY Zenon
    <2>1. j = n \/ j < n
      BY <1>2
    <2>2. page[j] \in rows /\ Key(page[j]) \in Cursor
      BY <1>1, <1>7, <1>8, Zenon
    <2> QED
      BY <1>1, <1>2, <1>7, <2>1, <2>2, LaterOrder, Zenon
  <1>11. \A r \in rows : ~Later(Key(r), c) => ~Later(Key(r), d)
    BY <1>1, <1>8, <1>9, LaterOrder, Zenon
  <1>12. ShownBehind(c)
    BY Zenon DEF FeedInv
  <1>13. \A k \in 1..(L + n) : \E r \in rows : r.id = shown'[k] /\ ~Later(Key(r), d)
    <2> SUFFICES ASSUME NEW k \in 1..(L + n)
                 PROVE  \E r \in rows : r.id = shown'[k] /\ ~Later(Key(r), d)
      BY Zenon
    <2>1. CASE k \in 1..L
      BY <1>1, <1>11, <1>12, <2>1, Zenon DEF ShownBehind
    <2>2. CASE \E j \in 1..n : k = L + j
      BY <1>1, <1>7, <1>10, <2>2, Zenon
    <2> QED
      BY <1>5, <2>1, <2>2, Zenon
  <1>14. \A r \in rows \ late : Later(Key(r), d) \/ \E k \in 1..(L + n) : shown'[k] = r.id
    <2> SUFFICES ASSUME NEW r \in rows \ late, ~Later(Key(r), d)
                 PROVE  \E k \in 1..(L + n) : shown'[k] = r.id
      BY Zenon
    <2>1. CASE Later(Key(r), c)
      <3>1. PICK j \in 1..n : page[j] = r
        BY <1>2, <1>7, <2>1, Zenon
      <3> QED
        BY <1>1, <1>4, <3>1, Zenon
    <2>2. CASE ~Later(Key(r), c)
      <3>1. PICK k \in 1..L : shown[k] = r.id
        BY <1>1, <2>2, Zenon DEF FeedInv, PassedShown
      <3> QED
        BY <1>1, <1>3, <3>1, Zenon
    <2> QED
      BY <2>1, <2>2
  <1>15. \A k \in 1..L : \A j \in 1..n : shown[k] # page[j].id
    <2> SUFFICES ASSUME NEW k \in 1..L, NEW j \in 1..n, shown[k] = page[j].id
                 PROVE  FALSE
      BY Zenon
    <2>1. PICK r \in rows : r.id = shown[k] /\ ~Later(Key(r), c)
      BY <1>1, <1>12, Zenon DEF ShownBehind
    <2>2. page[j] \in rows /\ Later(Key(page[j]), c)
      BY <1>1, <1>7, Zenon
    <2> QED
      BY <1>6, <2>1, <2>2, Zenon DEF OneRowEach
  <1>16. \A i, j \in 1..n : page[i].id = page[j].id => i = j
    <2> SUFFICES ASSUME NEW i \in 1..n, NEW j \in 1..n, page[i].id = page[j].id, i # j
                 PROVE  FALSE
      BY Zenon
    <2>1. i < j \/ j < i
      BY <1>2
    <2>2. page[i] \in rows /\ page[j] \in rows /\ i \in 1..Len(page) /\ j \in 1..Len(page)
      BY <1>1, <1>7, Zenon
    <2>3. page[i] = page[j]
      BY <1>6, <2>2, Zenon DEF OneRowEach
    <2>4. Later(Key(page[i]), Key(page[i]))
      BY <1>7, <2>1, <2>2, <2>3, Zenon
    <2> QED
      BY <1>8, <2>2, <2>4, LaterOrder, Zenon
  <1>17. \A j, k \in 1..(L + n) : shown'[j] = shown'[k] => j = k
    <2> SUFFICES ASSUME NEW j \in 1..(L + n), NEW k \in 1..(L + n), shown'[j] = shown'[k]
                 PROVE  j = k
      BY Zenon
    <2>1. CASE j \in 1..L /\ k \in 1..L
      BY <1>1, <2>1, Zenon DEF FeedInv, ShownOnce
    <2>2. CASE j \in 1..L /\ \E i \in 1..n : k = L + i
      <3>1. PICK i \in 1..n : k = L + i
        BY <2>2, Zenon
      <3>2. shown'[j] = shown[j] /\ shown'[k] = page[i].id
        BY <1>1, <2>2, <3>1, Zenon
      <3> QED
        BY <1>15, <2>2, <3>2, Zenon
    <2>3. CASE k \in 1..L /\ \E i \in 1..n : j = L + i
      <3>1. PICK i \in 1..n : j = L + i
        BY <2>3, Zenon
      <3>2. shown'[k] = shown[k] /\ shown'[j] = page[i].id
        BY <1>1, <2>3, <3>1, Zenon
      <3> QED
        BY <1>15, <2>3, <3>2, Zenon
    <2>4. CASE (\E i \in 1..n : j = L + i) /\ \E i \in 1..n : k = L + i
      <3>1. PICK i1 \in 1..n, i2 \in 1..n : j = L + i1 /\ k = L + i2
        BY <2>4, Zenon
      <3>2. page[i1].id = page[i2].id
        BY <1>1, <3>1, Zenon
      <3> QED
        BY <1>16, <3>1, <3>2, Zenon
    <2> QED
      BY <1>5, <2>1, <2>2, <2>3, <2>4, Zenon
  <1> HIDE DEF d
  <1>18. PassedShown' /\ ShownOnce' /\ \A b \in stream' \cup lastID' : ShownBehind(b)'
    <2>1. \A b \in stream' \cup lastID' : b = d
      BY <1>1, Zenon
    <2>2. PassedShown'
      BY <1>1, <1>14, <2>1, Zenon DEF PassedShown
    <2>3. ShownOnce'
      BY <1>1, <1>17, Zenon DEF ShownOnce
    <2>4. \A b \in stream' \cup lastID' : ShownBehind(b)'
      <3>1. rows' = rows /\ DOMAIN shown' = 1..(L + n)
        BY <1>1, Zenon
      <3> QED
        BY <1>13, <2>1, <3>1, Zenon DEF ShownBehind
    <2> QED
      BY <2>2, <2>3, <2>4
  <1> QED
    BY <1>1, <1>18, Zenon DEF FeedInv

\* A query shows a whole page.
LEMMA PollStreamInv ==
    ASSUME FeedInv, PollStream
    PROVE  FeedInv'
  <1>1. PICK c \in stream : /\ LiveEvents(c) # <<>> /\ Receives(LiveEvents(c), Len(LiveEvents(c)))
                            /\ stream' = lastID' /\ UNCHANGED <<dbClock, inserting, rows, late>>
    BY Zenon DEF PollStream
  <1>2. c \in Cursor /\ rows \subseteq FeedRow /\ OneRowEach(rows) /\ IsFiniteSet(rows)
    BY Zenon DEF FeedInv, OneRowEach
  <1>3. LiveEvents(c) \in Seq(rows)
    BY <1>2, LiveEventsPage, Zenon DEF PageOf
  <1>4. Len(LiveEvents(c)) \in 1..Len(LiveEvents(c))
    BY <1>1, <1>3
  <1> QED
    BY <1>1, <1>4, ReceivesInv, Zenon

\* A lost connection shows a part of one.
LEMMA DisconnectInv ==
    ASSUME FeedInv, Disconnect
    PROVE  FeedInv'
  <1>1. PICK c \in stream : \E n \in 0..Len(LiveEvents(c)) : Receives(LiveEvents(c), n)
    BY Zenon DEF Disconnect
  <1>2. PICK n \in 0..Len(LiveEvents(c)) : Receives(LiveEvents(c), n)
    BY <1>1, Zenon
  <1>3. stream' = {} /\ UNCHANGED <<dbClock, inserting, rows, late>>
    BY Zenon DEF Disconnect
  <1>4. CASE n = 0
    <2>1. shown' = shown \o [k \in 1..0 |-> LiveEvents(c)[k].id] /\ lastID' = lastID
      BY <1>2, <1>4, Zenon DEF Receives
    <2>2. shown \in Seq(EventNumbers)
      BY Zenon DEF FeedInv
    <2>3. shown' = shown
      BY <2>1, <2>2
    <2>4. \A c1 \in stream' \cup lastID' : c1 \in stream \cup lastID
      BY <1>3, <2>1, Zenon
    <2>5. PassedShown'
      BY <1>3, <2>3, <2>4, Zenon DEF FeedInv, PassedShown
    <2>6. ShownOnce'
      BY <2>3, Zenon DEF FeedInv, ShownOnce
    <2>7. \A c1 \in stream' \cup lastID' : ShownBehind(c1)'
      BY <1>3, <2>3, <2>4, Zenon DEF FeedInv, ShownBehind
    <2> QED
      BY <1>3, <2>1, <2>3, <2>5, <2>6, <2>7, Zenon DEF FeedInv
  <1>5. CASE n # 0
    <2>1. n \in 1..Len(LiveEvents(c))
      BY <1>5
    <2> QED
      BY <1>2, <1>3, <2>1, ReceivesInv, Zenon
  <1> QED
    BY <1>4, <1>5

\* The feed starts empty.
LEMMA FeedInitInv == FeedInit => FeedInv
  <1> SUFFICES ASSUME FeedInit
               PROVE  FeedInv
    OBVIOUS
  <1>1. /\ dbClock = 0 /\ rows = {} /\ inserting = {} /\ stream = {} /\ lastID = {} /\ shown = <<>>
    BY Zenon DEF FeedInit
  <1>2. dbClock \in Nat /\ shown \in Seq(EventNumbers) /\ DOMAIN shown = {}
    BY <1>1
  <1>3. IsFiniteSet(rows)
    BY <1>1, FS_EmptySet, Zenon
  <1>4. ShownOnce /\ PassedShown
    BY <1>1, <1>2, Zenon DEF ShownOnce, PassedShown
  <1> QED
    BY <1>1, <1>2, <1>3, <1>4, Zenon DEF FeedInv, OneRowEach

\* Every reachable state of the feed satisfies the inductive invariant.
THEOREM FeedInvariance == FeedSpec => []FeedInv
  <1>1. FeedInv /\ [FeedNext]_feedVars => FeedInv'
    <2> SUFFICES ASSUME FeedInv, [FeedNext]_feedVars
                 PROVE  FeedInv'
      OBVIOUS
    <2>1. ASSUME NEW e \in EventNumbers, BeginInsert(e)
          PROVE  FeedInv'
      BY <2>1, BeginInsertInv, Zenon
    <2>2. ASSUME NEW r \in inserting, CommitInsert(r)
          PROVE  FeedInv'
      BY <2>2, CommitInsertInv, Zenon
    <2>3. CASE ClockTicks
      BY <2>3, ClockTicksInv, Zenon
    <2>4. CASE Connect
      BY <2>4, ConnectInv, Zenon
    <2>5. CASE PollStream
      BY <2>5, PollStreamInv, Zenon
    <2>6. CASE Disconnect
      BY <2>6, DisconnectInv, Zenon
    <2>7. CASE UNCHANGED feedVars
      <3>1. UNCHANGED <<dbClock, inserting, rows, stream, shown, lastID, late>>
        BY <2>7, Zenon DEF feedVars
      <3>2. PassedShown' /\ ShownOnce' /\ \A c \in stream' \cup lastID' : ShownBehind(c)'
        BY <3>1, Zenon DEF FeedInv, PassedShown, ShownOnce, ShownBehind
      <3> QED
        BY <3>1, <3>2, Zenon DEF FeedInv
    <2> QED
      BY <2>1, <2>2, <2>3, <2>4, <2>5, <2>6, <2>7, Zenon DEF FeedNext
  <1> QED
    BY <1>1, FeedInitInv, PTL DEF FeedSpec

\* The live feed skips no row it has passed that was visible when it passed, and
\* shows no event twice, over any number of pages, commits in any order and lost
\* connections (LiveEvents and handleLive).
THEOREM FeedIsComplete == FeedSpec => []FeedComplete
  <1>1. FeedInv => FeedComplete
    BY Zenon DEF FeedInv, FeedComplete
  <1> QED
    BY <1>1, FeedInvariance, PTL
=============================================================================
