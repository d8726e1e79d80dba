--------------------------- MODULE HttpServerProofs ---------------------------
(***************************************************************************)
(* HttpInv is an invariant of HttpServer, for every finite set of requests.*)
(* A step of a request moves no counter, or one counter by one on its own  *)
(* account; either way the counters go on matching the responses.          *)
(***************************************************************************)
EXTENDS HttpServer, FiniteSetTheorems, TLAPS

\* The requests that counter c has counted.
Movers(c) == {r \in Requests : c \in Moved(r)}

\* A step that moves no counter: track_metrics has not begun or is between two
\* additions.
NoneMoved ==
  /\ metrics' = metrics
  /\ \A r \in Requests : Moved(r)' = Moved(r)

\* A fetch_add for request r that it had not made before.
OneMoved(r, c) ==
  /\ c \in Counters /\ c \notin Moved(r)
  /\ metrics' = [metrics EXCEPT ![c] = @ + 1]
  /\ Moved(r)' = Moved(r) \cup {c}
  /\ \A q \in Requests \ {r} : Moved(q)' = Moved(q)

\* The counters keep matching the responses: metrics.rs counts each once.
LEMMA CountsKept ==
  ASSUME TypeOK, \A c \in Counters : metrics[c] = Cardinality(Movers(c)),
         NoneMoved \/ \E r \in Requests, c \in Counters : OneMoved(r, c)
  PROVE  \A c \in Counters : metrics'[c] = Cardinality(Movers(c)') /\ metrics'[c] >= metrics[c]
<1> SUFFICES ASSUME NEW d \in Counters
             PROVE  metrics'[d] = Cardinality(Movers(d)') /\ metrics'[d] >= metrics[d]
  OBVIOUS
<1>0. metrics[d] \in Nat
  BY DEF TypeOK
<1>1. CASE NoneMoved
  <2>1. Movers(d)' = Movers(d)
    BY <1>1 DEF NoneMoved, Movers
  <2> QED
    BY <2>1, <1>0, <1>1 DEF NoneMoved
<1>2. CASE \E r \in Requests, c \in Counters : OneMoved(r, c)
  <2>1. PICK r \in Requests, c \in Counters : OneMoved(r, c)
    BY <1>2
  <2>2. IsFiniteSet(Movers(d))
    BY HttpAssumption, FS_Subset DEF Movers
  <2>3. CASE d = c
    <3>1. Movers(d)' = Movers(d) \cup {r} /\ r \notin Movers(d)
      BY <2>1, <2>3 DEF OneMoved, Movers
    <3>2. Cardinality(Movers(d) \cup {r}) = Cardinality(Movers(d)) + 1
      BY <2>2, <3>1, FS_AddElement
    <3>3. metrics'[d] = metrics[d] + 1
      BY <2>1, <2>3 DEF OneMoved, TypeOK
    <3> QED
      BY <3>1, <3>2, <3>3, <1>0
  <2>4. CASE d # c
    <3>1. Movers(d)' = Movers(d)
      BY <2>1, <2>4 DEF OneMoved, Movers
    <3>2. metrics'[d] = metrics[d]
      BY <2>1, <2>4 DEF OneMoved, TypeOK
    <3> QED
      BY <3>1, <3>2, <1>0
  <2> QED
    BY <2>3, <2>4
<1> QED
  BY <1>1, <1>2

\* record_response adds to the total and to at most one class, never to the
\* refusals: it is all that a status is worth but for the refusal.
LEMMA RecordedCounters ==
  ASSUME NEW status \in 0..599
  PROVE  /\ record_response(status) \subseteq Counters \ {"rate_limited_total"}
         /\ Worth(status) = record_response(status) \cup (IF status = 429 THEN {"rate_limited_total"} ELSE {})
<1>1. /\ status \div 100 = 2 <=> status \in 200..299
      /\ status \div 100 = 4 <=> status \in 400..499
      /\ status \div 100 = 5 <=> status \in 500..599
  OBVIOUS
<1> QED
  BY <1>1 DEF record_response, class, Counters, Worth

-----------------------------------------------------------------------------
(* What a step does to the records.                                        *)

\* An answered request stays as it is, and the place of each is consistent.
RequestsKept ==
  /\ \A r \in Requests : At(r, "answered") => request'[r] = request[r]
  /\ \A r \in Requests : Consistent(request'[r]) /\ (request'[r].pc = "answered" => request'[r].due = {})
  /\ \A r \in Requests : request'[r].pc \in {"unsent", "global", "auth", "handler"} =>
                          request[r].pc \in {"unsent", "global", "auth", "handler"}

\* A scrape goes on, begins, or loads one figure.
Begins(r) ==
  /\ request[r].pc = "handler"
  /\ scrape'[r] = [scrape[r] EXCEPT !.answered = {q \in Requests : At(q, "answered")}]
Loads(r) ==
  /\ request[r].pc = "scrape"
  /\ metrics' = metrics
  /\ \E c \in Counters : scrape'[r] = [scrape[r] EXCEPT !.figures[c] = metrics[c]]
ScrapesKept == \A r \in Requests : scrape'[r] = scrape[r] \/ Begins(r) \/ Loads(r)

\* Steps of these kinds keep the invariant.
LEMMA Kept ==
  ASSUME HttpInv, TypeOK', NoneMoved \/ \E r \in Requests, c \in Counters : OneMoved(r, c),
         RequestsKept, ScrapesKept
  PROVE  HttpInv'
<1> USE DEF HttpInv
<1>1. \A c \in Counters : metrics'[c] = Cardinality(Movers(c)') /\ metrics'[c] >= metrics[c]
  BY CountsKept DEF CountersMatchResponses, Movers
<1>2. CountersMatchResponses'
  BY <1>1 DEF CountersMatchResponses, Movers, RequestsKept, At
<1>3. \A r \in Requests : At(r, "answered") => At(r, "answered")' /\ Moved(r)' = Moved(r)
  BY DEF RequestsKept, At, Moved
<1>4. \A r \in Requests : \A q \in scrape'[r].answered : At(q, "answered")'
  <2> SUFFICES ASSUME NEW r \in Requests, NEW q \in scrape'[r].answered
               PROVE  At(q, "answered")'
    OBVIOUS
  <2>1. scrape[r] \in Scrape
    BY DEF TypeOK
  <2>2. q \in Requests /\ At(q, "answered")
    <3>1. CASE scrape'[r] = scrape[r]
      BY <3>1, <2>1 DEF Scrape
    <3>2. CASE Begins(r)
      BY <3>2, <2>1 DEF Scrape, Begins
    <3>3. CASE Loads(r)
      BY <3>3, <2>1 DEF Scrape, Loads
    <3> QED
      BY <3>1, <3>2, <3>3 DEF ScrapesKept
  <2> QED
    BY <2>2, <1>3
<1>5. \A r \in Requests : request'[r].pc \in {"unsent", "global", "auth", "handler"} => Unread(r)' = Counters
  <2> SUFFICES ASSUME NEW r \in Requests, request'[r].pc \in {"unsent", "global", "auth", "handler"}
               PROVE  Unread(r)' = Counters
    OBVIOUS
  <2>1. request[r].pc \in {"unsent", "global", "auth", "handler"} /\ scrape[r] \in Scrape
    BY DEF RequestsKept, TypeOK
  <2>2. scrape'[r].figures = scrape[r].figures
    BY <2>1 DEF ScrapesKept, Begins, Loads, Scrape
  <2> QED
    BY <2>1, <2>2 DEF Unread
<1>6. ScrapeIsCurrent'
  <2> SUFFICES ASSUME NEW r \in Requests, NEW c \in Counters, scrape'[r].figures[c] # NotRead
               PROVE  /\ scrape'[r].figures[c] >= Cardinality({q \in scrape'[r].answered : c \in Moved(q)'})
                      /\ scrape'[r].figures[c] <= metrics'[c]
    BY DEF ScrapeIsCurrent, Unread
  <2> DEFINE Counted == {q \in scrape[r].answered : c \in Moved(q)}
  <2> DEFINE CountedNext == {q \in scrape'[r].answered : c \in Moved(q)'}
  <2> SUFFICES scrape'[r].figures[c] >= Cardinality(CountedNext) /\ scrape'[r].figures[c] <= metrics'[c]
    OBVIOUS
  <2>1. scrape[r] \in Scrape /\ metrics[c] \in Nat /\ metrics'[c] \in Nat
    BY DEF TypeOK
  <2>2. scrape[r].answered \subseteq Requests
    BY <2>1 DEF Scrape
  <2>3. IsFiniteSet(Movers(c)) /\ Counted \subseteq Movers(c)
    BY <2>2, HttpAssumption, FS_Subset DEF Movers
  <2>4. Cardinality(Counted) <= metrics[c] /\ Cardinality(Counted) \in Nat
    <3>1. metrics[c] = Cardinality(Movers(c))
      BY DEF CountersMatchResponses, Movers
    <3> HIDE DEF Counted
    <3>2. IsFiniteSet(Counted) /\ Cardinality(Counted) <= Cardinality(Movers(c))
      BY <2>3, FS_Subset
    <3> QED
      BY <3>1, <3>2, FS_CardinalityType
  <2>5. CASE scrape'[r] = scrape[r] \/ Loads(r)
    <3>1. scrape'[r].answered = scrape[r].answered
      BY <2>1, <2>5 DEF Scrape, Loads
    <3>2. CountedNext = Counted
      BY <3>1, <2>2, <1>3
    <3>3. \/ scrape'[r].figures[c] = scrape[r].figures[c]
          \/ scrape'[r].figures[c] = metrics[c] /\ metrics' = metrics
      BY ZenonT(40), <2>1, <2>5 DEF Scrape, Loads
    <3>4. scrape'[r].figures[c] = scrape[r].figures[c] =>
             scrape[r].figures[c] >= Cardinality(Counted) /\ scrape[r].figures[c] <= metrics[c]
      BY DEF ScrapeIsCurrent, Unread
    <3>5. scrape[r].figures[c] \in Int
      BY <2>1 DEF Scrape, NotRead
    <3>6. metrics'[c] >= metrics[c]
      BY <1>1
    <3> HIDE DEF Counted, CountedNext
    <3>7. CASE scrape'[r].figures[c] = scrape[r].figures[c]
      BY <3>2, <3>4, <3>5, <3>6, <3>7, <2>1, <2>4
    <3>8. CASE scrape'[r].figures[c] = metrics[c] /\ metrics' = metrics
      BY <3>2, <3>8, <2>1, <2>4
    <3> QED
      BY <3>3, <3>7, <3>8
  <2>6. CASE Begins(r)
    <3>1. Unread(r) = Counters
      BY <2>6 DEF Begins
    <3>2. scrape'[r].figures = scrape[r].figures
      BY <2>1, <2>6 DEF Scrape, Begins
    <3> QED
      BY <3>1, <3>2 DEF Unread
  <2> QED
    BY <2>5, <2>6 DEF ScrapesKept
<1> QED
  BY <1>2, <1>4, <1>5, <1>6 DEF RequestsKept

-----------------------------------------------------------------------------
(* The actions.                                                            *)

\* Request r gets the record q, which is in order.
Becomes(r, q) ==
  /\ request[r].pc # "answered"
  /\ q \in Request /\ Consistent(q) /\ (q.pc = "answered" => q.due = {})
  /\ (q.pc \in {"unsent", "global", "auth", "handler"} =>
        request[r].pc \in {"unsent", "global", "auth", "handler"})
  /\ request' = [request EXCEPT ![r] = q]

LEMMA OneBecomes ==
  ASSUME HttpInv, NEW r \in Requests, NEW q, Becomes(r, q)
  PROVE  /\ request' \in [Requests -> Request] /\ RequestsKept
         /\ request'[r] = q
         /\ \A s \in Requests \ {r} : request'[s] = request[s] /\ Moved(s)' = Moved(s)
<1>1. request \in [Requests -> Request]
  BY DEF HttpInv, TypeOK
<1>2. request'[r] = q /\ \A s \in Requests \ {r} : request'[s] = request[s]
  BY <1>1 DEF Becomes
<1>3. request' \in [Requests -> Request]
  BY <1>1 DEF Becomes
<1>4. \A s \in Requests : Consistent(request[s]) /\ (request[s].pc = "answered" => request[s].due = {})
  BY DEF HttpInv, CountersMatchResponses, At
<1>5. RequestsKept
  BY <1>2, <1>4 DEF RequestsKept, At, Becomes
<1> QED
  BY <1>2, <1>3, <1>5 DEF Moved

\* Request r is on its way in and has no response.
Open(r) == request[r].pc \in {"global", "auth", "handler", "scrape"}

\* A status, and what of its worth is counted when it is given.
Valid(status) == status \in 1..599
AtOnce(status) == IF status = 429 THEN {"rate_limited_total"} ELSE {}

\* Request r gets a response that is no refusal.
Answers(r) == \E status : Valid(status) /\ status # 429 /\ Respond(r, status)

\* A response is worth what its status says, and all but the refusal is due.
LEMMA Responses ==
  ASSUME HttpInv, NEW r \in Requests, NEW status, Valid(status), Respond(r, status), Open(r)
  PROVE  /\ request' \in [Requests -> Request] /\ RequestsKept
         /\ Moved(r) = {}
         /\ Moved(r)' = AtOnce(status)
         /\ \A s \in Requests \ {r} : Moved(s)' = Moved(s)
<1> DEFINE q == [request[r] EXCEPT !.pc = "record", !.status = status, !.headers = TRUE,
                                   !.due = record_response(status)]
<1>0. request[r].pc \in {"global", "auth", "handler", "scrape"}
  BY DEF Open
<1>0v. status \in 1..599
  BY DEF Valid
<1> USE <1>0, <1>0v
<1>1. request[r] \in Request /\ request \in [Requests -> Request] /\ Consistent(request[r])
  BY DEF HttpInv, TypeOK
<1>2. record_response(status) \subseteq Counters \ {"rate_limited_total"}
  BY RecordedCounters
<1>3. q \in Request /\ q.pc = "record" /\ q.headers = TRUE /\ q.status = status /\ q.due = record_response(status)
  <2>1. "record" \in Labels /\ status \in 0..599 /\ TRUE \in BOOLEAN /\ record_response(status) \in SUBSET Counters
    BY <1>2 DEF Labels
  <2> QED
    BY ZenonT(40), <1>1, <2>1 DEF Request
<1>4. request' = [request EXCEPT ![r] = q]
  BY ZenonT(40), <1>1 DEF Respond, Request
<1>5. Becomes(r, q)
  <2> HIDE DEF q
  <2> QED
    BY <1>3, <1>4 DEF Becomes, Consistent
<1>6. request'[r] = q
  <2> HIDE DEF q
  <2> QED
    BY <1>1, <1>4
<1>7. Moved(r) = {}
  BY <1>1 DEF Moved, Consistent
<1>8. Moved(r)' = Worth(status) \ record_response(status)
  <2> HIDE DEF q
  <2> QED
    BY <1>3, <1>6 DEF Moved
<1>9. Worth(status) \ record_response(status) = (IF status = 429 THEN {"rate_limited_total"} ELSE {})
  BY <1>2, RecordedCounters
<1> HIDE DEF q
<1> QED
  BY <1>5, <1>7, <1>8, <1>9, OneBecomes DEF AtOnce

\* The scrapes keep their type.
LEMMA ScrapeStarts ==
  ASSUME HttpInv, NEW r \in Requests, StartScrape(r)
  PROVE  scrape' \in [Requests -> Scrape] /\ ScrapesKept
<1> DEFINE A == {q \in Requests : At(q, "answered")}
           S == [scrape[r] EXCEPT !.answered = A]
<1>1. scrape \in [Requests -> Scrape] /\ scrape[r] \in Scrape
  BY DEF HttpInv, TypeOK
<1>2. scrape' = [scrape EXCEPT ![r] = S] /\ S \in Scrape
  BY <1>1 DEF StartScrape, Scrape
<1>3. Begins(r)
  BY <1>1, <1>2 DEF Begins, StartScrape, At
<1>4. \A s \in Requests \ {r} : scrape'[s] = scrape[s]
  BY <1>1, <1>2
<1> QED
  BY <1>1, <1>2, <1>3, <1>4 DEF ScrapesKept

LEMMA ScrapeLoads ==
  ASSUME HttpInv, NEW r \in Requests, Load(r)
  PROVE  scrape' \in [Requests -> Scrape] /\ ScrapesKept
<1>1. scrape \in [Requests -> Scrape] /\ scrape[r] \in Scrape /\ metrics \in [Counters -> Nat]
  BY DEF HttpInv, TypeOK
<1>2. PICK c \in Counters : scrape' = [scrape EXCEPT ![r].figures[c] = metrics[c]]
  BY DEF Load, Unread
<1> DEFINE S == [scrape[r] EXCEPT !.figures[c] = metrics[c]]
<1>3. scrape' = [scrape EXCEPT ![r] = S] /\ S \in Scrape
  BY <1>1, <1>2 DEF Scrape
<1>4. Loads(r)
  BY <1>1, <1>3 DEF Loads, Load, At
<1>5. \A s \in Requests \ {r} : scrape'[s] = scrape[s]
  BY <1>1, <1>3
<1> HIDE DEF S
<1> QED
  BY <1>1, <1>3, <1>4, <1>5 DEF ScrapesKept

\* Going to another place moves nothing.
LEMMA Goes ==
  ASSUME HttpInv, NEW r \in Requests, NEW label \in Labels, Goto(r, label), metrics' = metrics,
         ~request[r].headers, label \notin {"unsent", "record"}, request[r].pc # "answered",
         label \in {"global", "auth", "handler"} => request[r].pc \in {"unsent", "global", "auth", "handler"}
  PROVE  request' \in [Requests -> Request] /\ RequestsKept /\ NoneMoved
<1> DEFINE q == [request[r] EXCEPT !.pc = label]
<1>1. request[r] \in Request /\ request \in [Requests -> Request] /\ Consistent(request[r])
  BY DEF HttpInv, TypeOK
<1>2. q \in Request /\ q.pc = label /\ q.headers = request[r].headers /\ q.due = request[r].due
  BY <1>1 DEF Request
<1>3. request' = [request EXCEPT ![r] = q]
  BY <1>1 DEF Goto, Request
<1> HIDE DEF q
<1>4. Becomes(r, q)
  BY <1>1, <1>2, <1>3 DEF Becomes, Consistent
<1>5. request'[r] = q
  BY <1>4, OneBecomes
<1>6. Moved(r)' = {} /\ Moved(r) = {}
  BY <1>2, <1>5 DEF Moved
<1> QED
  BY <1>4, <1>6, OneBecomes DEF NoneMoved

LEMMA Refused ==
  ASSUME HttpInv, NEW r \in Requests, Refuse(r), request[r].pc \in {"global", "auth"}
  PROVE  request' \in [Requests -> Request] /\ RequestsKept /\ OneMoved(r, "rate_limited_total")
<1>1. Respond(r, 429)
  BY DEF Refuse, status_and_code
<1>2. PICK status : Valid(status) /\ AtOnce(status) = {"rate_limited_total"} /\ Respond(r, status)
  BY <1>1 DEF Valid, AtOnce
<1>3. /\ request' \in [Requests -> Request] /\ RequestsKept /\ Moved(r) = {}
      /\ Moved(r)' = AtOnce(status) /\ \A s \in Requests \ {r} : Moved(s)' = Moved(s)
  <2>1. Open(r)
    BY DEF Open
  <2> QED
    BY <1>2, <2>1, Responses, Zenon
<1>4. Moved(r)' = {"rate_limited_total"}
  BY <1>2, <1>3
<1> QED
  BY <1>3, <1>4 DEF OneMoved, Refuse, Bump, Counters

LEMMA Answered ==
  ASSUME HttpInv, NEW r \in Requests, Answers(r), metrics' = metrics, Open(r)
  PROVE  request' \in [Requests -> Request] /\ RequestsKept /\ NoneMoved
<1>1. PICK status : Valid(status) /\ status # 429 /\ Respond(r, status)
  BY DEF Answers
<1>2. AtOnce(status) = {} /\ Valid(status) /\ Respond(r, status)
  BY <1>1 DEF AtOnce
<1>3. /\ request' \in [Requests -> Request] /\ RequestsKept /\ Moved(r) = {}
      /\ Moved(r)' = AtOnce(status) /\ \A s \in Requests \ {r} : Moved(s)' = Moved(s)
  BY <1>2, Responses, Zenon
<1>4. \A s \in Requests : Moved(s)' = Moved(s)
  BY <1>2, <1>3
<1> QED
  BY <1>3, <1>4 DEF NoneMoved

LEMMA Arrives ==
  ASSUME HttpInv, NEW r \in Requests, Arrive(r)
  PROVE  request' \in [Requests -> Request] /\ RequestsKept /\ NoneMoved
<1>1. request[r] \in Request /\ request \in [Requests -> Request] /\ Consistent(request[r])
  BY DEF HttpInv, TypeOK
<1>2. request[r].pc = "unsent" /\ ~request[r].headers /\ request[r].due = {}
  BY <1>1 DEF Arrive, At, Consistent
<1>3. PICK route \in Routes, label \in {"global", "answered"}, status \in 0..599 :
         request' = [request EXCEPT ![r] = [request[r] EXCEPT !.route = route, !.pc = label, !.status = status]]
  <2>1. PICK route \in Routes :
          \/ request' = [request EXCEPT ![r].route = route, ![r].pc = "global"]
          \/ \E status \in {413, 200} :
               request' = [request EXCEPT ![r].route = route, ![r].pc = "answered", ![r].status = status]
    BY DEF Arrive
  <2>2. CASE request' = [request EXCEPT ![r].route = route, ![r].pc = "global"]
    <3>1. request[r].status \in 0..599
      BY <1>1 DEF Request
    <3>2. request' = [request EXCEPT ![r] = [request[r] EXCEPT !.route = route, !.pc = "global",
                                                               !.status = request[r].status]]
      BY <1>1, <2>2 DEF Request
    <3> QED
      BY <3>1, <3>2
  <2>3. CASE \E status \in {413, 200} :
               request' = [request EXCEPT ![r].route = route, ![r].pc = "answered", ![r].status = status]
    <3>0. \A status \in {413, 200} : status \in 0..599
      OBVIOUS
    <3>1. PICK status \in 0..599 :
               request' = [request EXCEPT ![r].route = route, ![r].pc = "answered", ![r].status = status]
      BY ZenonT(30), <2>3, <3>0
    <3>2. request' = [request EXCEPT ![r] = [request[r] EXCEPT !.route = route, !.pc = "answered",
                                                               !.status = status]]
      BY ZenonT(40), <1>1, <3>1 DEF Request
    <3> QED
      BY <3>2
  <2> QED
    BY <2>1, <2>2, <2>3
<1> DEFINE q == [request[r] EXCEPT !.route = route, !.pc = label, !.status = status]
<1>4. q \in Request /\ q.pc = label /\ q.headers = request[r].headers /\ q.due = request[r].due
  BY ZenonT(40), <1>1 DEF Request, Labels
<1>5. request' = [request EXCEPT ![r] = q]
  BY <1>3
<1> HIDE DEF q
<1>6. Becomes(r, q)
  BY <1>2, <1>4, <1>5 DEF Becomes, Consistent
<1>7. request'[r] = q
  BY <1>6, OneBecomes
<1>8. Moved(r)' = {} /\ Moved(r) = {}
  BY <1>2, <1>4, <1>7 DEF Moved
<1> QED
  BY <1>6, <1>8, OneBecomes DEF NoneMoved, Arrive

\* One fetch_add.
LEMMA Records ==
  ASSUME HttpInv, NEW r \in Requests, Record(r)
  PROVE  /\ request' \in [Requests -> Request] /\ RequestsKept
         /\ \E c \in Counters : OneMoved(r, c)
<1>1. request[r] \in Request /\ request \in [Requests -> Request] /\ Consistent(request[r])
  BY DEF HttpInv, TypeOK
<1>2. request[r].pc = "record" /\ request[r].headers
  BY <1>1 DEF Record, At, Consistent
<1>3. PICK c \in request[r].due :
         /\ Bump(c)
         /\ request' = [request EXCEPT ![r].due = @ \ {c},
                                       ![r].pc = IF request[r].due = {c} THEN "answered" ELSE @]
  BY DEF Record
<1>4. c \in Counters /\ request[r].due \subseteq Counters
  BY <1>1 DEF Request
<1>5. PICK label \in Labels : label = IF request[r].due = {c} THEN "answered" ELSE "record"
  BY DEF Labels
<1> DEFINE q == [request[r] EXCEPT !.due = request[r].due \ {c}, !.pc = label]
<1>6. q \in Request /\ q.pc = label /\ q.headers = request[r].headers /\ q.status = request[r].status
      /\ q.due = request[r].due \ {c}
  BY <1>1, <1>4 DEF Request
<1>7. request' = [request EXCEPT ![r] = q]
  BY ZenonT(40), <1>1, <1>2, <1>3, <1>5 DEF Request
<1> HIDE DEF q
<1>8. label = "answered" => q.due = {}
  BY <1>5, <1>6
<1>9. label \in {"answered", "record"}
  BY <1>5
<1>10. Becomes(r, q)
  BY <1>1, <1>2, <1>6, <1>7, <1>8, <1>9 DEF Becomes, Consistent
<1>11. request'[r] = q
  BY <1>10, OneBecomes
<1>12. request[r].due \subseteq Worth(request[r].status)
  BY <1>1, <1>2, RecordedCounters DEF Consistent, Request
<1>13. Moved(r) = Worth(request[r].status) \ request[r].due
       /\ Moved(r)' = Worth(request[r].status) \ (request[r].due \ {c})
  BY <1>2, <1>6, <1>11 DEF Moved
<1>14. c \notin Moved(r) /\ Moved(r)' = Moved(r) \cup {c}
  BY <1>3, <1>12, <1>13
<1>15. OneMoved(r, c)
  BY <1>3, <1>4, <1>10, <1>14, OneBecomes DEF OneMoved, Bump
<1> QED
  BY <1>4, <1>10, <1>15, OneBecomes

\* The deadline of the drain.
LEMMA Dropped ==
  ASSUME HttpInv, Deadline
  PROVE  request' \in [Requests -> Request] /\ RequestsKept /\ NoneMoved
<1>1. request \in [Requests -> Request] /\ CountersMatchResponses
  BY DEF HttpInv, TypeOK
<1>2. \A r \in Requests :
        /\ request'[r] \in Request /\ request'[r].headers = request[r].headers
        /\ request'[r].status = request[r].status /\ request'[r].due = request[r].due
        /\ IF request[r].pc \in Quiet THEN request'[r] = request[r] ELSE request'[r].pc = "gone"
  BY <1>1 DEF Deadline, Request, Labels
<1>3. \A r \in Requests : Consistent(request[r])
  BY DEF HttpInv
<1>4. request' \in [Requests -> Request]
  BY <1>2 DEF Deadline
<1>5. RequestsKept
  BY <1>1, <1>2, <1>3 DEF RequestsKept, Consistent, CountersMatchResponses, At, Quiet
<1> QED
  BY <1>2, <1>4, <1>5 DEF NoneMoved, Moved, Deadline

-----------------------------------------------------------------------------
\* Every step of the server is of one of these kinds.
StepKinds ==
  /\ request' \in [Requests -> Request] /\ RequestsKept
  /\ NoneMoved \/ \E r \in Requests, c \in Counters : OneMoved(r, c)
  /\ scrape' \in [Requests -> Scrape] /\ ScrapesKept

LEMMA RequestSteps ==
  ASSUME HttpInv, NEW r \in Requests,
         Arrive(r) \/ Runs(r) \/ Handle(r) \/ StartScrape(r) \/ TimeOut(r) \/ Drop(r)
  PROVE  StepKinds
<1>1. scrape \in [Requests -> Scrape] /\ request \in [Requests -> Request] /\ Consistent(request[r])
  BY DEF HttpInv, TypeOK
<1>2. scrape' = scrape => scrape' \in [Requests -> Scrape] /\ ScrapesKept
  BY <1>1 DEF ScrapesKept
<1>3. request[r].pc \in {"global", "auth", "handler", "scrape"} => ~request[r].headers
  BY <1>1 DEF Consistent
<1>4. CASE Arrive(r)
  BY <1>2, <1>4, Arrives DEF StepKinds, Arrive
<1>5. CASE global_rate_limit(r)
  <2>1. request[r].pc = "global" /\ scrape' = scrape
    BY <1>5 DEF global_rate_limit, At
  <2>2. CASE Refuse(r)
    BY <1>2, <2>1, <2>2, Refused DEF StepKinds, Counters
  <2>3. CASE Respond(r, 404) /\ metrics' = metrics
    <3>1. Answers(r) /\ Open(r)
      BY <2>1, <2>3 DEF Answers, Valid, Open
    <3>2. request' \in [Requests -> Request] /\ RequestsKept /\ NoneMoved
      BY <2>3, <3>1, Answered, Zenon
    <3> QED
      BY <1>2, <2>1, <3>2 DEF StepKinds
  <2>4. CASE (Goto(r, "auth") \/ Goto(r, "handler")) /\ metrics' = metrics
    BY <1>2, <1>3, <2>1, <2>4, Goes DEF StepKinds, Labels
  <2> QED
    BY <1>5, <2>2, <2>3, <2>4 DEF global_rate_limit
<1>6. CASE auth_rate_limit(r)
  <2>1. request[r].pc = "auth" /\ scrape' = scrape
    BY <1>6 DEF auth_rate_limit, At
  <2>2. CASE Refuse(r)
    BY <1>2, <2>1, <2>2, Refused DEF StepKinds, Counters
  <2>3. CASE Goto(r, "handler") /\ metrics' = metrics
    BY <1>2, <1>3, <2>1, <2>3, Goes DEF StepKinds, Labels
  <2> QED
    BY <1>6, <2>2, <2>3 DEF auth_rate_limit
<1>7. CASE Load(r)
  <2>1. request[r].pc = "scrape" /\ metrics' = metrics /\ (Respond(r, 200) \/ request' = request)
    BY <1>7 DEF Load, At
  <2>2. CASE Respond(r, 200)
    <3>1. Answers(r) /\ Open(r)
      BY <2>1, <2>2 DEF Answers, Valid, Open
    <3>2. request' \in [Requests -> Request] /\ RequestsKept /\ NoneMoved
      BY <2>1, <2>2, <3>1, Answered, Zenon
    <3> QED
      BY <1>7, <3>2, ScrapeLoads DEF StepKinds
  <2>3. CASE request' = request
    <3>1. RequestsKept
      BY <2>3 DEF RequestsKept, HttpInv, CountersMatchResponses, At
    <3>2. NoneMoved
      BY <2>1, <2>3 DEF NoneMoved, Moved
    <3> QED
      BY <1>1, <1>7, <2>3, <3>1, <3>2, ScrapeLoads DEF StepKinds
  <2> QED
    BY <2>1, <2>2, <2>3
<1>8. CASE Record(r)
  BY ZenonT(40), <1>2, <1>8, Records DEF StepKinds, Record
<1>9. CASE Handle(r)
  <2>1. request[r].pc = "handler" /\ scrape' = scrape /\ metrics' = metrics
    BY <1>9 DEF Handle, At
  <2>2. PICK status \in Outcomes(request[r].route) : Respond(r, status)
    BY <1>9 DEF Handle
  <2>3. \A f \in Failures : status_and_code[f] \in 1..599 /\ status_and_code[f] # 429
    BY HttpAssumption DEF status_and_code
  <2>4. status \in 1..599 /\ status # 429
    <3>1. CASE \E f \in Failures : status = status_and_code[f]
      BY <2>3, <3>1
    <3>2. CASE status \in {200, 503, 101}
      BY <3>2
    <3> QED
      BY <3>1, <3>2 DEF Outcomes
  <2>5. request' \in [Requests -> Request] /\ RequestsKept /\ NoneMoved
    <3>1. Answers(r) /\ Open(r)
      BY <2>1, <2>2, <2>4 DEF Answers, Valid, Open
    <3> QED
      BY <2>1, <3>1, Answered, Zenon
  <2> QED
    BY <1>2, <2>1, <2>5 DEF StepKinds
<1>10. CASE StartScrape(r)
  <2>1. request[r].pc = "handler" /\ metrics' = metrics /\ Goto(r, "scrape")
    BY <1>10 DEF StartScrape, At
  <2>2. request' \in [Requests -> Request] /\ RequestsKept /\ NoneMoved
    BY <1>3, <2>1, Goes DEF Labels
  <2> QED
    BY <1>10, <2>2, ScrapeStarts DEF StepKinds
<1>11. CASE TimeOut(r)
  <2>1. request[r].pc = "handler" /\ scrape' = scrape /\ metrics' = metrics /\ Respond(r, 408)
    BY <1>11 DEF TimeOut, At
  <2>2. Answers(r) /\ Open(r)
    BY <2>1 DEF Answers, Valid, Open
  <2>3. request' \in [Requests -> Request] /\ RequestsKept /\ NoneMoved
    BY <2>1, <2>2, Answered, Zenon
  <2> QED
    BY <1>2, <2>1, <2>3 DEF StepKinds
<1>12. CASE Drop(r)
  <2>1. request[r].pc = "handler" /\ scrape' = scrape /\ metrics' = metrics /\ Goto(r, "gone")
    BY <1>12 DEF Drop, At
  <2>2. request' \in [Requests -> Request] /\ RequestsKept /\ NoneMoved
    BY <1>3, <2>1, Goes DEF Labels
  <2> QED
    BY <1>2, <2>1, <2>2 DEF StepKinds
<1> QED
  BY <1>4, <1>5, <1>6, <1>7, <1>8, <1>9, <1>10, <1>11, <1>12 DEF Runs

LEMMA ServerSteps ==
  ASSUME HttpInv, Signal \/ Drained \/ Deadline \/ UNCHANGED vars
  PROVE  StepKinds
<1>1. scrape \in [Requests -> Scrape] /\ request \in [Requests -> Request]
  BY DEF HttpInv, TypeOK
<1>2. scrape' = scrape
  BY DEF Signal, Drained, Deadline, vars
<1>3. ScrapesKept
  BY <1>2 DEF ScrapesKept
<1>4. CASE request' = request /\ metrics' = metrics
  <2>1. RequestsKept
    BY <1>4 DEF RequestsKept, HttpInv, CountersMatchResponses, At
  <2>2. NoneMoved
    BY <1>4 DEF NoneMoved, Moved
  <2> QED
    BY <1>1, <1>2, <1>3, <1>4, <2>1, <2>2 DEF StepKinds
<1>5. CASE Deadline
  BY <1>1, <1>2, <1>3, <1>5, Dropped DEF StepKinds
<1> QED
  BY <1>4, <1>5 DEF Signal, Drained, vars

\* HttpInv holds in the initial states of main.
LEMMA HttpInit == Init => HttpInv
<1> SUFFICES ASSUME Init PROVE HttpInv
  OBVIOUS
<1>1. TypeOK
  BY DEF Init, TypeOK, Request, Scrape, Routes, Labels
<1>2. \A r \in Requests : Moved(r) = {} /\ Unread(r) = Counters
  BY DEF Init, Moved, Unread
<1>3. CountersMatchResponses
  <2>1. \A c \in Counters : {r \in Requests : c \in Moved(r)} = {} /\ metrics[c] = 0
    BY <1>2 DEF Init
  <2>2. \A c \in Counters : metrics[c] = Cardinality({r \in Requests : c \in Moved(r)})
    BY <2>1, FS_EmptySet
  <2> QED
    BY <2>2 DEF CountersMatchResponses, Init, At
<1>4. ScrapeIsCurrent
  BY <1>2 DEF ScrapeIsCurrent
<1> QED
  BY <1>1, <1>2, <1>3, <1>4 DEF HttpInv, Init, Consistent

\* Every step keeps it: the layers of router.rs, the scrape and the drain.
LEMMA HttpStep == HttpInv /\ [Next]_vars => HttpInv'
<1> SUFFICES ASSUME HttpInv, [Next]_vars PROVE HttpInv'
  OBVIOUS
<1>1. StepKinds
  BY RequestSteps, ServerSteps DEF Next
<1>2. TypeOK'
  <2>1. metrics' \in [Counters -> Nat]
    <3>1. metrics \in [Counters -> Nat]
      BY DEF HttpInv, TypeOK
    <3>2. metrics' = metrics \/ \E c \in Counters : metrics' = [metrics EXCEPT ![c] = @ + 1]
      BY <1>1 DEF StepKinds, NoneMoved, OneMoved
    <3> QED
      BY <3>1, <3>2
  <2>2. phase' \in {"serving", "draining", "stopped"} /\ tls' \in BOOLEAN
    BY ZenonT(30) DEF HttpInv, TypeOK, Next, vars, Arrive, Runs, global_rate_limit, auth_rate_limit, Load, Record,
           Handle, StartScrape, TimeOut, Drop, Signal, Drained, Deadline
  <2> QED
    BY <1>1, <2>1, <2>2 DEF TypeOK, StepKinds
<1> QED
  BY <1>1, <1>2, Kept DEF StepKinds

\* For every finite set of requests, the invariant of the server holds.
THEOREM HttpInvariant == Spec => []HttpInv
BY HttpInit, HttpStep, PTL DEF Spec

\* For every number of parallel requests the counters of metrics.rs are those of
\* the responses: no refusal, timeout or drop loses or repeats an addition.
THEOREM CountersAreExact == Spec => []CountersMatchResponses
<1>1. HttpInv => CountersMatchResponses
  BY DEF HttpInv
<1> QED
  BY <1>1, HttpInvariant, PTL

\* A scrape shows everything answered before it began, however it interleaves
\* with the additions of others.
THEOREM ScrapesAreCurrent == Spec => []ScrapeIsCurrent
<1>1. HttpInv => ScrapeIsCurrent
  BY DEF HttpInv
<1> QED
  BY <1>1, HttpInvariant, PTL
===============================================================================
