----------------------------- MODULE HttpServer -----------------------------
(***************************************************************************)
(* The server around the handlers: the layers of api/router.rs, the        *)
(* counters of middleware/metrics.rs and their scrape, and the drain of    *)
(* main.rs after a signal.                                                 *)
(*                                                                         *)
(* Requests run in parallel on the threads of the runtime.  From the body  *)
(* limit inwards they pass CORS, track_metrics, security_headers, the      *)
(* global limiter and then their route; only a handler awaits, so only     *)
(* there can a request time out or be dropped.  What a handler does is the *)
(* business of AuthSessions, Store and ChatStream; whom the limiters refuse*)
(* is RateLimiter's.  The atomics are Relaxed: a thread's additions and    *)
(* another's loads may take effect in any order.  The sum of durations is  *)
(* left out, and so are the prompts of sockets among the refusals, which   *)
(* ChatStream counts.                                                      *)
(***************************************************************************)
EXTENDS Integers, FiniteSets

CONSTANTS
  Requests,  \* each is sent at most once
  Failures   \* kinds of AppError that handlers return

status_and_code ==
  [Validation |-> 400, Unauthorized |-> 401, Forbidden |-> 403, NotFound |-> 404,
   Conflict |-> 409, RateLimited |-> 429, Provider |-> 502, Database |-> 500, Internal |-> 500]

ASSUME HttpAssumption ==
  IsFiniteSet(Requests) /\ Failures \subseteq DOMAIN status_and_code \ {"RateLimited"}

VARIABLES
  request,  \* per request: its route, where it is, and its response
  scrape,   \* per request: the figures it has read, if it is a scrape
  metrics,  \* the shared counters
  phase,    \* of main: "serving", "draining" or "stopped"
  tls       \* main serves with TLS, and so with a deadline on the drain

vars == <<request, scrape, metrics, phase, tls>>

Routes == {"auth", "plain", "metrics", "stream", "unknown"}
Timed == {"auth", "plain", "metrics"}

Counters == {"http_requests_total", "http_responses_2xx", "http_responses_4xx",
             "http_responses_5xx", "rate_limited_total"}

Labels == {"unsent", "global", "auth", "handler", "scrape", "record", "answered", "gone"}
Quiet == {"unsent", "answered", "gone"}

\* status is 0 until there is a response; headers: security_headers saw it; due:
\* the additions of record_response that are still to come.
Request == [route: Routes, pc: Labels, status: 0..599, headers: BOOLEAN, due: SUBSET Counters]

\* figures: what render has loaded.  answered is not program state: the
\* requests that were answered when the scrape began.
NotRead == -1
Scrape == [figures: [Counters -> Nat \cup {NotRead}], answered: SUBSET Requests]

Init ==
  /\ request = [r \in Requests |-> [route |-> "unknown", pc |-> "unsent", status |-> 0,
                                    headers |-> FALSE, due |-> {}]]
  /\ scrape = [r \in Requests |-> [figures |-> [c \in Counters |-> NotRead], answered |-> {}]]
  /\ metrics = [c \in Counters |-> 0]
  /\ phase = "serving"
  /\ tls \in BOOLEAN

At(r, label) == request[r].pc = label
Goto(r, label) == request' = [request EXCEPT ![r].pc = label]

-----------------------------------------------------------------------------
(* The way in.                                                             *)

\* A declared length beyond the limit is answered by RequestBodyLimitLayer and
\* an OPTIONS request by CorsLayer, both outside of track_metrics and of
\* security_headers.
Arrive(r) ==
  /\ phase = "serving" /\ At(r, "unsent")
  /\ \E route \in Routes :
       \/ request' = [request EXCEPT ![r].route = route, ![r].pc = "global"]
       \/ \E status \in {413, 200} :
            request' = [request EXCEPT ![r].route = route, ![r].pc = "answered", ![r].status = status]
  /\ UNCHANGED <<scrape, metrics, phase, tls>>

class(status) ==
  IF status \in 200..299 THEN {"http_responses_2xx"}
  ELSE IF status \in 400..499 THEN {"http_responses_4xx"}
  ELSE IF status \in 500..599 THEN {"http_responses_5xx"} ELSE {}

record_response(status) == {"http_requests_total"} \cup class(status)

\* A response leaves the route: security_headers, then record_response begins.
Respond(r, status) ==
  request' = [request EXCEPT ![r].pc = "record", ![r].status = status, ![r].headers = TRUE,
                             ![r].due = record_response(status)]

Bump(c) == metrics' = [metrics EXCEPT ![c] = @ + 1]

\* Faulty: only the global limiter counts its refusals.
RefuseUncounted(r) ==
  /\ Respond(r, status_and_code["RateLimited"])
  /\ IF At(r, "global") THEN Bump("rate_limited_total") ELSE UNCHANGED metrics

\* enforce: over budget.
Refuse(r) ==
  /\ Bump("rate_limited_total")
  /\ Respond(r, status_and_code["RateLimited"])

global_rate_limit(r) ==
  /\ At(r, "global")
  /\ \/ Refuse(r)
     \/ /\ IF request[r].route = "unknown" THEN Respond(r, 404)
           ELSE Goto(r, IF request[r].route = "auth" THEN "auth" ELSE "handler")
        /\ UNCHANGED metrics
  /\ UNCHANGED <<scrape, phase, tls>>

auth_rate_limit(r) ==
  /\ At(r, "auth")
  /\ Refuse(r) \/ (Goto(r, "handler") /\ UNCHANGED metrics)
  /\ UNCHANGED <<scrape, phase, tls>>

-----------------------------------------------------------------------------
(* The handler.                                                            *)

\* An AppError (a rejection by an extractor is a 4xx like Validation) or a
\* success; health may find no database, chat_stream answers with an upgrade, and
\* a scrape succeeds in Load.
Outcomes(route) ==
  {status_and_code[f] : f \in Failures}
    \cup (IF route = "plain" THEN {200, 503} ELSE IF route = "auth" THEN {200}
          ELSE IF route = "stream" THEN {101} ELSE {})

Handle(r) ==
  /\ At(r, "handler")
  /\ \E status \in Outcomes(request[r].route) : Respond(r, status)
  /\ UNCHANGED <<scrape, metrics, phase, tls>>

\* Faulty: the credential endpoints are merged outside of the layer.
TimeOutBesideAuth(r) ==
  /\ At(r, "handler") /\ request[r].route \in Timed \ {"auth"}
  /\ Respond(r, 408)
  /\ UNCHANGED <<scrape, metrics, phase, tls>>

\* TimeoutLayer drops the handler.
TimeOut(r) ==
  /\ At(r, "handler") /\ request[r].route \in Timed
  /\ Respond(r, 408)
  /\ UNCHANGED <<scrape, metrics, phase, tls>>

\* The client disconnects, or the handler panics: nobody answers.
Drop(r) ==
  /\ At(r, "handler")
  /\ Goto(r, "gone")
  /\ UNCHANGED <<scrape, metrics, phase, tls>>

\* health::metrics of an authenticated caller: render.
StartScrape(r) ==
  /\ At(r, "handler") /\ request[r].route = "metrics"
  /\ Goto(r, "scrape")
  /\ scrape' = [scrape EXCEPT ![r].answered = {q \in Requests : At(q, "answered")}]
  /\ UNCHANGED <<metrics, phase, tls>>

Unread(r) == {c \in Counters : scrape[r].figures[c] = NotRead}

Load(r) ==
  /\ At(r, "scrape")
  /\ \E c \in Unread(r) :
       /\ scrape' = [scrape EXCEPT ![r].figures[c] = metrics[c]]
       /\ IF Unread(r) = {c} THEN Respond(r, 200) ELSE UNCHANGED request
  /\ UNCHANGED <<metrics, phase, tls>>

-----------------------------------------------------------------------------
(* The way out.                                                            *)

\* Faulty: the client has its answer before the last addition.
RecordLate(r) ==
  /\ request[r].due # {} /\ (At(r, "record") \/ At(r, "answered"))
  /\ \E c \in request[r].due :
       /\ Bump(c)
       /\ request' = [request EXCEPT ![r].due = @ \ {c}, ![r].pc = "answered"]
  /\ UNCHANGED <<scrape, phase, tls>>

\* One fetch_add of record_response; after the last the response is sent.
Record(r) ==
  /\ At(r, "record")
  /\ \E c \in request[r].due :
       /\ Bump(c)
       /\ request' = [request EXCEPT ![r].due = @ \ {c},
                                     ![r].pc = IF request[r].due = {c} THEN "answered" ELSE @]
  /\ UNCHANGED <<scrape, phase, tls>>

-----------------------------------------------------------------------------
(* main                                                                    *)

\* wait_for_shutdown returns; no request is accepted any more.
Signal ==
  /\ phase = "serving"
  /\ phase' = "draining"
  /\ UNCHANGED <<request, scrape, metrics, tls>>

\* The framework waits for the requests it has accepted.  An upgraded socket is
\* not one of them: its task ends with the process.
Drained ==
  /\ phase = "draining" /\ \A r \in Requests : request[r].pc \in Quiet
  /\ phase' = "stopped"
  /\ UNCHANGED <<request, scrape, metrics, tls>>

\* Faulty: no deadline is given to graceful_shutdown.
NoDeadline == FALSE /\ UNCHANGED vars

\* graceful_shutdown(Some(20 s)), with TLS only.
Deadline ==
  /\ phase = "draining" /\ tls
  /\ phase' = "stopped"
  /\ request' = [r \in Requests |-> IF request[r].pc \in Quiet THEN request[r]
                                    ELSE [request[r] EXCEPT !.pc = "gone"]]
  /\ UNCHANGED <<scrape, metrics, tls>>

-----------------------------------------------------------------------------
Runs(r) == global_rate_limit(r) \/ auth_rate_limit(r) \/ Load(r) \/ Record(r)

Next ==
  \/ \E r \in Requests : Arrive(r) \/ Runs(r) \/ Handle(r) \/ StartScrape(r) \/ TimeOut(r) \/ Drop(r)
  \/ Signal \/ Drained \/ Deadline

Spec == Init /\ [][Next]_vars

\* Tokio runs a task that can go on, timers fire, and main goes on when it can.
\* Nothing is assumed of the handlers: they wait for the database.
FairSpec ==
  /\ Spec
  /\ \A r \in Requests : WF_vars(Runs(r)) /\ WF_vars(TimeOut(r))
  /\ WF_vars(Drained) /\ WF_vars(Deadline)

-----------------------------------------------------------------------------
(* Properties.                                                             *)

\* Types.
TypeOK ==
  /\ request \in [Requests -> Request]
  /\ scrape \in [Requests -> Scrape]
  /\ metrics \in [Counters -> Nat]
  /\ phase \in {"serving", "draining", "stopped"}
  /\ tls \in BOOLEAN

\* What a response stands for in the counters, once it is recorded.
Worth(status) ==
  {"http_requests_total"}
    \cup (IF status \div 100 = 2 THEN {"http_responses_2xx"} ELSE {})
    \cup (IF status \div 100 = 4 THEN {"http_responses_4xx"} ELSE {})
    \cup (IF status \div 100 = 5 THEN {"http_responses_5xx"} ELSE {})
    \cup (IF status = 429 THEN {"rate_limited_total"} ELSE {})

\* The counters that request r has moved so far.
Moved(r) == IF request[r].headers THEN Worth(request[r].status) \ request[r].due ELSE {}

\* However requests interleave, time out or are dropped, the counters are those
\* of the responses that passed track_metrics: each counts once in the total and
\* once in its class, each refusal of either limiter is also a 4xx, and an
\* answered request has nothing left to count.
CountersMatchResponses ==
  /\ \A c \in Counters : metrics[c] = Cardinality({r \in Requests : c \in Moved(r)})
  /\ \A r \in Requests : At(r, "answered") => request[r].due = {}

\* A scrape loads its figures one by one while others count, so they need not
\* add up.  But no figure misses a response that was answered before the scrape
\* began, and none runs ahead of the counter it shows.
ScrapeIsCurrent ==
  \A r \in Requests : \A c \in Counters \ Unread(r) :
    /\ scrape[r].figures[c] >= Cardinality({q \in scrape[r].answered : c \in Moved(q)})
    /\ scrape[r].figures[c] <= metrics[c]

\* Inductive: with the two, what the place of a request says of its response
\* and of its scrape.
Consistent(q) ==
  /\ q.headers => q.pc \in {"record", "answered", "gone"} /\ q.due \subseteq record_response(q.status)
  /\ ~q.headers => q.pc # "record" /\ q.due = {}
HttpInv ==
  /\ TypeOK /\ CountersMatchResponses /\ ScrapeIsCurrent
  /\ \A r \in Requests : Consistent(request[r])
  /\ \A r \in Requests : \A q \in scrape[r].answered : At(q, "answered")
  /\ \A r \in Requests : request[r].pc \in {"unsent", "global", "auth", "handler"} => Unread(r) = Counters

\* Liveness.  "a slow client or a hanging upstream cannot pin a connection open
\* indefinitely": a request on a timed route concludes, whatever its handler does.
TimedRequestsConclude ==
  \A r \in Requests :
    At(r, "handler") /\ request[r].route \in Timed ~> At(r, "answered") \/ At(r, "gone")

\* Liveness.  After a signal the process ends, whatever the handlers do; without
\* TLS an upgrade that waits for the database can hold it up, for that route has
\* no timeout and the drain no deadline.  This is about requests that have arrived;
\* a connection that has sent half of a request's head is not modelled.
ShutdownEnds ==
  phase = "draining" ~>
    phase = "stopped" \/ (~tls /\ \E r \in Requests : At(r, "handler") /\ request[r].route = "stream")
=============================================================================
