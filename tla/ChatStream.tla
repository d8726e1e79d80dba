----------------------------- MODULE ChatStream -----------------------------
(***************************************************************************)
(* The encrypted WebSocket of api/chat_stream.rs with the counters of      *)
(* crypto/stream_session.rs.  Several sockets of one user run at once; they*)
(* share the row of the session they were opened with, the access token's  *)
(* expiry and the metrics.                                                 *)
(*                                                                         *)
(* A ciphertext is the nonce it was made with and the kind of thing it     *)
(* holds.  The client is the reference client of stream_session.rs: it     *)
(* encrypts its prompts with nonces 0, 1, 2..., may send one again, may    *)
(* send frames at any time and may vanish.  The provider answers with      *)
(* deltas and one terminal event.  Frames arrive in order.                 *)
(***************************************************************************)
EXTENDS Integers, Sequences, FiniteSets

CONSTANTS
  Sockets,     \* connections opened with one access token
  CounterMax,  \* the largest nonce counter: u64::MAX in the code
  MaxFrames,   \* bound: frames a client sends
  MaxDeltas    \* bound: deltas the provider sends in a turn

ASSUME StreamAssumption ==
  /\ IsFiniteSet(Sockets)
  /\ CounterMax \in Nat /\ MaxFrames \in Nat /\ MaxDeltas \in Nat

VARIABLES
  active,   \* the session row is not revoked
  time,     \* of the access token: see Times
  client,   \* per socket: the client's end and what is on the way from it
  server,   \* per socket: where handle_socket is, and its StreamSession
  log,      \* per socket, not program state: what was taken, forwarded, sent
  metrics   \* the shared counters

vars == <<active, time, client, server, log, metrics>>

\* An access token is valid, then past its expiry but within the leeway of
\* JwtService::verify, then refused.
Valid == 0
Leeway == 1
Past == 2
Times == {Valid, Leeway, Past}

KeyKinds == {"good", "not_base64", "small_order"}

\* A prompt's payload is fit to forward; or it decrypts and is refused (size,
\* JSON, number of messages, role); or it fails to decode or to authenticate.
Bodies == {"good", "bad", "garbled"}

ClientFrame ==
  [type: {"client_hello"}, key: KeyKinds]
    \cup [type: {"prompt"}, nonce: Nat, body: Bodies]
    \cup [type: {"close", "malformed"}]

Labels == {"idle", "verified", "upgrading", "hello", "handshake", "loop", "prompt",
           "request", "events", "closing", "return", "ended"}

\* The prompt in hand; late (not program state) says whether the session was
\* already revoked when its frame was read.
Hand == [nonce: Nat, body: Bodies, late: BOOLEAN]
NoHand == [nonce |-> 0, body |-> "garbled", late |-> FALSE]

Answers == {"done", "rate_limited", "stream_error", "session_revoked"}

Client == [inbox: Seq(ClientFrame), prompts: Seq(Bodies), frames: Nat, gone: BOOLEAN]
Server == [pc: Labels, recv_counter: 0..CounterMax, send_counter: 0..CounterMax, dead: BOOLEAN,
           hand: Hand, produced: Nat]
Chunk == [nonce: Nat, turn: Nat, index: Nat, late: BOOLEAN]
Log == [taken: Nat, forwarded: Seq(Nat), chunks: Seq(Chunk),
        answers: Seq([kind: Answers, produced: Nat])]
Metrics == [ws_sessions_total: Nat, ws_sessions_active: Nat, rate_limited_total: Nat,
            provider_requests_total: Nat, provider_chunks_total: Nat,
            provider_errors_total: Nat]

Init ==
  /\ active = TRUE
  /\ time = Valid
  /\ client = [s \in Sockets |-> [inbox |-> <<>>, prompts |-> <<>>, frames |-> 0, gone |-> FALSE]]
  /\ server = [s \in Sockets |-> [pc |-> "idle", recv_counter |-> 0, send_counter |-> 0,
                                  dead |-> FALSE, hand |-> NoHand, produced |-> 0]]
  /\ log = [s \in Sockets |-> [taken |-> 0, forwarded |-> <<>>, chunks |-> <<>>, answers |-> <<>>]]
  /\ metrics = [ws_sessions_total |-> 0, ws_sessions_active |-> 0, rate_limited_total |-> 0,
                provider_requests_total |-> 0, provider_chunks_total |-> 0,
                provider_errors_total |-> 0]

At(s, label) == server[s].pc = label
Goto(s, label) == server' = [server EXCEPT ![s].pc = label]

-----------------------------------------------------------------------------
(* The client, the session row and time.                                   *)

\* The client has its upgrade, perhaps before the server's handler runs.
Connected(s) == server[s].pc \notin {"idle", "verified", "ended"} /\ ~client[s].gone

\* A frame leaves the client.
Emit(s, frame) ==
  /\ Connected(s) /\ client[s].frames < MaxFrames
  /\ client' = [client EXCEPT ![s].inbox = Append(@, frame), ![s].frames = @ + 1]
  /\ UNCHANGED <<active, time, server, log, metrics>>

SendClientHello(s) == \E k \in KeyKinds : Emit(s, [type |-> "client_hello", key |-> k])
SendOther(s) == \E t \in {"close", "malformed"} : Emit(s, [type |-> t])

\* encrypt_client: a new prompt takes the client's next nonce.
SendPrompt(s) ==
  \E b \in Bodies :
    LET n == Len(client[s].prompts) IN
    /\ Connected(s) /\ client[s].frames < MaxFrames
    /\ n < CounterMax
    /\ client' = [client EXCEPT
         ![s].inbox = Append(@, [type |-> "prompt", nonce |-> n, body |-> b]),
         ![s].prompts = Append(@, b),
         ![s].frames = @ + 1]
    /\ UNCHANGED <<active, time, server, log, metrics>>

\* The client sends a prompt once more, to retry it.
ResendPrompt(s) ==
  \E i \in DOMAIN client[s].prompts :
    Emit(s, [type |-> "prompt", nonce |-> i - 1, body |-> client[s].prompts[i]])

Disconnect(s) ==
  /\ Connected(s)
  /\ client' = [client EXCEPT ![s].gone = TRUE]
  /\ UNCHANGED <<active, time, server, log, metrics>>

\* A logout or a detected reuse commits its revoke_session.
Revoke ==
  /\ active
  /\ active' = FALSE
  /\ UNCHANGED <<time, client, server, log, metrics>>

TimePasses ==
  /\ time < Past
  /\ time' = time + 1
  /\ UNCHANGED <<active, client, server, log, metrics>>

-----------------------------------------------------------------------------
(* Opening a socket: chat_stream.                                          *)

\* authenticate: the JWT is verified, then the session row is read, which may fail.
Verify(s) ==
  /\ At(s, "idle") /\ time < Past
  /\ Goto(s, "verified")
  /\ UNCHANGED <<active, time, client, log, metrics>>

Authenticate(s) ==
  /\ At(s, "verified")
  /\ \E readable \in BOOLEAN : Goto(s, IF active /\ readable THEN "upgrading" ELSE "ended")
  /\ UNCHANGED <<active, time, client, log, metrics>>

OnUpgrade(s) ==
  /\ At(s, "upgrading")
  /\ Goto(s, "hello")
  /\ metrics' = [metrics EXCEPT !.ws_sessions_total = @ + 1, !.ws_sessions_active = @ + 1]
  /\ UNCHANGED <<active, time, client, log>>

\* The client vanished before the upgrade: handle_socket never runs.
UpgradeLost(s) ==
  /\ At(s, "upgrading") /\ client[s].gone
  /\ Goto(s, "ended")
  /\ UNCHANGED <<active, time, client, log, metrics>>

\* Faulty: the gauge is forgotten.
OnReturnUncounted(s) ==
  /\ At(s, "return")
  /\ Goto(s, "ended")
  /\ UNCHANGED <<active, time, client, log, metrics>>

\* handle_socket returned, with or without an error.
OnReturn(s) ==
  /\ At(s, "return")
  /\ Goto(s, "ended")
  /\ metrics' = [metrics EXCEPT !.ws_sessions_active = @ - 1]
  /\ UNCHANGED <<active, time, client, log>>

-----------------------------------------------------------------------------
(* Sending.  A send may fail once the client is gone; after one failure    *)
(* nothing more is delivered on the socket.                                *)

CanSend(s, ok) == IF ok THEN ~server[s].dead ELSE client[s].gone

\* The handler after `send_frame(..).await?`.
AfterSend(s, ok, label) ==
  [server[s] EXCEPT !.pc = IF ok THEN label ELSE "return", !.dead = @ \/ ~ok]

\* The log after an answer to the prompt in hand.
WithAnswer(s, ok, kind) ==
  [log[s] EXCEPT !.answers =
     IF ok THEN Append(@, [kind |-> kind, produced |-> server[s].produced]) ELSE @]

SendServerHello(s) ==
  \E ok \in BOOLEAN :
    /\ At(s, "hello") /\ CanSend(s, ok)
    /\ server' = [server EXCEPT ![s] = AfterSend(s, ok, "handshake")]
    /\ UNCHANGED <<active, time, client, log, metrics>>

\* Faulty: the gauge is lowered here and again when the handler returns.
CloseCounted(s) ==
  /\ At(s, "closing")
  /\ Goto(s, "return")
  /\ metrics' = [metrics EXCEPT !.ws_sessions_active = @ - 1]
  /\ UNCHANGED <<active, time, client, log>>

\* The closing frame; whether it is sent does not matter.
Close(s) ==
  /\ At(s, "closing")
  /\ Goto(s, "return")
  /\ UNCHANGED <<active, time, client, log, metrics>>

-----------------------------------------------------------------------------
(* Receiving: next_client_frame, in the handshake and in the loop.         *)

Arrived(s) == client[s].inbox # <<>>
NextFrame(s) == Head(client[s].inbox)
Consume(s) == client' = [client EXCEPT ![s].inbox = Tail(@)]

\* Faulty: the handshake goes on waiting.
DisconnectedInLoop(s) ==
  /\ client[s].gone
  /\ At(s, "loop") /\ \E label \in {"closing", "return"} : Goto(s, label)
  /\ UNCHANGED <<active, time, client, log, metrics>>

\* Nothing, a close message or an error comes from a client that is gone.  In
\* the loop an error returns at once, and the end of the stream breaks.
Disconnected(s) ==
  /\ client[s].gone
  /\ \/ At(s, "handshake") /\ Goto(s, "return")
     \/ At(s, "loop") /\ \E label \in {"closing", "return"} : Goto(s, label)
  /\ UNCHANGED <<active, time, client, log, metrics>>

\* The first frame must be a client_hello with a usable key; whatever else it
\* is, the handler returns, after an error frame or not.  Then the token's
\* time to live is looked at.
ReceiveClientHello(s) ==
  LET f == NextFrame(s)
      established == f.type = "client_hello" /\ f.key = "good" IN
  /\ At(s, "handshake") /\ Arrived(s)
  /\ Consume(s)
  /\ Goto(s, IF ~established THEN "return" ELSE IF time = Valid THEN "loop" ELSE "closing")
  /\ UNCHANGED <<active, time, log, metrics>>

\* Faulty: the deadline includes the leeway.
ExpireWithLeeway(s) ==
  /\ At(s, "loop") /\ time = Past
  /\ Goto(s, "closing")
  /\ UNCHANGED <<active, time, client, log, metrics>>

\* select!: the sleep until the token's expiry is over.
Expire(s) ==
  /\ At(s, "loop") /\ time # Valid
  /\ Goto(s, "closing")
  /\ UNCHANGED <<active, time, client, log, metrics>>

\* select!: a prompt arrives.
ReceivePrompt(s) ==
  LET f == NextFrame(s) IN
  /\ At(s, "loop") /\ Arrived(s) /\ f.type = "prompt"
  /\ Consume(s)
  /\ server' = [server EXCEPT ![s].pc = "prompt",
                  ![s].hand = [nonce |-> f.nonce, body |-> f.body, late |-> ~active]]
  /\ log' = [log EXCEPT ![s].taken = @ + 1]
  /\ UNCHANGED <<active, time, metrics>>

\* select!: a close or a frame that does not parse.
ReceiveEnd(s) ==
  LET f == NextFrame(s) IN
  /\ At(s, "loop") /\ Arrived(s) /\ f.type \in {"close", "malformed"}
  /\ Consume(s)
  /\ Goto(s, IF f.type = "close" THEN "closing" ELSE "return")
  /\ UNCHANGED <<active, time, log, metrics>>

\* select!: a second client_hello is answered with a protocol error.
ReceiveLateHello(s) ==
  \E ok \in BOOLEAN :
    /\ At(s, "loop") /\ Arrived(s) /\ NextFrame(s).type = "client_hello" /\ CanSend(s, ok)
    /\ Consume(s)
    /\ server' = [server EXCEPT ![s] = AfterSend(s, ok, "loop")]
    /\ UNCHANGED <<active, time, log, metrics>>

-----------------------------------------------------------------------------
(* A prompt in hand: is_active, the rate limiter and handle_prompt up to   *)
(* its request, which is one step: only is_active is awaited.              *)

\* The handler once the prompt in hand is answered: back to the loop.
AfterTurn(s, ok) == [AfterSend(s, ok, "loop") EXCEPT !.hand = NoHand, !.produced = 0]

\* The row is revoked, or it cannot be read.
RefuseRevoked(s) ==
  \E ok, readable \in BOOLEAN :
    /\ At(s, "prompt") /\ ~(active /\ readable) /\ CanSend(s, ok)
    /\ server' = [server EXCEPT ![s] = [AfterTurn(s, ok) EXCEPT !.pc = "closing"]]
    /\ log' = [log EXCEPT ![s] = WithAnswer(s, ok, "session_revoked")]
    /\ UNCHANGED <<active, time, client, metrics>>

\* Faulty: the prompt is skipped without an answer.
RefuseRateSilently(s) ==
  /\ At(s, "prompt") /\ active
  /\ server' = [server EXCEPT ![s] = AfterTurn(s, TRUE)]
  /\ UNCHANGED <<active, time, client, log, metrics>>

\* The limiter refuses; the prompt is not decrypted.
RefuseRate(s) ==
  \E ok \in BOOLEAN :
    /\ At(s, "prompt") /\ active /\ CanSend(s, ok)
    /\ server' = [server EXCEPT ![s] = AfterTurn(s, ok)]
    /\ log' = [log EXCEPT ![s] = WithAnswer(s, ok, "rate_limited")]
    /\ metrics' = [metrics EXCEPT !.rate_limited_total = @ + 1]
    /\ UNCHANGED <<active, time, client>>

\* Faulty: any nonce will do.
decrypts_any(s) == server[s].hand.body # "garbled" /\ server[s].recv_counter < CounterMax

\* StreamSession::decrypt accepts the prompt in hand: the next nonce, and a
\* counter that can still advance.
decrypts(s) ==
  LET h == server[s].hand IN
  /\ h.body # "garbled" /\ h.nonce = server[s].recv_counter
  /\ server[s].recv_counter < CounterMax

Received(s) == IF decrypts(s) THEN server[s].recv_counter + 1 ELSE server[s].recv_counter

\* handle_prompt fails before its request.
RejectPrompt(s) ==
  \E ok \in BOOLEAN :
    /\ At(s, "prompt") /\ active /\ CanSend(s, ok)
    /\ ~(decrypts(s) /\ server[s].hand.body = "good")
    /\ server' = [server EXCEPT ![s] = [AfterTurn(s, ok) EXCEPT !.recv_counter = Received(s)]]
    /\ log' = [log EXCEPT ![s] = WithAnswer(s, ok, "stream_error")]
    /\ metrics' = [metrics EXCEPT !.provider_errors_total = @ + 1]
    /\ UNCHANGED <<active, time, client>>

\* Faulty: the session row is not read again.
ForwardPromptUnchecked(s) ==
  /\ At(s, "prompt") /\ decrypts(s) /\ server[s].hand.body = "good"
  /\ server' = [server EXCEPT ![s].pc = "request", ![s].recv_counter = Received(s)]
  /\ log' = [log EXCEPT ![s].forwarded = Append(@, server[s].hand.nonce)]
  /\ metrics' = [metrics EXCEPT !.provider_requests_total = @ + 1]
  /\ UNCHANGED <<active, time, client>>

ForwardPrompt(s) ==
  /\ At(s, "prompt") /\ active
  /\ decrypts(s) /\ server[s].hand.body = "good"
  /\ server' = [server EXCEPT ![s].pc = "request", ![s].recv_counter = Received(s)]
  /\ log' = [log EXCEPT ![s].forwarded = Append(@, server[s].hand.nonce)]
  /\ metrics' = [metrics EXCEPT !.provider_requests_total = @ + 1]
  /\ UNCHANGED <<active, time, client>>

-----------------------------------------------------------------------------
(* The answer of the provider.                                             *)

\* Faulty: each turn starts its nonces over.
StreamChatResets(s) ==
  /\ At(s, "request")
  /\ server' = [server EXCEPT ![s].pc = "events", ![s].send_counter = 0]
  /\ UNCHANGED <<active, time, client, log, metrics>>

StreamChat(s) ==
  /\ At(s, "request")
  /\ Goto(s, "events")
  /\ UNCHANGED <<active, time, client, log, metrics>>

\* handle_prompt fails: the request or an event is an error.
ProviderFails(s) ==
  \E ok \in BOOLEAN :
    /\ At(s, "request") \/ At(s, "events")
    /\ CanSend(s, ok)
    /\ server' = [server EXCEPT ![s] = AfterTurn(s, ok)]
    /\ log' = [log EXCEPT ![s] = WithAnswer(s, ok, "stream_error")]
    /\ metrics' = [metrics EXCEPT !.provider_errors_total = @ + 1]
    /\ UNCHANGED <<active, time, client>>

\* A delta is encrypted with the next nonce and sent.  When the send fails, so
\* does that of the error frame.
SendChunk(s) ==
  \E ok \in BOOLEAN :
    LET n == server[s].send_counter
        i == server[s].produced + 1 IN
    /\ At(s, "events") /\ server[s].produced < MaxDeltas
    /\ n < CounterMax /\ CanSend(s, ok)
    /\ server' = [server EXCEPT
         ![s] = IF ok THEN [@ EXCEPT !.send_counter = n + 1, !.produced = i]
                      ELSE [AfterTurn(s, ok) EXCEPT !.send_counter = n + 1]]
    /\ log' = [log EXCEPT ![s].chunks =
         IF ok THEN Append(@, [nonce |-> n, turn |-> log[s].taken, index |-> i, late |-> time # Valid])
               ELSE @]
    /\ metrics' = [metrics EXCEPT !.provider_chunks_total = @ + 1,
                                  !.provider_errors_total = IF ok THEN @ ELSE @ + 1]
    /\ UNCHANGED <<active, time, client>>

\* Faulty: a delta that cannot be encrypted is skipped.
SkipChunk(s) ==
  /\ At(s, "events") /\ server[s].produced < MaxDeltas
  /\ server[s].send_counter = CounterMax
  /\ server' = [server EXCEPT ![s].produced = @ + 1]
  /\ UNCHANGED <<active, time, client, log, metrics>>

\* The counter cannot advance: encrypt fails, and its ciphertext is dropped.
Exhausted(s) ==
  \E ok \in BOOLEAN :
    /\ At(s, "events") /\ server[s].produced < MaxDeltas
    /\ server[s].send_counter = CounterMax /\ CanSend(s, ok)
    /\ server' = [server EXCEPT ![s] = AfterTurn(s, ok)]
    /\ log' = [log EXCEPT ![s] = WithAnswer(s, ok, "stream_error")]
    /\ metrics' = [metrics EXCEPT !.provider_chunks_total = @ + 1, !.provider_errors_total = @ + 1]
    /\ UNCHANGED <<active, time, client>>

\* The provider is done.  When the done frame cannot be sent, neither can the
\* error frame.
SendDone(s) ==
  \E ok \in BOOLEAN :
    /\ At(s, "events") /\ CanSend(s, ok)
    /\ server' = [server EXCEPT ![s] = AfterTurn(s, ok)]
    /\ log' = [log EXCEPT ![s] = WithAnswer(s, ok, "done")]
    /\ metrics' = [metrics EXCEPT !.provider_errors_total = IF ok THEN @ ELSE @ + 1]
    /\ UNCHANGED <<active, time, client>>

-----------------------------------------------------------------------------
Environment(s) ==
  SendClientHello(s) \/ SendOther(s) \/ SendPrompt(s) \/ ResendPrompt(s) \/ Disconnect(s) \/ Verify(s)

\* The steps that wait for nobody but the client.
Handler(s) ==
  \/ Authenticate(s) \/ OnUpgrade(s) \/ UpgradeLost(s) \/ SendServerHello(s)
  \/ ReceiveClientHello(s) \/ Disconnected(s) \/ Expire(s)
  \/ ReceivePrompt(s) \/ ReceiveEnd(s) \/ ReceiveLateHello(s)
  \/ RefuseRevoked(s) \/ RefuseRate(s) \/ RejectPrompt(s) \/ ForwardPrompt(s)
  \/ Close(s) \/ OnReturn(s)

Provider(s) == StreamChat(s) \/ ProviderFails(s) \/ SendChunk(s) \/ Exhausted(s) \/ SendDone(s)

Next ==
  \/ \E s \in Sockets : Environment(s) \/ Handler(s) \/ Provider(s)
  \/ Revoke
  \/ TimePasses

Spec == Init /\ [][Next]_vars

\* Tokio runs a task that can go on, and a send ends in success or failure.
\* Nothing is assumed of the provider: the code sets no limit on its answer.
FairSpec == Spec /\ \A s \in Sockets : WF_vars(Handler(s))

-----------------------------------------------------------------------------
(* Properties.                                                             *)

InTurn == {"prompt", "request", "events"}
AtProvider(s) == server[s].pc \in {"request", "events"}
Opened == {s \in Sockets : server[s].pc \notin {"idle", "verified", "upgrading", "ended"}}

\* Types; in particular the counters never pass their maximum and the gauge of
\* open sockets is never negative.
TypeOK ==
  /\ active \in BOOLEAN
  /\ time \in Times
  /\ client \in [Sockets -> Client]
  /\ server \in [Sockets -> Server]
  /\ log \in [Sockets -> Log]
  /\ metrics \in Metrics

\* Replay protection of decrypt, with the retries of the client: a prompt is
\* forwarded to the provider at most once, prompts are forwarded in the order
\* they were encrypted in, and only those with a payload that passed the checks.
PromptsForwardedOnce ==
  \A s \in Sockets :
    LET f == log[s].forwarded IN
    /\ \A i, j \in DOMAIN f : i < j => f[i] < f[j]
    /\ \A i \in DOMAIN f : f[i] < Len(client[s].prompts) /\ client[s].prompts[f[i] + 1] = "good"

\* Every chunk written can be decrypted by decrypt_client: over all turns of a
\* socket, failed ones included, the nonces are 0, 1, 2... in this order.
ChunksDecryptInOrder ==
  \A s \in Sockets : \A i \in DOMAIN log[s].chunks : log[s].chunks[i].nonce = i - 1

\* Chat turns keep apart: as long as frames can be written, each prompt taken
\* from the socket has exactly one closing answer, in the order of the prompts.
OneAnswerPerPrompt ==
  \A s \in Sockets :
    ~server[s].dead =>
      log[s].taken = Len(log[s].answers) + (IF server[s].pc \in InTurn THEN 1 ELSE 0)

\* The deltas of a turn that were written, in the log g of a socket.
Indices(g, turn) == {g.chunks[j].index : j \in {k \in DOMAIN g.chunks : g.chunks[k].turn = turn}}

\* A turn closed with done is complete: all deltas the provider produced for its
\* prompt were written as chunks of that turn.
DoneIsComplete ==
  \A s \in Sockets : \A i \in DOMAIN log[s].answers :
    log[s].answers[i].kind = "done" => Indices(log[s], i) = 1..log[s].answers[i].produced

\* "Re-validate the session on every prompt so a logout/revocation takes effect
\* on an already-open socket": a prompt that was read after the revocation of
\* its session is never forwarded.
RevokedPromptStays == \A s \in Sockets : AtProvider(s) => ~server[s].hand.late

\* The gauge counts the sockets whose handler runs, however it ends.
GaugeIsTruthful == metrics.ws_sessions_active = Cardinality(Opened)

\* Liveness.  An open socket whose token has expired ends, unless a turn waits for
\* the provider.  It may read what its client sent before that: select! picks one of
\* the branches that are ready, so this takes that the client does not send for ever
\* (MaxFrames) and that is_active answers.
IdleSocketExpires ==
  \A s \in Sockets : At(s, "loop") /\ time # Valid ~> At(s, "ended") \/ AtProvider(s)

\* Liveness.  The handler of a client that vanished ends, in the handshake, between
\* turns and while it writes, unless a turn waits for the provider.  This takes that
\* the connection reports the loss and that is_active answers: a client that stays
\* connected and silent in the handshake, or a lost one whose connection stays half
\* open, keeps its handler.
GoneSocketEnds ==
  \A s \in Sockets : client[s].gone /\ s \in Opened ~> At(s, "ended") \/ AtProvider(s)

\* "The access token's expiry is a hard ceiling on the connection": nothing is
\* streamed once the token has expired.
HardCeiling ==
  \A s \in Sockets : \A i \in DOMAIN log[s].chunks : ~log[s].chunks[i].late

-----------------------------------------------------------------------------
(* The inductive invariant.                                                *)

\* The client c did encrypt this prompt.
Encrypted(c, nonce, body) == nonce < Len(c.prompts) /\ c.prompts[nonce + 1] = body

\* What holds of a socket between any two steps: where its prompts come from,
\* and how its counters and its turn relate to what was written.
SocketInv(s) ==
  LET c == client[s]
      v == server[s]
      g == log[s] IN
  /\ \A i \in DOMAIN c.inbox :
       c.inbox[i].type = "prompt" => Encrypted(c, c.inbox[i].nonce, c.inbox[i].body)
  /\ v.pc = "prompt" => Encrypted(c, v.hand.nonce, v.hand.body)
  /\ \A i \in DOMAIN g.forwarded : g.forwarded[i] < v.recv_counter
  /\ v.dead => v.pc \in {"closing", "return", "ended"}
  /\ ~v.dead => v.send_counter = Len(g.chunks)
  /\ v.pc # "events" => v.produced = 0
  /\ v.pc \in InTurn => Indices(g, g.taken) = 1..v.produced
  /\ \A j \in DOMAIN g.chunks : g.chunks[j].turn <= g.taken
  /\ active => ~v.hand.late

\* Inductive: what every step of every socket preserves.
ChatInv ==
  /\ TypeOK
  /\ PromptsForwardedOnce /\ ChunksDecryptInOrder /\ OneAnswerPerPrompt /\ DoneIsComplete
  /\ RevokedPromptStays /\ GaugeIsTruthful
  /\ \A s \in Sockets : SocketInv(s)
=============================================================================
