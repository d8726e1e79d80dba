-------------------------- MODULE ChatStreamProofs --------------------------
(***************************************************************************)
(* Proofs about ChatStream, for any finite set of sockets, any counter     *)
(* maximum and any number of frames and deltas.  A step of one socket      *)
(* changes that socket's client, handler and log and leaves the others     *)
(* alone, so the invariant is restated for one socket, as a predicate of   *)
(* its three records, and each action is taken as a change of these.       *)
(***************************************************************************)
EXTENDS ChatStream, FiniteSetTheorems, TLAPS

\* The prompts of a socket: where they come from and what was forwarded.
Origin(c, v, g) ==
  /\ \A i \in DOMAIN c.inbox :
       c.inbox[i].type = "prompt" => Encrypted(c, c.inbox[i].nonce, c.inbox[i].body)
  /\ v.pc = "prompt" => Encrypted(c, v.hand.nonce, v.hand.body)
  /\ \A i \in DOMAIN g.forwarded :
       g.forwarded[i] < v.recv_counter /\ Encrypted(c, g.forwarded[i], "good")
  /\ \A i, j \in DOMAIN g.forwarded : i < j => g.forwarded[i] < g.forwarded[j]

\* The turns of a socket: what was written and answered.
Turns(v, g) ==
  /\ v.dead => v.pc \in {"closing", "return", "ended"}
  /\ ~v.dead => /\ v.send_counter = Len(g.chunks)
                /\ g.taken = Len(g.answers) + (IF v.pc \in InTurn THEN 1 ELSE 0)
  /\ v.pc # "events" => v.produced = 0
  /\ v.pc \in InTurn => Indices(g, g.taken) = 1..v.produced
  /\ \A j \in DOMAIN g.chunks : g.chunks[j].turn <= g.taken /\ g.chunks[j].nonce = j - 1
  /\ \A i \in DOMAIN g.answers :
       g.answers[i].kind = "done" => Indices(g, i) = 1..g.answers[i].produced

\* The prompt in hand, if the session's row is as `a` says.
InTime(a, v) ==
  /\ a => ~v.hand.late
  /\ v.pc \in {"request", "events"} => ~v.hand.late

Typed(c, v, g) == c \in Client /\ v \in Server /\ g \in Log
SocketOK(a, c, v, g) == Typed(c, v, g) /\ Origin(c, v, g) /\ Turns(v, g) /\ InTime(a, v)

Closed == {"idle", "verified", "upgrading", "ended"}

\* The invariant, socket by socket.
LEMMA Apart ==
  ASSUME ChatInv, NEW s \in Sockets
  PROVE  SocketOK(active, client[s], server[s], log[s])
  <1>1. Typed(client[s], server[s], log[s])
    BY DEF ChatInv, TypeOK, Typed
  <1>2. Origin(client[s], server[s], log[s])
    BY DEF ChatInv, SocketInv, PromptsForwardedOnce, Origin, Encrypted
  <1>3. Turns(server[s], log[s])
    BY Zenon DEF ChatInv, SocketInv, ChunksDecryptInOrder, OneAnswerPerPrompt, DoneIsComplete, Turns
  <1>4. InTime(active, server[s])
    BY DEF ChatInv, SocketInv, RevokedPromptStays, AtProvider, InTime
  <1> QED
    BY <1>1, <1>2, <1>3, <1>4 DEF SocketOK

LEMMA Together ==
  ASSUME active \in BOOLEAN, time \in Times, metrics \in Metrics, GaugeIsTruthful,
         client = [s \in Sockets |-> client[s]], server = [s \in Sockets |-> server[s]],
         log = [s \in Sockets |-> log[s]],
         \A s \in Sockets : SocketOK(active, client[s], server[s], log[s])
  PROVE  ChatInv
  <1>1. TypeOK
    BY DEF SocketOK, Typed, TypeOK
  <1>2. PromptsForwardedOnce
    BY DEF SocketOK, Origin, Encrypted, PromptsForwardedOnce
  <1>3. ChunksDecryptInOrder /\ OneAnswerPerPrompt /\ DoneIsComplete
    BY Zenon DEF SocketOK, Turns, ChunksDecryptInOrder, OneAnswerPerPrompt, DoneIsComplete
  <1>4. RevokedPromptStays
    BY DEF SocketOK, InTime, RevokedPromptStays, AtProvider
  <1>5. ASSUME NEW s \in Sockets PROVE SocketInv(s)
    BY Zenon DEF SocketOK, Origin, Turns, InTime, SocketInv
  <1> QED
    BY <1>1, <1>2, <1>3, <1>4, <1>5 DEF ChatInv

\* A step of one socket: its records become c, v and g.
Step(s, c, v, g) ==
  /\ client' = [client EXCEPT ![s] = c]
  /\ server' = [server EXCEPT ![s] = v]
  /\ log' = [log EXCEPT ![s] = g]
  /\ UNCHANGED <<active, time>>

\* If the records are right and so is the gauge, the invariant is kept.
LEMMA StepKeeps ==
  ASSUME ChatInv, NEW s \in Sockets, NEW c, NEW v, NEW g, Step(s, c, v, g),
         SocketOK(active, c, v, g), metrics' \in Metrics, GaugeIsTruthful'
  PROVE  ChatInv'
  <1>1. /\ client' = [q \in Sockets |-> IF q = s THEN c ELSE client[q]]
        /\ server' = [q \in Sockets |-> IF q = s THEN v ELSE server[q]]
        /\ log' = [q \in Sockets |-> IF q = s THEN g ELSE log[q]]
    BY Zenon DEF Step, ChatInv, TypeOK
  <1>2. ASSUME NEW q \in Sockets PROVE SocketOK(active', client'[q], server'[q], log'[q])
    BY <1>1, Apart DEF Step
  <1>4. active' \in BOOLEAN /\ time' \in Times
    BY DEF Step, ChatInv, TypeOK
  <1>5. TypeOK'
    BY <1>1, <1>2, <1>4 DEF SocketOK, Typed, TypeOK
  <1>6. PromptsForwardedOnce'
    BY <1>2 DEF SocketOK, Origin, Encrypted, PromptsForwardedOnce
  <1>7. ChunksDecryptInOrder' /\ OneAnswerPerPrompt' /\ DoneIsComplete'
    BY <1>2, Zenon DEF SocketOK, Turns, ChunksDecryptInOrder, OneAnswerPerPrompt, DoneIsComplete
  <1>8. RevokedPromptStays'
    BY <1>2 DEF SocketOK, InTime, RevokedPromptStays, AtProvider
  <1>9. ASSUME NEW q \in Sockets PROVE SocketInv(q)'
    BY <1>2, Zenon DEF SocketOK, Origin, Turns, InTime, SocketInv
  <1> QED
    BY <1>5, <1>6, <1>7, <1>8, <1>9 DEF ChatInv

\* The gauge is right after a step that neither opens nor closes the socket.
LEMMA InnerKeeps ==
  ASSUME ChatInv, NEW s \in Sockets, NEW c, NEW v, NEW g, Step(s, c, v, g),
         SocketOK(active, c, v, g), v.pc \in Closed <=> server[s].pc \in Closed,
         metrics' \in Metrics, metrics'.ws_sessions_active = metrics.ws_sessions_active
  PROVE  ChatInv'
  <1>1. server' = [q \in Sockets |-> IF q = s THEN v ELSE server[q]]
    BY Zenon DEF Step, ChatInv, TypeOK
  <1>2. Opened' = Opened
    BY <1>1 DEF Opened, Closed
  <1>3. GaugeIsTruthful'
    BY <1>2 DEF GaugeIsTruthful, ChatInv
  <1> QED
    BY <1>3, StepKeeps

-----------------------------------------------------------------------------
(* Changes of a socket's records.                                          *)

\* The records of a socket are records.
LEMMA Fields ==
  ASSUME NEW c, NEW v, NEW g, Typed(c, v, g)
  PROVE  /\ c.inbox \in Seq(ClientFrame) /\ c.prompts \in Seq(Bodies) /\ c.frames \in Nat
         /\ v.pc \in Labels /\ v.recv_counter \in 0..CounterMax /\ v.send_counter \in 0..CounterMax
         /\ v.dead \in BOOLEAN /\ v.hand \in Hand /\ v.produced \in Nat
         /\ g.taken \in Nat /\ g.forwarded \in Seq(Nat) /\ g.chunks \in Seq(Chunk)
         /\ g.answers \in Seq([kind: Answers, produced: Nat])
  BY DEF Typed, Client, Server, Log

\* The handler, outside a turn, goes on, or a send of it fails.
LEMMA Moves ==
  ASSUME NEW a, NEW c, NEW v, NEW g, SocketOK(a, c, v, g), v.pc \notin InTurn,
         NEW l \in Labels \ InTurn, NEW dead \in BOOLEAN, v.dead => dead,
         dead => l \in {"closing", "return", "ended"},
         NEW w, w = [v EXCEPT !.pc = l, !.dead = dead]
  PROVE  SocketOK(a, c, w, g)
  <1>1. v \in Server
    BY DEF SocketOK, Typed
  <1>2. /\ w \in Server /\ w.pc = l /\ w.dead = dead /\ w.hand = v.hand /\ w.produced = v.produced
        /\ w.recv_counter = v.recv_counter /\ w.send_counter = v.send_counter
    BY <1>1, Zenon DEF Server
  <1>3. Typed(c, w, g) /\ InTime(a, w) /\ Origin(c, w, g)
    BY <1>2 DEF SocketOK, Typed, InTime, Origin, InTurn
  <1>4. Turns(w, g)
    BY <1>2 DEF SocketOK, Turns, InTurn
  <1> QED
    BY <1>3, <1>4 DEF SocketOK

\* A frame is taken from the inbox.
LEMMA Consumes ==
  ASSUME NEW a, NEW c, NEW v, NEW g, SocketOK(a, c, v, g), c.inbox # <<>>,
         NEW d, d = [c EXCEPT !.inbox = Tail(@)], NEW f, f = Head(c.inbox)
  PROVE  /\ SocketOK(a, d, v, g) /\ f \in ClientFrame
         /\ f.type = "prompt" => Encrypted(d, f.nonce, f.body)
  <1>1. c \in Client /\ c.inbox \in Seq(ClientFrame)
    BY DEF SocketOK, Typed, Client
  <1>2. /\ Tail(c.inbox) \in Seq(ClientFrame) /\ f \in ClientFrame /\ f = c.inbox[1] /\ 1 \in DOMAIN c.inbox
        /\ \A i \in DOMAIN Tail(c.inbox) : i + 1 \in DOMAIN c.inbox /\ Tail(c.inbox)[i] = c.inbox[i + 1]
    BY <1>1
  <1>3. d \in Client /\ d.inbox = Tail(c.inbox) /\ d.prompts = c.prompts
    BY <1>1, <1>2, Zenon DEF Client
  <1>4. Typed(d, v, g)
    BY <1>3 DEF SocketOK, Typed
  <1>5. Origin(d, v, g)
    BY <1>2, <1>3 DEF SocketOK, Origin, Encrypted
  <1>6. f.type = "prompt" => Encrypted(d, f.nonce, f.body)
    BY <1>2, <1>3 DEF SocketOK, Origin, Encrypted
  <1> QED
    BY <1>2, <1>4, <1>5, <1>6 DEF SocketOK

\* A frame leaves the client, with a new prompt or without.
LEMMA Emits ==
  ASSUME NEW a, NEW c, NEW v, NEW g, SocketOK(a, c, v, g),
         NEW f \in ClientFrame, NEW p \in Seq(Bodies),
         \A i \in DOMAIN c.prompts : i \in DOMAIN p /\ p[i] = c.prompts[i],
         NEW d, d = [c EXCEPT !.inbox = Append(@, f), !.prompts = p, !.frames = @ + 1],
         f.type = "prompt" => Encrypted(d, f.nonce, f.body)
  PROVE  SocketOK(a, d, v, g)
  <1>1. c \in Client /\ c.inbox \in Seq(ClientFrame) /\ c.prompts \in Seq(Bodies) /\ g.forwarded \in Seq(Nat)
    BY DEF SocketOK, Typed, Client, Log
  <1>2. d \in Client /\ d.inbox = Append(c.inbox, f) /\ d.prompts = p
    <2> PICK b : b = Append(c.inbox, f)
      OBVIOUS
    <2>1. b \in Seq(ClientFrame) /\ c.frames + 1 \in Nat /\ d = [c EXCEPT !.inbox = b, !.prompts = p, !.frames = @ + 1]
      BY <1>1 DEF Client
    <2>2. d \in Client /\ d.inbox = b /\ d.prompts = p
      BY <1>1, <2>1, Zenon DEF Client
    <2> QED
      BY <2>2
  <1>3. ASSUME NEW n \in Nat, NEW b, Encrypted(c, n, b) PROVE Encrypted(d, n, b)
    <2>1. n + 1 \in DOMAIN c.prompts
      BY <1>1, <1>3 DEF Encrypted
    <2> QED
      BY <1>1, <1>2, <1>3, <2>1 DEF Encrypted
  <1>4. ASSUME NEW i \in DOMAIN d.inbox, d.inbox[i].type = "prompt"
        PROVE  Encrypted(d, d.inbox[i].nonce, d.inbox[i].body)
    <2>1. CASE i = Len(c.inbox) + 1
      BY <1>1, <1>2, <1>4, <2>1
    <2>2. CASE i # Len(c.inbox) + 1
      <3>1. i \in DOMAIN c.inbox /\ d.inbox[i] = c.inbox[i]
        BY <1>1, <1>2, <2>2
      <3>2. c.inbox[i] \in ClientFrame /\ c.inbox[i].nonce \in Nat
        BY <1>1, <1>4, <3>1 DEF ClientFrame
      <3> QED
        BY <1>3, <1>4, <3>1, <3>2 DEF SocketOK, Origin
    <2> QED
      BY <2>1, <2>2
  <1>5. v.pc = "prompt" => Encrypted(d, v.hand.nonce, v.hand.body)
    BY <1>3 DEF SocketOK, Origin, Typed, Server, Hand
  <1>6. \A i \in DOMAIN g.forwarded : Encrypted(d, g.forwarded[i], "good")
    <2> SUFFICES ASSUME NEW i \in DOMAIN g.forwarded PROVE Encrypted(d, g.forwarded[i], "good")
      OBVIOUS
    <2>1. g.forwarded[i] \in Nat
      BY <1>1
    <2>2. Encrypted(c, g.forwarded[i], "good")
      BY DEF SocketOK, Origin
    <2> QED
      BY <1>3, <2>1, <2>2
  <1>7. Origin(d, v, g)
    BY <1>4, <1>5, <1>6 DEF SocketOK, Origin
  <1> QED
    BY <1>2, <1>7 DEF SocketOK, Typed

\* The prompt in hand is answered, or its answer cannot be written.
LEMMA Concludes ==
  ASSUME NEW a, NEW c, NEW v, NEW g, SocketOK(a, c, v, g), v.pc \in InTurn,
         NEW w \in Server, NEW ok \in BOOLEAN, w.dead <=> ~ok,
         w.pc \in {"loop", "closing", "return"}, ~ok => w.pc # "loop",
         w.recv_counter >= v.recv_counter, ok => w.send_counter = v.send_counter,
         w.hand = NoHand, w.produced = 0,
         NEW answer \in [kind: Answers, produced: Nat], answer.produced = v.produced,
         NEW h \in Log, h.taken = g.taken, h.chunks = g.chunks, h.forwarded = g.forwarded,
         h.answers = IF ok THEN Append(g.answers, answer) ELSE g.answers
  PROVE  SocketOK(a, c, w, h)
  <1>1. /\ g.answers \in Seq([kind: Answers, produced: Nat]) /\ g.taken \in Nat
        /\ g.forwarded \in Seq(Nat) /\ v.recv_counter \in Nat
    <2>1. Typed(c, v, g)
      BY DEF SocketOK
    <2>2. /\ g.answers \in Seq([kind: Answers, produced: Nat]) /\ g.taken \in Nat
          /\ g.forwarded \in Seq(Nat) /\ v.recv_counter \in 0..CounterMax
      BY <2>1, Fields, Zenon
    <2>3. v.recv_counter \in Nat
      BY <2>2, StreamAssumption
    <2> QED
      BY <2>2, <2>3
  <1>2. w.recv_counter \in Nat
    BY StreamAssumption DEF Server
  <1>3. \A i : Indices(h, i) = Indices(g, i)
    BY DEF Indices
  <1>4. Typed(c, w, h) /\ InTime(a, w)
    BY DEF SocketOK, Typed, InTime, NoHand
  <1>5. Origin(c, w, h)
    <2>1. \A i \in DOMAIN g.forwarded : g.forwarded[i] \in Nat /\ g.forwarded[i] < v.recv_counter
      BY <1>1 DEF SocketOK, Origin
    <2>2. \A i \in DOMAIN g.forwarded : g.forwarded[i] < w.recv_counter
      BY <1>1, <1>2, <2>1
    <2> QED
      BY <2>2 DEF SocketOK, Origin
  <1>6. Turns(w, h)
    <2>1. ~v.dead /\ g.taken = Len(g.answers) + 1 /\ v.send_counter = Len(g.chunks)
          /\ Indices(g, g.taken) = 1..v.produced
      BY DEF SocketOK, Turns, InTurn
    <2>2. ASSUME NEW i \in DOMAIN h.answers, h.answers[i].kind = "done"
          PROVE  Indices(h, i) = 1..h.answers[i].produced
      <3>1. CASE i \in DOMAIN g.answers /\ h.answers[i] = g.answers[i]
        BY <1>3, <2>2, <3>1 DEF SocketOK, Turns
      <3>2. CASE i = Len(g.answers) + 1 /\ h.answers[i] = answer
        BY <1>3, <2>1, <3>2
      <3> QED
        BY <1>1, <3>1, <3>2
    <2>3. ok => h.taken = Len(h.answers)
      BY <1>1, <2>1
    <2>4. \A j \in DOMAIN h.chunks : h.chunks[j].turn <= h.taken /\ h.chunks[j].nonce = j - 1
      BY DEF SocketOK, Turns
    <2>5. ~w.dead => w.send_counter = Len(h.chunks)
      BY <2>1
    <2>6. w.pc \notin InTurn
      BY DEF InTurn
    <2>7. ~w.dead => h.taken = Len(h.answers) + (IF w.pc \in InTurn THEN 1 ELSE 0)
      <3>1. ok => h.taken = Len(h.answers) + 0
        BY <1>1, <2>3
      <3> QED
        BY <2>6, <3>1
    <2>8. w.dead => w.pc \in {"closing", "return", "ended"}
      OBVIOUS
    <2> QED
      BY <2>2, <2>4, <2>5, <2>6, <2>7, <2>8 DEF Turns
  <1> QED
    BY <1>4, <1>5, <1>6 DEF SocketOK

\* A prompt is taken from the socket.
LEMMA Takes ==
  ASSUME NEW a \in BOOLEAN, NEW c, NEW v, NEW g, SocketOK(a, c, v, g), v.pc = "loop",
         NEW w \in Server, w.pc = "prompt", w.hand.late = ~a, Encrypted(c, w.hand.nonce, w.hand.body),
         w.dead = v.dead, w.produced = v.produced, w.recv_counter = v.recv_counter,
         w.send_counter = v.send_counter,
         NEW h \in Log, h.taken = g.taken + 1, h.chunks = g.chunks, h.answers = g.answers,
         h.forwarded = g.forwarded
  PROVE  SocketOK(a, c, w, h)
  <1>1. g.taken \in Nat /\ g.chunks \in Seq(Chunk)
    BY Fields DEF SocketOK
  <1>2. Typed(c, w, h) /\ InTime(a, w)
    BY Zenon DEF SocketOK, Typed, InTime
  <1>3. Origin(c, w, h)
    BY DEF SocketOK, Origin
  <1>4. \A i : Indices(h, i) = Indices(g, i)
    BY DEF Indices
  <1>5. Turns(w, h)
    <2>1. ~v.dead /\ v.produced = 0 /\ g.taken = Len(g.answers) /\ v.send_counter = Len(g.chunks)
      <3>1. Len(g.answers) \in Nat
        BY Fields DEF SocketOK
      <3> QED
        BY <3>1 DEF SocketOK, Turns, InTurn
    <2>2. \A j \in DOMAIN g.chunks : g.chunks[j].turn <= g.taken /\ g.chunks[j].nonce = j - 1
      BY DEF SocketOK, Turns
    <2>3. \A j \in DOMAIN g.chunks : g.chunks[j].turn \in Nat
      <3>1. \A j \in DOMAIN g.chunks : g.chunks[j] \in Chunk
        BY <1>1
      <3> QED
        BY <3>1 DEF Chunk
    <2>4. Indices(h, h.taken) = 1..0
      <3>1. {k \in DOMAIN h.chunks : h.chunks[k].turn = h.taken} = {}
        BY <1>1, <2>2, <2>3
      <3> QED
        BY <3>1 DEF Indices
    <2>5. \A j \in DOMAIN h.chunks : h.chunks[j].turn <= h.taken /\ h.chunks[j].nonce = j - 1
      BY <1>1, <2>2, <2>3
    <2>6. \A i \in DOMAIN h.answers : h.answers[i].kind = "done" => Indices(h, i) = 1..h.answers[i].produced
      BY <1>4 DEF SocketOK, Turns
    <2> QED
      BY <2>1, <2>4, <2>5, <2>6 DEF Turns, InTurn
  <1> QED
    BY <1>2, <1>3, <1>5 DEF SocketOK

\* The prompt in hand is forwarded: its nonce is the next one.
LEMMA Forwards ==
  ASSUME NEW a, NEW c, NEW v, NEW g, SocketOK(a, c, v, g), a, v.pc = "prompt",
         v.hand.body = "good", v.hand.nonce = v.recv_counter,
         NEW w \in Server, w.pc = "request", w.hand = v.hand, w.dead = v.dead, w.produced = v.produced,
         w.recv_counter = v.recv_counter + 1, w.send_counter = v.send_counter,
         NEW h \in Log, h.forwarded = Append(g.forwarded, v.hand.nonce),
         h.taken = g.taken, h.chunks = g.chunks, h.answers = g.answers
  PROVE  SocketOK(a, c, w, h)
  <1>1. Typed(c, w, h) /\ InTime(a, w)
    BY DEF SocketOK, Typed, InTime
  <1>2. Turns(w, h)
    <2>1. \A i : Indices(h, i) = Indices(g, i)
      BY DEF Indices
    <2> QED
      BY <2>1 DEF SocketOK, Turns, InTurn
  <1>3. Origin(c, w, h)
    <2>1. g.forwarded \in Seq(Nat) /\ v.recv_counter \in 0..CounterMax
      BY DEF SocketOK, Typed, Log, Server
    <2>2. \A i \in DOMAIN g.forwarded :
            g.forwarded[i] \in Nat /\ g.forwarded[i] < v.recv_counter /\ Encrypted(c, g.forwarded[i], "good")
      BY <2>1 DEF SocketOK, Origin
    <2>3. \A i, j \in DOMAIN g.forwarded : i < j => g.forwarded[i] < g.forwarded[j]
      BY DEF SocketOK, Origin
    <2>4. Encrypted(c, v.hand.nonce, "good")
      BY DEF SocketOK, Origin
    <2>5. ASSUME NEW i \in DOMAIN h.forwarded
          PROVE  \/ i \in DOMAIN g.forwarded /\ h.forwarded[i] = g.forwarded[i] /\ i <= Len(g.forwarded)
                 \/ i = Len(g.forwarded) + 1 /\ h.forwarded[i] = v.hand.nonce
      BY <2>1
    <2>6. \A i \in DOMAIN h.forwarded : h.forwarded[i] < w.recv_counter
      BY <2>1, <2>2, <2>5, StreamAssumption
    <2>7. \A i \in DOMAIN h.forwarded : Encrypted(c, h.forwarded[i], "good")
      BY <2>2, <2>4, <2>5
    <2>8. \A i, j \in DOMAIN h.forwarded : i < j => h.forwarded[i] < h.forwarded[j]
      BY <2>1, <2>2, <2>3, <2>5
    <2> QED
      BY <2>6, <2>7, <2>8 DEF SocketOK, Origin
  <1> QED
    BY <1>1, <1>2, <1>3, Zenon DEF SocketOK

\* The provider begins to answer.
LEMMA Streams ==
  ASSUME NEW a, NEW c, NEW v, NEW g, SocketOK(a, c, v, g), v.pc = "request",
         NEW w, w = [v EXCEPT !.pc = "events"]
  PROVE  SocketOK(a, c, w, g)
  <1>1. v \in Server
    BY DEF SocketOK, Typed
  <1>2. /\ w \in Server /\ w.pc = "events" /\ w.dead = v.dead /\ w.hand = v.hand /\ w.produced = v.produced
        /\ w.recv_counter = v.recv_counter /\ w.send_counter = v.send_counter
    BY <1>1 DEF Server, Labels
  <1>3. Typed(c, w, g) /\ InTime(a, w) /\ Origin(c, w, g)
    BY <1>2 DEF SocketOK, Typed, InTime, Origin
  <1>4. Turns(w, g)
    BY <1>2 DEF SocketOK, Turns, InTurn
  <1> QED
    BY <1>3, <1>4 DEF SocketOK

\* A chunk is written with the next nonce, as the next one of its turn.
LEMMA Writes ==
  ASSUME NEW a, NEW c, NEW v, NEW g, SocketOK(a, c, v, g), v.pc = "events",
         NEW w \in Server, w.pc = "events", w.hand = v.hand, w.dead = v.dead,
         w.produced = v.produced + 1,
         w.recv_counter = v.recv_counter, w.send_counter = v.send_counter + 1,
         NEW chunk \in Chunk, chunk.nonce = v.send_counter, chunk.turn = g.taken, chunk.index = v.produced + 1,
         NEW h \in Log, h.chunks = Append(g.chunks, chunk),
         h.taken = g.taken, h.forwarded = g.forwarded, h.answers = g.answers
  PROVE  SocketOK(a, c, w, h)
  <1>1. /\ g.chunks \in Seq(Chunk) /\ v.produced \in Nat /\ g.taken \in Nat
        /\ g.answers \in Seq([kind: Answers, produced: Nat])
    BY DEF SocketOK, Typed, Log, Server
  <1>2. Typed(c, w, h) /\ InTime(a, w) /\ Origin(c, w, h)
    BY DEF SocketOK, Typed, InTime, Origin
  <1>3. /\ ~v.dead /\ v.send_counter = Len(g.chunks) /\ g.taken = Len(g.answers) + 1
        /\ Indices(g, g.taken) = 1..v.produced
        /\ \A j \in DOMAIN g.chunks : g.chunks[j].turn <= g.taken /\ g.chunks[j].nonce = j - 1
        /\ \A i \in DOMAIN g.answers :
             g.answers[i].kind = "done" => Indices(g, i) = 1..g.answers[i].produced
    BY DEF SocketOK, Turns, InTurn
  <1>4. /\ DOMAIN h.chunks = DOMAIN g.chunks \cup {Len(g.chunks) + 1}
        /\ \A j \in DOMAIN g.chunks : h.chunks[j] = g.chunks[j]
        /\ h.chunks[Len(g.chunks) + 1] = chunk
    BY <1>1
  <1>5. Indices(h, g.taken) = 1..v.produced + 1
    <2>1. Indices(h, g.taken) = Indices(g, g.taken) \cup {v.produced + 1}
      BY <1>4 DEF Indices
    <2>2. 1..v.produced + 1 = 1..v.produced \cup {v.produced + 1}
      BY <1>1
    <2> QED
      BY <1>3, <2>1, <2>2, Zenon
  <1>6. ASSUME NEW i \in DOMAIN g.answers PROVE Indices(h, i) = Indices(g, i)
    <2>1. i # g.taken
      BY <1>1, <1>3
    <2> QED
      BY <1>4, <2>1 DEF Indices
  <1>7. \A j \in DOMAIN h.chunks : h.chunks[j].turn <= h.taken /\ h.chunks[j].nonce = j - 1
    BY <1>1, <1>3, <1>4
  <1>8. w.send_counter = Len(h.chunks)
    BY <1>1, <1>3
  <1>9. Turns(w, h)
    BY <1>3, <1>5, <1>6, <1>7, <1>8 DEF Turns, InTurn
  <1> QED
    BY <1>2, <1>9 DEF SocketOK

-----------------------------------------------------------------------------
(* The actions.                                                            *)

\* What a step leaves alone.
LEMMA Alone ==
  ASSUME ChatInv, NEW s \in Sockets
  PROVE  /\ client = [client EXCEPT ![s] = client[s]]
         /\ server = [server EXCEPT ![s] = server[s]]
         /\ log = [log EXCEPT ![s] = log[s]]
         /\ active \in BOOLEAN /\ metrics \in Metrics
         /\ client[s] \in Client /\ server[s] \in Server /\ log[s] \in Log
  BY DEF ChatInv, TypeOK

\* A handler that goes on, outside a turn, with or without a frame.
LEMMA GotoKeeps ==
  ASSUME ChatInv, NEW s \in Sockets, NEW l \in Labels \ InTurn, server[s].pc \notin InTurn, Goto(s, l),
         server[s].dead => l \in {"closing", "return", "ended"},
         l \in Closed <=> server[s].pc \in Closed,
         UNCHANGED <<active, time, log, metrics>>, UNCHANGED client \/ (Arrived(s) /\ Consume(s))
  PROVE  ChatInv'
  <1> PICK v : v = [server[s] EXCEPT !.pc = l]
    OBVIOUS
  <1> PICK c : c = IF UNCHANGED client THEN client[s] ELSE [client[s] EXCEPT !.inbox = Tail(@)]
    OBVIOUS
  <1>1. Step(s, c, v, log[s])
    <2>1. client' = [client EXCEPT ![s] = c]
      BY Alone DEF Consume
    <2>2. server' = [server EXCEPT ![s] = v]
      BY DEF Goto
    <2> QED
      BY <2>1, <2>2, Alone DEF Step
  <1>2. v.pc = l /\ v = [server[s] EXCEPT !.pc = l, !.dead = server[s].dead] /\ server[s].dead \in BOOLEAN
    BY Alone, Zenon DEF Server
  <1>3. SocketOK(active, client[s], v, log[s])
    <2>1. SocketOK(active, client[s], server[s], log[s])
      BY Apart
    <2> PICK o : o = server[s]
      OBVIOUS
    <2> PICK dead \in BOOLEAN : dead = o.dead
      BY <1>2
    <2>2. v = [o EXCEPT !.pc = l, !.dead = dead]
      BY <1>2, Zenon
    <2> QED
      BY <2>1, <2>2, Moves, Zenon
  <1>4. SocketOK(active, c, v, log[s])
    BY <1>3, Consumes DEF Arrived
  <1>5. metrics' \in Metrics /\ metrics'.ws_sessions_active = metrics.ws_sessions_active
    BY Alone
  <1>6. v.pc \in Closed <=> server[s].pc \in Closed
    BY <1>2
  <1> QED
    BY <1>1, <1>4, <1>5, <1>6, InnerKeeps, Zenon

\* A frame of the client that holds no new prompt.
LEMMA EmitKeeps ==
  ASSUME ChatInv, NEW s \in Sockets, NEW f \in ClientFrame, Emit(s, f),
         f.type = "prompt" => Encrypted(client[s], f.nonce, f.body)
  PROVE  ChatInv'
  <1> PICK c : c = [client[s] EXCEPT !.inbox = Append(@, f), !.prompts = client[s].prompts, !.frames = @ + 1]
    OBVIOUS
  <1>1. client[s] \in Client /\ client[s].prompts \in Seq(Bodies)
    BY Alone DEF Client
  <1>2. c = [client[s] EXCEPT !.inbox = Append(@, f), !.frames = @ + 1] /\ c.prompts = client[s].prompts
    BY <1>1, Zenon DEF Client
  <1>3. Step(s, c, server[s], log[s])
    BY <1>2, Alone, Zenon DEF Emit, Step
  <1>4. SocketOK(active, c, server[s], log[s])
    <2>1. SocketOK(active, client[s], server[s], log[s])
      BY Apart
    <2>2. f.type = "prompt" => Encrypted(c, f.nonce, f.body)
      BY <1>2 DEF Encrypted
    <2> PICK p \in Seq(Bodies) : p = client[s].prompts
      BY <1>1
    <2>3. \A i \in DOMAIN client[s].prompts : i \in DOMAIN p /\ p[i] = client[s].prompts[i]
      OBVIOUS
    <2>4. c = [client[s] EXCEPT !.inbox = Append(@, f), !.prompts = p, !.frames = @ + 1]
      OBVIOUS
    <2> QED
      BY <2>1, <2>2, <2>3, <2>4, Emits, Zenon
  <1> QED
    BY <1>3, <1>4, InnerKeeps, Alone DEF Emit

\* The client, and the request for a socket.
LEMMA EnvironmentKeeps ==
  ASSUME ChatInv, NEW s \in Sockets, Environment(s)
  PROVE  ChatInv'
  <1>1. CASE SendClientHello(s)
    <2>1. PICK k \in KeyKinds : Emit(s, [type |-> "client_hello", key |-> k])
      BY <1>1 DEF SendClientHello
    <2> PICK f : f = [type |-> "client_hello", key |-> k]
      OBVIOUS
    <2>2. f \in ClientFrame /\ f.type # "prompt"
      BY DEF ClientFrame
    <2> QED
      BY <2>1, <2>2, EmitKeeps
  <1>2. CASE SendOther(s)
    <2>1. PICK t \in {"close", "malformed"} : Emit(s, [type |-> t])
      BY <1>2 DEF SendOther
    <2> PICK f : f = [type |-> t]
      OBVIOUS
    <2>2. f \in ClientFrame /\ f.type # "prompt"
      BY DEF ClientFrame
    <2> QED
      BY <2>1, <2>2, EmitKeeps
  <1>3. CASE ResendPrompt(s)
    <2>1. PICK i \in DOMAIN client[s].prompts :
            Emit(s, [type |-> "prompt", nonce |-> i - 1, body |-> client[s].prompts[i]])
      BY <1>3 DEF ResendPrompt
    <2>2. client[s].prompts \in Seq(Bodies)
      BY Alone DEF Client
    <2>3. i - 1 \in Nat /\ client[s].prompts[i] \in Bodies /\ Encrypted(client[s], i - 1, client[s].prompts[i])
      BY <2>2 DEF Encrypted
    <2> PICK n \in Nat, b \in Bodies : n = i - 1 /\ b = client[s].prompts[i]
      BY <2>3
    <2> PICK f : f = [type |-> "prompt", nonce |-> n, body |-> b]
      OBVIOUS
    <2>4. f \in ClientFrame /\ f.nonce = n /\ f.body = b
      BY DEF ClientFrame
    <2> QED
      BY <2>1, <2>3, <2>4, EmitKeeps
  <1>4. CASE SendPrompt(s)
    <2> PICK n : n = Len(client[s].prompts)
      OBVIOUS
    <2>1. PICK b \in Bodies :
            client' = [client EXCEPT
              ![s].inbox = Append(@, [type |-> "prompt", nonce |-> n, body |-> b]),
              ![s].prompts = Append(@, b), ![s].frames = @ + 1]
      BY <1>4, Zenon DEF SendPrompt
    <2>2. UNCHANGED <<active, time, server, log, metrics>>
      BY <1>4 DEF SendPrompt
    <2> PICK f : f = [type |-> "prompt", nonce |-> n, body |-> b]
      OBVIOUS
    <2> PICK p : p = Append(client[s].prompts, b)
      OBVIOUS
    <2> PICK c : c = [client[s] EXCEPT !.inbox = Append(@, f), !.prompts = p, !.frames = @ + 1]
      OBVIOUS
    <2>3. client[s] \in Client /\ client[s].prompts \in Seq(Bodies)
      BY Alone DEF Client
    <2>4. n \in Nat /\ f \in ClientFrame /\ f.nonce = n /\ f.body = b
      BY <2>3 DEF ClientFrame
    <2>5. /\ p \in Seq(Bodies) /\ Len(p) = n + 1 /\ p[n + 1] = b
          /\ \A i \in DOMAIN client[s].prompts : i \in DOMAIN p /\ p[i] = client[s].prompts[i]
      BY <2>3
    <2>6. c.prompts = p
      BY <2>3 DEF Client
    <2>7. Encrypted(c, f.nonce, f.body)
      BY <2>4, <2>5, <2>6 DEF Encrypted
    <2>8. SocketOK(active, c, server[s], log[s])
      BY <2>4, <2>5, <2>7, Apart, Emits, Zenon
    <2>9. Step(s, c, server[s], log[s])
      BY <2>1, <2>2, Alone, Zenon DEF Step
    <2> QED
      BY <2>2, <2>8, <2>9, InnerKeeps, Alone
  <1>5. CASE Disconnect(s)
    <2> PICK c : c = [client[s] EXCEPT !.gone = TRUE]
      OBVIOUS
    <2>1. c \in Client /\ c.inbox = client[s].inbox /\ c.prompts = client[s].prompts
      BY Alone, Zenon DEF Client
    <2>2. Step(s, c, server[s], log[s])
      BY <1>5, Alone DEF Disconnect, Step
    <2>3. SocketOK(active, c, server[s], log[s])
      BY <2>1, Apart DEF SocketOK, Typed, Origin, Encrypted
    <2> QED
      BY <1>5, <2>2, <2>3, InnerKeeps, Alone DEF Disconnect
  <1>6. CASE Verify(s)
    <2>1. ~server[s].dead
      BY <1>6, Apart, Zenon DEF Verify, At, SocketOK, Turns
    <2> QED
      BY <1>6, <2>1, GotoKeeps DEF Verify, At, Labels, InTurn, Closed
  <1> QED
    BY <1>1, <1>2, <1>3, <1>4, <1>5, <1>6 DEF Environment

\* A frame is sent, or fails to be, outside a turn.
LEMMA SendKeeps ==
  ASSUME ChatInv, NEW s \in Sockets, NEW ok \in BOOLEAN, CanSend(s, ok),
         NEW l \in {"handshake", "loop"}, server[s].pc \in {"hello", "loop"},
         server' = [server EXCEPT ![s] = AfterSend(s, ok, l)],
         UNCHANGED <<active, time, log, metrics>>, UNCHANGED client \/ (Arrived(s) /\ Consume(s))
  PROVE  ChatInv'
  <1> PICK o : o = server[s]
    OBVIOUS
  <1> PICK m : m = IF ok THEN l ELSE "return"
    OBVIOUS
  <1> PICK v : v = [o EXCEPT !.pc = m, !.dead = ~ok]
    OBVIOUS
  <1> PICK c : c = IF UNCHANGED client THEN client[s] ELSE [client[s] EXCEPT !.inbox = Tail(@)]
    OBVIOUS
  <1>1. o \in Server /\ ~o.dead /\ SocketOK(active, client[s], o, log[s])
    BY Alone, Apart, Zenon DEF SocketOK, Turns
  <1>2. v = AfterSend(s, ok, l) /\ v.pc = m
    BY <1>1, Zenon DEF AfterSend, Server
  <1>3. Step(s, c, v, log[s])
    <2>1. client' = [client EXCEPT ![s] = c]
      BY Alone DEF Consume
    <2> QED
      BY <1>2, <2>1, Alone, Zenon DEF Step
  <1>4. SocketOK(active, client[s], v, log[s])
    <2>1. m \in Labels \ InTurn /\ o.pc \notin InTurn
      BY DEF Labels, InTurn
    <2> PICK dead \in BOOLEAN : dead = ~ok
      OBVIOUS
    <2>2. (dead => m \in {"closing", "return", "ended"}) /\ (o.dead => dead)
      BY <1>1, Zenon
    <2> QED
      BY <1>1, <2>1, <2>2, Moves, Zenon
  <1>5. SocketOK(active, c, v, log[s])
    BY <1>4, Consumes DEF Arrived
  <1>6. v.pc \in Closed <=> server[s].pc \in Closed
    BY <1>2 DEF Closed
  <1>7. metrics' \in Metrics /\ metrics'.ws_sessions_active = metrics.ws_sessions_active
    BY Alone
  <1> QED
    BY <1>3, <1>5, <1>6, <1>7, InnerKeeps, Zenon

\* A log with one more answer.
LEMMA LogAnswered ==
  ASSUME NEW g \in Log, NEW answer \in [kind: Answers, produced: Nat], NEW ok \in BOOLEAN,
         NEW h, h = [g EXCEPT !.answers = IF ok THEN Append(@, answer) ELSE @]
  PROVE  /\ h \in Log /\ h.taken = g.taken /\ h.chunks = g.chunks /\ h.forwarded = g.forwarded
         /\ h.answers = IF ok THEN Append(g.answers, answer) ELSE g.answers
  <1> PICK t : t = IF ok THEN Append(g.answers, answer) ELSE g.answers
    OBVIOUS
  <1>1. g.answers \in Seq([kind: Answers, produced: Nat])
    BY DEF Log
  <1>2. Append(g.answers, answer) \in Seq([kind: Answers, produced: Nat])
    BY <1>1
  <1>3. t \in Seq([kind: Answers, produced: Nat])
    BY <1>1, <1>2, Zenon
  <1>4. h = [g EXCEPT !.answers = t]
    OBVIOUS
  <1>5. /\ h \in Log /\ h.taken = g.taken /\ h.chunks = g.chunks /\ h.forwarded = g.forwarded
        /\ h.answers = t
    BY <1>3, <1>4, Zenon DEF Log
  <1> QED
    BY <1>5

\* A handler without a prompt in hand.
LEMMA HandEmptied ==
  ASSUME NEW x \in Server, NEW w, w = [x EXCEPT !.hand = NoHand, !.produced = 0]
  PROVE  /\ w \in Server /\ w.dead = x.dead /\ w.pc = x.pc
         /\ w.recv_counter = x.recv_counter /\ w.send_counter = x.send_counter
         /\ w.hand = NoHand /\ w.produced = 0
  <1>1. NoHand \in Hand
    BY DEF NoHand, Hand, Bodies
  <1> QED
    BY <1>1, Zenon DEF Server

\* The prompt in hand is answered, or its answer cannot be written.
LEMMA ConcludeKeeps ==
  ASSUME ChatInv, NEW s \in Sockets, NEW ok \in BOOLEAN, server[s].pc \in InTurn,
         NEW w \in Server, w.dead <=> ~ok,
         w.pc \in {"loop", "closing", "return"}, ~ok => w.pc # "loop",
         w.recv_counter >= server[s].recv_counter, ok => w.send_counter = server[s].send_counter,
         w.hand = NoHand, w.produced = 0, server' = [server EXCEPT ![s] = w],
         NEW kind \in Answers, log' = [log EXCEPT ![s] = WithAnswer(s, ok, kind)],
         UNCHANGED <<active, time, client>>,
         metrics' \in Metrics, metrics'.ws_sessions_active = metrics.ws_sessions_active
  PROVE  ChatInv'
  <1> PICK v : v = server[s]
    OBVIOUS
  <1> PICK g : g = log[s]
    OBVIOUS
  <1> PICK h : h = WithAnswer(s, ok, kind)
    OBVIOUS
  <1> PICK answer : answer = [kind |-> kind, produced |-> v.produced]
    OBVIOUS
  <1>1. SocketOK(active, client[s], v, g) /\ v \in Server /\ g \in Log
    BY Apart, Alone
  <1>2. answer \in [kind: Answers, produced: Nat] /\ answer.produced = v.produced
    BY <1>1 DEF Server
  <1>3. /\ h \in Log /\ h.taken = g.taken /\ h.chunks = g.chunks /\ h.forwarded = g.forwarded
        /\ h.answers = IF ok THEN Append(g.answers, answer) ELSE g.answers
    <2>1. h = [g EXCEPT !.answers = IF ok THEN Append(@, answer) ELSE @]
      BY DEF WithAnswer
    <2>2. g \in Log /\ answer \in [kind: Answers, produced: Nat] /\ ok \in BOOLEAN
      BY <1>1, <1>2
    <2> QED
      BY ONLY <2>1, <2>2, LogAnswered
  <1>4. SocketOK(active, client[s], w, h)
    BY <1>1, <1>2, <1>3, Concludes
  <1>5. Step(s, client[s], w, h)
    BY Alone DEF Step
  <1>6. w.pc \in Closed <=> server[s].pc \in Closed
    BY DEF Closed, InTurn
  <1> QED
    BY <1>4, <1>5, <1>6, InnerKeeps

\* The handler once the prompt is answered.
LEMMA AfterTurnIs ==
  ASSUME ChatInv, NEW s \in Sockets, NEW ok \in BOOLEAN, server[s].pc \in InTurn,
         NEW w, w = AfterTurn(s, ok)
  PROVE  /\ w \in Server /\ (w.dead <=> ~ok) /\ w.pc = IF ok THEN "loop" ELSE "return"
         /\ w.recv_counter = server[s].recv_counter /\ w.send_counter = server[s].send_counter
         /\ w.hand = NoHand /\ w.produced = 0
  <1> PICK v : v = server[s]
    OBVIOUS
  <1> PICK x : x = AfterSend(s, ok, "loop")
    OBVIOUS
  <1>1. v \in Server /\ v.dead = FALSE
    <2>1. v.dead \in BOOLEAN /\ v \in Server
      BY Alone DEF Server
    <2> QED
      BY <2>1, Apart, Zenon DEF SocketOK, Turns, InTurn
  <1>2. /\ x \in Server /\ (x.dead <=> ~ok) /\ x.pc = IF ok THEN "loop" ELSE "return"
        /\ x.recv_counter = v.recv_counter /\ x.send_counter = v.send_counter
    <2> PICK l : l = IF ok THEN "loop" ELSE "return"
      OBVIOUS
    <2> PICK dead : dead = (v.dead \/ ~ok)
      OBVIOUS
    <2>1. l \in Labels /\ dead \in BOOLEAN /\ (dead <=> ~ok)
      BY <1>1, Zenon DEF Labels
    <2>2. x = [v EXCEPT !.pc = l, !.dead = dead]
      BY DEF AfterSend
    <2>3. /\ x \in Server /\ x.dead = dead /\ x.pc = l
          /\ x.recv_counter = v.recv_counter /\ x.send_counter = v.send_counter
      BY <1>1, <2>1, <2>2, Zenon DEF Server
    <2> QED
      BY <2>1, <2>3
  <1>3. w = [x EXCEPT !.hand = NoHand, !.produced = 0]
    BY DEF AfterTurn
  <1>4. /\ w \in Server /\ w.dead = x.dead /\ w.pc = x.pc
        /\ w.recv_counter = x.recv_counter /\ w.send_counter = x.send_counter
        /\ w.hand = NoHand /\ w.produced = 0
    BY <1>2, <1>3, HandEmptied, Zenon
  <1> QED
    BY <1>2, <1>4

\* A turn ends in the loop, or with the socket.
LEMMA AfterTurnKeeps ==
  ASSUME ChatInv, NEW s \in Sockets, NEW ok \in BOOLEAN, server[s].pc \in InTurn,
         server' = [server EXCEPT ![s] = AfterTurn(s, ok)],
         NEW kind \in Answers, log' = [log EXCEPT ![s] = WithAnswer(s, ok, kind)],
         UNCHANGED <<active, time, client>>,
         metrics' \in Metrics, metrics'.ws_sessions_active = metrics.ws_sessions_active
  PROVE  ChatInv'
  <1> PICK w : w = AfterTurn(s, ok)
    OBVIOUS
  <1>1. /\ w \in Server /\ (w.dead <=> ~ok) /\ w.pc = IF ok THEN "loop" ELSE "return"
        /\ w.recv_counter = server[s].recv_counter /\ w.send_counter = server[s].send_counter
        /\ w.hand = NoHand /\ w.produced = 0
    BY AfterTurnIs
  <1>2. w.recv_counter >= server[s].recv_counter
    BY <1>1, StreamAssumption DEF Server
  <1>3. w.pc \in {"loop", "closing", "return"} /\ (~ok => w.pc # "loop")
    BY <1>1
  <1>4. server' = [server EXCEPT ![s] = w]
    OBVIOUS
  <1> QED
    BY <1>1, <1>2, <1>3, <1>4, ConcludeKeeps, Zenon

\* A handler outside a turn and not about to end can still write.
LEMMA Alive ==
  ASSUME ChatInv, NEW s \in Sockets, server[s].pc \notin {"closing", "return", "ended"}
  PROVE  ~server[s].dead
  BY Apart, Zenon DEF SocketOK, Turns

\* The gauge when a handler begins and when it returns.
LEMMA OnUpgradeKeeps ==
  ASSUME ChatInv, NEW s \in Sockets, OnUpgrade(s)
  PROVE  ChatInv'
  <1> PICK v : v = [server[s] EXCEPT !.pc = "hello"]
    OBVIOUS
  <1>1. server[s] \in Server /\ server[s].pc = "upgrading" /\ ~server[s].dead /\ metrics \in Metrics
    BY Alone, Alive DEF OnUpgrade, At
  <1>2. Step(s, client[s], v, log[s])
    BY Alone DEF OnUpgrade, Goto, Step
  <1>3. SocketOK(active, client[s], v, log[s])
    <2> PICK o : o = server[s]
      OBVIOUS
    <2> PICK dead \in BOOLEAN : dead = FALSE
      OBVIOUS
    <2>1. v = [o EXCEPT !.pc = "hello", !.dead = dead] /\ o.pc \notin InTurn /\ ~o.dead
      BY <1>1, Zenon DEF Server, InTurn
    <2>2. SocketOK(active, client[s], o, log[s]) /\ "hello" \in Labels \ InTurn
      BY Apart DEF Labels, InTurn
    <2> QED
      BY <2>1, <2>2, Moves, Zenon
  <1>4. /\ metrics' \in Metrics /\ metrics.ws_sessions_active \in Nat
        /\ metrics'.ws_sessions_active = metrics.ws_sessions_active + 1
    <2>1. metrics.ws_sessions_total \in Nat /\ metrics.ws_sessions_active \in Nat
      BY <1>1 DEF Metrics
    <2> PICK t \in Nat, n \in Nat : t = metrics.ws_sessions_total + 1 /\ n = metrics.ws_sessions_active + 1
      BY <2>1
    <2>2. metrics' = [metrics EXCEPT !.ws_sessions_total = t, !.ws_sessions_active = n]
      BY DEF OnUpgrade
    <2>3. metrics' \in Metrics /\ metrics'.ws_sessions_active = n
      BY <1>1, <2>2, Zenon DEF Metrics
    <2> QED
      BY <2>1, <2>3
  <1>5. Opened' = Opened \cup {s} /\ s \notin Opened
    <2>1. server' = [q \in Sockets |-> IF q = s THEN v ELSE server[q]] /\ v.pc = "hello"
      BY <1>1, <1>2, Zenon DEF Step, ChatInv, TypeOK, Server
    <2> QED
      BY <1>1, <2>1 DEF Opened
  <1>6. IsFiniteSet(Opened)
    BY StreamAssumption, FS_Subset DEF Opened
  <1>7. GaugeIsTruthful'
    BY <1>4, <1>5, <1>6, FS_AddElement, Zenon DEF ChatInv, GaugeIsTruthful
  <1> QED
    BY <1>2, <1>3, <1>4, <1>7, StepKeeps

LEMMA OnReturnKeeps ==
  ASSUME ChatInv, NEW s \in Sockets, OnReturn(s)
  PROVE  ChatInv'
  <1> PICK v : v = [server[s] EXCEPT !.pc = "ended"]
    OBVIOUS
  <1>1. server[s] \in Server /\ server[s].pc = "return" /\ metrics \in Metrics
    BY Alone DEF OnReturn, At
  <1>2. Step(s, client[s], v, log[s])
    BY Alone DEF OnReturn, Goto, Step
  <1>3. SocketOK(active, client[s], v, log[s])
    <2> PICK o : o = server[s]
      OBVIOUS
    <2> PICK dead : dead = o.dead
      OBVIOUS
    <2>1. v = [o EXCEPT !.pc = "ended", !.dead = dead] /\ o.pc \notin InTurn /\ dead \in BOOLEAN
      BY <1>1, Zenon DEF Server, InTurn
    <2>2. SocketOK(active, client[s], o, log[s]) /\ "ended" \in Labels \ InTurn
      BY Apart DEF Labels, InTurn
    <2> QED
      BY <2>1, <2>2, Moves, Zenon
  <1>4. Opened' = Opened \ {s} /\ s \in Opened
    <2>1. server' = [q \in Sockets |-> IF q = s THEN v ELSE server[q]] /\ v.pc = "ended"
      BY <1>1, <1>2, Zenon DEF Step, ChatInv, TypeOK, Server
    <2> QED
      BY <1>1, <2>1 DEF Opened
  <1>5. IsFiniteSet(Opened)
    BY StreamAssumption, FS_Subset DEF Opened
  <1>6. Cardinality(Opened) \in Nat /\ Cardinality(Opened') = Cardinality(Opened) - 1 /\ Cardinality(Opened') \in Nat
    <2>1. IsFiniteSet(Opened') /\ Cardinality(Opened') = Cardinality(Opened) - 1
      BY <1>4, <1>5, FS_RemoveElement
    <2> QED
      BY <1>5, <2>1, FS_CardinalityType
  <1>7. /\ metrics.ws_sessions_active = Cardinality(Opened)
        /\ metrics' = [metrics EXCEPT !.ws_sessions_active = metrics.ws_sessions_active - 1]
    BY DEF ChatInv, GaugeIsTruthful, OnReturn
  <1>8. metrics' \in Metrics /\ metrics'.ws_sessions_active = Cardinality(Opened) - 1
    <2> PICK n \in Nat : n = metrics.ws_sessions_active - 1
      BY <1>6, <1>7
    <2>1. metrics' = [metrics EXCEPT !.ws_sessions_active = n]
      BY <1>7
    <2>2. metrics' \in Metrics /\ metrics'.ws_sessions_active = n
      BY <1>1, <2>1 DEF Metrics
    <2> QED
      BY <1>7, <2>2
  <1>9. GaugeIsTruthful'
    BY <1>6, <1>8 DEF GaugeIsTruthful
  <1> QED
    BY <1>2, <1>3, <1>8, <1>9, StepKeeps

\* The handler outside a turn.
LEMMA IdleKeeps ==
  ASSUME ChatInv, NEW s \in Sockets,
         \/ Authenticate(s) \/ UpgradeLost(s) \/ ReceiveClientHello(s) \/ Disconnected(s)
         \/ Expire(s) \/ ReceiveEnd(s) \/ Close(s)
  PROVE  ChatInv'
  <1>1. CASE Authenticate(s)
    <2>1. ~server[s].dead /\ server[s].pc = "verified"
      BY <1>1, Alive DEF Authenticate, At
    <2>2. PICK l \in {"upgrading", "ended"} : Goto(s, l)
      BY <1>1 DEF Authenticate
    <2> QED
      BY <1>1, <2>1, <2>2, GotoKeeps DEF Authenticate, Labels, InTurn, Closed
  <1>2. CASE UpgradeLost(s)
    BY <1>2, GotoKeeps DEF UpgradeLost, At, Labels, InTurn, Closed
  <1>3. CASE ReceiveClientHello(s)
    <2>1. ~server[s].dead /\ server[s].pc = "handshake"
      BY <1>3, Alive DEF ReceiveClientHello, At
    <2>2. PICK l \in {"return", "loop", "closing"} : Goto(s, l)
      BY <1>3 DEF ReceiveClientHello
    <2> QED
      BY <1>3, <2>1, <2>2, GotoKeeps DEF ReceiveClientHello, Labels, InTurn, Closed
  <1>4. CASE Disconnected(s)
    <2>1. PICK l \in {"return", "closing"} : Goto(s, l)
      BY <1>4 DEF Disconnected
    <2>2. server[s].pc \in {"handshake", "loop"}
      BY <1>4 DEF Disconnected, At
    <2> QED
      BY <1>4, <2>1, <2>2, GotoKeeps DEF Disconnected, Labels, InTurn, Closed
  <1>5. CASE Expire(s)
    BY <1>5, GotoKeeps DEF Expire, At, Labels, InTurn, Closed
  <1>6. CASE ReceiveEnd(s)
    <2>1. PICK l \in {"return", "closing"} : Goto(s, l)
      BY <1>6 DEF ReceiveEnd
    <2> QED
      BY <1>6, <2>1, GotoKeeps DEF ReceiveEnd, At, Labels, InTurn, Closed
  <1>7. CASE Close(s)
    BY <1>7, GotoKeeps DEF Close, At, Labels, InTurn, Closed
  <1> QED
    BY <1>1, <1>2, <1>3, <1>4, <1>5, <1>6, <1>7

\* Frames that are sent outside a turn.
LEMMA GreetingKeeps ==
  ASSUME ChatInv, NEW s \in Sockets, SendServerHello(s) \/ ReceiveLateHello(s)
  PROVE  ChatInv'
  <1>1. CASE SendServerHello(s)
    BY <1>1, SendKeeps, Zenon DEF SendServerHello, At
  <1>2. CASE ReceiveLateHello(s)
    BY <1>2, SendKeeps, Zenon DEF ReceiveLateHello, At
  <1> QED
    BY <1>1, <1>2

\* A prompt is read.
LEMMA ReceivePromptKeeps ==
  ASSUME ChatInv, NEW s \in Sockets, ReceivePrompt(s)
  PROVE  ChatInv'
  <1> PICK f : f = NextFrame(s)
    OBVIOUS
  <1> PICK c : c = [client[s] EXCEPT !.inbox = Tail(@)]
    OBVIOUS
  <1> PICK late \in BOOLEAN : late = ~active
    OBVIOUS
  <1> PICK hand : hand = [nonce |-> f.nonce, body |-> f.body, late |-> late]
    OBVIOUS
  <1> PICK v : v = [server[s] EXCEPT !.pc = "prompt", !.hand = hand]
    OBVIOUS
  <1> PICK g : g = [log[s] EXCEPT !.taken = @ + 1]
    OBVIOUS
  <1>1. server[s].pc = "loop" /\ f.type = "prompt" /\ client[s].inbox # <<>> /\ f = Head(client[s].inbox)
    BY DEF ReceivePrompt, At, NextFrame, Arrived
  <1>2. Step(s, c, v, g)
    <2>1. client' = [client EXCEPT ![s] = c]
      BY DEF ReceivePrompt, Consume
    <2>2. server' = [server EXCEPT ![s] = v]
      BY Zenon DEF ReceivePrompt
    <2>3. log' = [log EXCEPT ![s] = g] /\ UNCHANGED <<active, time>>
      BY DEF ReceivePrompt
    <2> QED
      BY <2>1, <2>2, <2>3 DEF Step
  <1>3. SocketOK(active, c, server[s], log[s]) /\ f \in ClientFrame /\ Encrypted(c, f.nonce, f.body)
    <2>1. SocketOK(active, client[s], server[s], log[s])
      BY Apart
    <2>2. c = [client[s] EXCEPT !.inbox = Tail(@)]
      OBVIOUS
    <2> QED
      BY ONLY SMTT(30), <1>1, <2>1, <2>2, Consumes
  <1>4. hand \in Hand /\ hand.nonce = f.nonce /\ hand.body = f.body /\ hand.late = late
    <2>1. f.nonce \in Nat /\ f.body \in Bodies
      BY <1>1, <1>3 DEF ClientFrame
    <2> QED
      BY <2>1 DEF Hand
  <1>5. /\ v \in Server /\ v.pc = "prompt" /\ v.hand = hand /\ v.dead = server[s].dead
        /\ v.produced = server[s].produced
        /\ v.recv_counter = server[s].recv_counter /\ v.send_counter = server[s].send_counter
    BY <1>4, Alone, Zenon DEF Server, Labels
  <1>6. /\ g \in Log /\ g.taken = log[s].taken + 1 /\ g.chunks = log[s].chunks
        /\ g.answers = log[s].answers /\ g.forwarded = log[s].forwarded
    <2>1. log[s] \in Log /\ g = [log[s] EXCEPT !.taken = @ + 1]
      BY Alone
    <2>2. log[s].taken + 1 \in Nat
      BY <2>1 DEF Log
    <2> QED
      BY ONLY <2>1, <2>2, Zenon DEF Log
  <1>7. SocketOK(active, c, v, g)
    <2>1. active \in BOOLEAN
      BY Alone
    <2>2. v.hand.late = ~active /\ Encrypted(c, v.hand.nonce, v.hand.body)
      BY <1>3, <1>4, <1>5
    <2> QED
      BY ONLY <1>1, <1>3, <1>5, <1>6, <2>1, <2>2, Takes
  <1>8. metrics' \in Metrics /\ metrics'.ws_sessions_active = metrics.ws_sessions_active
    BY Alone DEF ReceivePrompt
  <1>9. v.pc \in Closed <=> server[s].pc \in Closed
    BY <1>1, <1>5 DEF Closed
  <1> QED
    BY <1>2, <1>7, <1>8, <1>9, InnerKeeps, Zenon

\* Counting leaves the gauge alone.
LEMMA Counts ==
  ASSUME NEW m \in Metrics, NEW n, NEW a \in Nat, NEW b \in Nat,
         \/ n = m
         \/ n = [m EXCEPT !.rate_limited_total = a]
         \/ n = [m EXCEPT !.provider_requests_total = a]
         \/ n = [m EXCEPT !.provider_errors_total = a]
         \/ n = [m EXCEPT !.provider_chunks_total = a, !.provider_errors_total = b]
  PROVE  n \in Metrics /\ n.ws_sessions_active = m.ws_sessions_active
  BY Zenon DEF Metrics

\* The prompt in hand is refused.
LEMMA RefuseKeeps ==
  ASSUME ChatInv, NEW s \in Sockets, RefuseRevoked(s) \/ RefuseRate(s)
  PROVE  ChatInv'
  <1>1. CASE RefuseRevoked(s)
    <2>1. PICK ok \in BOOLEAN :
            /\ server' = [server EXCEPT ![s] = [AfterTurn(s, ok) EXCEPT !.pc = "closing"]]
            /\ log' = [log EXCEPT ![s] = WithAnswer(s, ok, "session_revoked")]
            /\ UNCHANGED <<active, time, client, metrics>>
      BY <1>1, Zenon DEF RefuseRevoked
    <2> PICK x : x = AfterTurn(s, ok)
      OBVIOUS
    <2> PICK w : w = [x EXCEPT !.pc = "closing"]
      OBVIOUS
    <2>2. server[s].pc \in InTurn
      BY <1>1 DEF RefuseRevoked, At, InTurn
    <2>3. /\ x \in Server /\ (x.dead <=> ~ok)
          /\ x.recv_counter = server[s].recv_counter /\ x.send_counter = server[s].send_counter
          /\ x.hand = NoHand /\ x.produced = 0
      BY <2>2, AfterTurnIs
    <2>4. /\ w \in Server /\ w.dead = x.dead /\ w.pc = "closing"
          /\ w.recv_counter = x.recv_counter /\ w.send_counter = x.send_counter
          /\ w.hand = NoHand /\ w.produced = 0
      BY <2>3 DEF Server, Labels
    <2>5. w.recv_counter >= server[s].recv_counter
      BY <2>3, <2>4, StreamAssumption DEF Server
    <2>6. metrics' \in Metrics /\ metrics'.ws_sessions_active = metrics.ws_sessions_active
      BY <2>1, Alone
    <2> QED
      BY <2>1, <2>2, <2>3, <2>4, <2>5, <2>6, ConcludeKeeps, Zenon DEF Answers
  <1>2. CASE RefuseRate(s)
    <2>1. PICK ok \in BOOLEAN :
            /\ server' = [server EXCEPT ![s] = AfterTurn(s, ok)]
            /\ log' = [log EXCEPT ![s] = WithAnswer(s, ok, "rate_limited")]
            /\ UNCHANGED <<active, time, client>>
      BY <1>2, Zenon DEF RefuseRate
    <2>2. server[s].pc \in InTurn
      BY <1>2 DEF RefuseRate, At, InTurn
    <2>3. metrics' \in Metrics /\ metrics'.ws_sessions_active = metrics.ws_sessions_active
      <3>1. metrics \in Metrics /\ metrics.rate_limited_total + 1 \in Nat
        BY Alone DEF Metrics
      <3> QED
        BY <1>2, <3>1, Counts, Zenon DEF RefuseRate
    <2> QED
      BY <2>1, <2>2, <2>3, AfterTurnKeeps, Zenon DEF Answers
  <1> QED
    BY <1>1, <1>2

\* decrypt moves recv_counter by at most one, and not past its maximum.
LEMMA ReceivedIs ==
  ASSUME ChatInv, NEW s \in Sockets
  PROVE  /\ Received(s) \in 0..CounterMax /\ Received(s) >= server[s].recv_counter
         /\ server[s].recv_counter \in 0..CounterMax
         /\ decrypts(s) => /\ Received(s) = server[s].recv_counter + 1
                           /\ server[s].hand.nonce = server[s].recv_counter
  <1>1. server[s].recv_counter \in 0..CounterMax
    BY Alone DEF Server
  <1> QED
    BY <1>1, StreamAssumption DEF Received, decrypts

LEMMA RejectPromptKeeps ==
  ASSUME ChatInv, NEW s \in Sockets, RejectPrompt(s)
  PROVE  ChatInv'
  <1>1. PICK ok \in BOOLEAN :
          /\ server' = [server EXCEPT ![s] = [AfterTurn(s, ok) EXCEPT !.recv_counter = Received(s)]]
          /\ log' = [log EXCEPT ![s] = WithAnswer(s, ok, "stream_error")]
          /\ UNCHANGED <<active, time, client>>
    BY Zenon DEF RejectPrompt
  <1> PICK x : x = AfterTurn(s, ok)
    OBVIOUS
  <1> PICK n : n = Received(s)
    OBVIOUS
  <1> PICK w : w = [x EXCEPT !.recv_counter = n]
    OBVIOUS
  <1>2. server[s].pc \in InTurn
    BY DEF RejectPrompt, At, InTurn
  <1>3. /\ x \in Server /\ (x.dead <=> ~ok) /\ x.pc = IF ok THEN "loop" ELSE "return"
        /\ x.send_counter = server[s].send_counter /\ x.hand = NoHand /\ x.produced = 0
    BY <1>2, AfterTurnIs
  <1>4. n \in 0..CounterMax /\ n >= server[s].recv_counter
    BY ReceivedIs
  <1>5. /\ w \in Server /\ w.dead = x.dead /\ w.pc = x.pc
        /\ w.recv_counter = n /\ w.send_counter = x.send_counter
        /\ w.hand = x.hand /\ w.produced = x.produced
    BY <1>3, <1>4 DEF Server
  <1>6. metrics' \in Metrics /\ metrics'.ws_sessions_active = metrics.ws_sessions_active
    <2>1. metrics \in Metrics /\ metrics.provider_errors_total + 1 \in Nat
      BY Alone DEF Metrics
    <2> QED
      BY <2>1, Counts, Zenon DEF RejectPrompt
  <1>7. /\ (w.dead <=> ~ok) /\ w.pc \in {"loop", "closing", "return"} /\ (~ok => w.pc # "loop")
        /\ w.recv_counter >= server[s].recv_counter /\ w.send_counter = server[s].send_counter
        /\ w.hand = NoHand /\ w.produced = 0
    BY <1>3, <1>4, <1>5
  <1>8. "stream_error" \in Answers /\ server' = [server EXCEPT ![s] = w]
    BY <1>1 DEF Answers
  <1> QED
    BY <1>1, <1>2, <1>5, <1>6, <1>7, <1>8, ConcludeKeeps, Zenon

LEMMA ForwardPromptKeeps ==
  ASSUME ChatInv, NEW s \in Sockets, ForwardPrompt(s)
  PROVE  ChatInv'
  <1> PICK o : o = server[s]
    OBVIOUS
  <1> PICK l : l = log[s]
    OBVIOUS
  <1> PICK n : n = Received(s)
    OBVIOUS
  <1> PICK v : v = [o EXCEPT !.pc = "request", !.recv_counter = n]
    OBVIOUS
  <1> PICK t : t = Append(l.forwarded, o.hand.nonce)
    OBVIOUS
  <1> PICK g : g = [l EXCEPT !.forwarded = t]
    OBVIOUS
  <1>1. o.pc = "prompt" /\ active /\ decrypts(s) /\ o.hand.body = "good"
    BY DEF ForwardPrompt, At
  <1>2. o \in Server /\ l \in Log /\ SocketOK(active, client[s], o, l)
    BY Alone, Apart
  <1>3. Step(s, client[s], v, g)
    <2>1. server' = [server EXCEPT ![s] = v]
      BY Zenon DEF ForwardPrompt
    <2>2. log' = [log EXCEPT ![s] = g] /\ UNCHANGED <<active, time, client>>
      BY DEF ForwardPrompt
    <2> QED
      BY <2>1, <2>2, Alone DEF Step
  <1>4. n \in 0..CounterMax /\ n = o.recv_counter + 1 /\ o.hand.nonce = o.recv_counter
    BY <1>1, ReceivedIs
  <1>5. /\ v \in Server /\ v.pc = "request" /\ v.hand = o.hand /\ v.dead = o.dead /\ v.produced = o.produced
        /\ v.recv_counter = n /\ v.send_counter = o.send_counter
    BY <1>2, <1>4, Zenon DEF Server, Labels
  <1>6. /\ g \in Log /\ g.forwarded = t
        /\ g.taken = l.taken /\ g.chunks = l.chunks /\ g.answers = l.answers
    <2>1. l.forwarded \in Seq(Nat) /\ o.hand.nonce \in Nat
      BY <1>2 DEF Log, Server, Hand
    <2>2. t \in Seq(Nat)
      BY <2>1
    <2>3. g = [l EXCEPT !.forwarded = t]
      OBVIOUS
    <2> QED
      BY ONLY SMTT(30), <1>2, <2>2, <2>3 DEF Log
  <1>7. SocketOK(active, client[s], v, g)
    <2>1. v.recv_counter = o.recv_counter + 1 /\ g.forwarded = Append(l.forwarded, o.hand.nonce)
      BY <1>4, <1>5, <1>6
    <2> QED
      BY ONLY <1>1, <1>2, <1>4, <1>5, <1>6, <2>1, Forwards, Zenon
  <1>8. metrics' \in Metrics /\ metrics'.ws_sessions_active = metrics.ws_sessions_active
    <2>1. metrics \in Metrics /\ metrics.provider_requests_total + 1 \in Nat
      BY Alone DEF Metrics
    <2> QED
      BY <2>1, Counts, Zenon DEF ForwardPrompt
  <1>9. v.pc \in Closed <=> server[s].pc \in Closed
    BY <1>1, <1>5 DEF Closed
  <1> QED
    BY <1>3, <1>7, <1>8, <1>9, InnerKeeps, Zenon

LEMMA StreamChatKeeps ==
  ASSUME ChatInv, NEW s \in Sockets, StreamChat(s)
  PROVE  ChatInv'
  <1> PICK v : v = [server[s] EXCEPT !.pc = "events"]
    OBVIOUS
  <1>1. server[s].pc = "request" /\ v.pc = "events"
    BY Alone DEF StreamChat, At, Server
  <1>2. Step(s, client[s], v, log[s])
    BY Alone DEF StreamChat, Goto, Step
  <1>3. SocketOK(active, client[s], v, log[s])
    BY <1>1, Apart, Streams
  <1>4. metrics' \in Metrics /\ metrics'.ws_sessions_active = metrics.ws_sessions_active
    BY Alone DEF StreamChat
  <1>5. v.pc \in Closed <=> server[s].pc \in Closed
    BY <1>1 DEF Closed
  <1> QED
    BY <1>2, <1>3, <1>4, <1>5, InnerKeeps, Zenon

\* The provider's answer ends, well or not.
LEMMA AnswerEndKeeps ==
  ASSUME ChatInv, NEW s \in Sockets, ProviderFails(s) \/ Exhausted(s) \/ SendDone(s)
  PROVE  ChatInv'
  <1>1. PICK ok \in BOOLEAN, kind \in {"stream_error", "done"} :
          /\ server' = [server EXCEPT ![s] = AfterTurn(s, ok)]
          /\ log' = [log EXCEPT ![s] = WithAnswer(s, ok, kind)]
          /\ UNCHANGED <<active, time, client>>
    BY DEF ProviderFails, Exhausted, SendDone
  <1>2. server[s].pc \in InTurn
    BY DEF ProviderFails, Exhausted, SendDone, At, InTurn
  <1>3. /\ metrics \in Metrics
        /\ metrics.provider_errors_total \in Nat /\ metrics.provider_errors_total + 1 \in Nat
        /\ metrics.provider_chunks_total + 1 \in Nat
    BY Alone DEF Metrics
  <1>4. metrics' \in Metrics /\ metrics'.ws_sessions_active = metrics.ws_sessions_active
    <2>1. CASE ProviderFails(s)
      BY <1>3, <2>1, Counts, Zenon DEF ProviderFails
    <2>2. CASE Exhausted(s)
      BY <1>3, <2>2, Counts, Zenon DEF Exhausted
    <2>3. CASE SendDone(s)
      <3>1. PICK e \in Nat : metrics' = [metrics EXCEPT !.provider_errors_total = e]
        BY <1>3, <2>3 DEF SendDone
      <3> QED
        BY <1>3, <3>1, Counts, Zenon
    <2> QED
      BY <2>1, <2>2, <2>3
  <1>5. kind \in Answers
    BY DEF Answers
  <1> QED
    BY <1>1, <1>2, <1>4, <1>5, AfterTurnKeeps, Zenon

\* A delta: a chunk is written, or the turn ends because it cannot be.
LEMMA SendChunkKeeps ==
  ASSUME ChatInv, NEW s \in Sockets, SendChunk(s)
  PROVE  ChatInv'
  <1> PICK o : o = server[s]
    OBVIOUS
  <1> PICK l : l = log[s]
    OBVIOUS
  <1>1. o \in Server /\ l \in Log /\ SocketOK(active, client[s], o, l) /\ o.pc = "events"
    BY Alone, Apart DEF SendChunk, At
  <1>2. o.send_counter < CounterMax /\ o.send_counter \in 0..CounterMax /\ o.produced \in Nat /\ l.taken \in Nat
    BY <1>1 DEF SendChunk, Server, Log
  <1> PICK n : n = o.send_counter
    OBVIOUS
  <1> PICK i : i = o.produced + 1
    OBVIOUS
  <1>3. n \in Nat /\ n + 1 \in 0..CounterMax /\ i \in Nat
    BY <1>2, StreamAssumption
  <1>4. UNCHANGED <<active, time, client>>
    BY DEF SendChunk
  <1>5. metrics' \in Metrics /\ metrics'.ws_sessions_active = metrics.ws_sessions_active
    <2>1. /\ metrics \in Metrics /\ metrics.provider_chunks_total + 1 \in Nat
          /\ metrics.provider_errors_total \in Nat /\ metrics.provider_errors_total + 1 \in Nat
      BY Alone DEF Metrics
    <2>2. PICK b \in Nat, e \in Nat :
            metrics' = [metrics EXCEPT !.provider_chunks_total = b, !.provider_errors_total = e]
      BY <2>1, Zenon DEF SendChunk
    <2> QED
      BY <2>1, <2>2, Counts, Zenon
  <1>6. CASE /\ server' = [server EXCEPT ![s] = [o EXCEPT !.send_counter = n + 1, !.produced = i]]
             /\ log' = [log EXCEPT ![s].chunks =
                  Append(@, [nonce |-> n, turn |-> l.taken, index |-> i, late |-> time # Valid])]
    <2> PICK chunk : chunk = [nonce |-> n, turn |-> l.taken, index |-> i, late |-> time # Valid]
      OBVIOUS
    <2> PICK t : t = Append(l.chunks, chunk)
      OBVIOUS
    <2> PICK v : v = [o EXCEPT !.send_counter = n + 1, !.produced = i]
      OBVIOUS
    <2> PICK g : g = [l EXCEPT !.chunks = t]
      OBVIOUS
    <2>1. chunk \in Chunk /\ chunk.nonce = n /\ chunk.turn = l.taken /\ chunk.index = i
      BY <1>2, <1>3 DEF Chunk
    <2>2. t \in Seq(Chunk)
      <3>1. l.chunks \in Seq(Chunk)
        BY <1>1 DEF Log
      <3> QED
        BY <2>1, <3>1
    <2>3. /\ v \in Server /\ v.pc = "events" /\ v.hand = o.hand /\ v.dead = o.dead /\ v.produced = i
          /\ v.recv_counter = o.recv_counter /\ v.send_counter = n + 1
      BY <1>1, <1>3, Zenon DEF Server
    <2>4. g \in Log /\ g.chunks = t /\ g.taken = l.taken /\ g.forwarded = l.forwarded /\ g.answers = l.answers
      <3>1. g = [l EXCEPT !.chunks = t]
        OBVIOUS
      <3> QED
        BY ONLY <1>1, <2>2, <3>1, Zenon DEF Log
    <2>5. SocketOK(active, client[s], v, g)
      <3>1. /\ v.produced = o.produced + 1 /\ v.send_counter = o.send_counter + 1
            /\ chunk.nonce = o.send_counter /\ chunk.index = o.produced + 1
            /\ g.chunks = Append(l.chunks, chunk)
        BY <2>1, <2>3, <2>4
      <3> QED
        BY ONLY <1>1, <2>1, <2>3, <2>4, <3>1, Writes
    <2>6. Step(s, client[s], v, g)
      BY <1>4, <1>6, Alone DEF Step
    <2>7. v.pc \in Closed <=> server[s].pc \in Closed
      BY <1>1, <2>3
    <2> QED
      BY <1>5, <2>5, <2>6, <2>7, InnerKeeps, Zenon
  <1>7. CASE /\ server' = [server EXCEPT ![s] = [AfterTurn(s, FALSE) EXCEPT !.send_counter = n + 1]]
             /\ log' = [log EXCEPT ![s].chunks = @]
    <2> PICK x : x = AfterTurn(s, FALSE)
      OBVIOUS
    <2> PICK w : w = [x EXCEPT !.send_counter = n + 1]
      OBVIOUS
    <2>1. server[s].pc \in InTurn
      BY <1>1 DEF InTurn
    <2>2. /\ x \in Server /\ x.dead /\ x.pc = "return" /\ x.recv_counter = server[s].recv_counter
          /\ x.hand = NoHand /\ x.produced = 0
      BY <2>1, AfterTurnIs, Zenon
    <2>3. /\ w \in Server /\ w.dead = x.dead /\ w.pc = "return" /\ w.recv_counter = x.recv_counter
          /\ w.hand = NoHand /\ w.produced = 0
      BY <1>3, <2>2, Zenon DEF Server
    <2>4. w.recv_counter >= server[s].recv_counter
      <3>1. server[s].recv_counter \in 0..CounterMax
        BY ReceivedIs, Zenon
      <3>2. w.recv_counter = server[s].recv_counter
        BY <2>2, <2>3, Zenon
      <3> QED
        BY ONLY <3>1, <3>2, StreamAssumption
    <2>5. log' = [log EXCEPT ![s] = WithAnswer(s, FALSE, "stream_error")]
      <3>1. WithAnswer(s, FALSE, "stream_error") = log[s]
        BY Alone DEF WithAnswer, Log
      <3>2. log' = log
        <4>1. log \in [Sockets -> Log]
          BY DEF ChatInv, TypeOK
        <4> QED
          BY <1>7, <4>1 DEF Log
      <3> QED
        BY <3>1, <3>2, Alone, Zenon
    <2>6. "stream_error" \in Answers /\ server' = [server EXCEPT ![s] = w] /\ (w.dead <=> ~FALSE)
      BY <1>7, <2>2, <2>3, Zenon DEF Answers
    <2> QED
      <3> PICK ok \in BOOLEAN : ok = FALSE
        OBVIOUS
      <3>1. log' = [log EXCEPT ![s] = WithAnswer(s, ok, "stream_error")] /\ (w.dead <=> ~ok)
        BY <2>5, <2>6, Zenon
      <3>2. w.pc \in {"loop", "closing", "return"} /\ (~ok => w.pc # "loop") /\ ~ok
        BY <2>3, Zenon
      <3> QED
        BY <1>4, <1>5, <2>1, <2>3, <2>4, <2>6, <3>1, <3>2, ConcludeKeeps, Zenon
  <1> QED
    BY <1>6, <1>7, Zenon DEF SendChunk

\* Revocation and time leave the sockets alone.
LEMMA WorldKeeps ==
  ASSUME ChatInv, Revoke \/ TimePasses
  PROVE  ChatInv'
  <1>1. UNCHANGED <<client, server, log, metrics>> /\ (active' => active) /\ active' \in BOOLEAN
    <2>1. active \in BOOLEAN
      BY DEF ChatInv, TypeOK
    <2>2. CASE Revoke
      BY <2>1, <2>2, Zenon DEF Revoke
    <2>3. CASE TimePasses
      BY <2>1, <2>3, Zenon DEF TimePasses
    <2> QED
      BY <2>2, <2>3
  <1>2. time' \in Times
    BY DEF Revoke, TimePasses, ChatInv, TypeOK, Times, Valid, Leeway, Past
  <1>3. TypeOK' /\ PromptsForwardedOnce' /\ ChunksDecryptInOrder' /\ OneAnswerPerPrompt'
    BY <1>1, <1>2, Zenon DEF ChatInv, TypeOK, PromptsForwardedOnce, ChunksDecryptInOrder, OneAnswerPerPrompt
  <1>4. DoneIsComplete' /\ RevokedPromptStays' /\ GaugeIsTruthful'
    BY <1>1 DEF ChatInv, DoneIsComplete, RevokedPromptStays, AtProvider, GaugeIsTruthful, Opened
  <1>5. ASSUME NEW s \in Sockets PROVE SocketInv(s)'
    BY <1>1 DEF ChatInv, SocketInv
  <1> QED
    BY <1>3, <1>4, <1>5 DEF ChatInv

-----------------------------------------------------------------------------
(* Theorems.                                                               *)

\* Every step of any socket keeps the invariant.
LEMMA NextKeeps ==
  ASSUME ChatInv, Next
  PROVE  ChatInv'
  <1>1. ASSUME NEW s \in Sockets, Handler(s) PROVE ChatInv'
    BY <1>1, OnUpgradeKeeps, OnReturnKeeps, IdleKeeps, GreetingKeeps, ReceivePromptKeeps, RefuseKeeps,
       RejectPromptKeeps, ForwardPromptKeeps DEF Handler
  <1>2. ASSUME NEW s \in Sockets, Provider(s) PROVE ChatInv'
    BY <1>2, StreamChatKeeps, AnswerEndKeeps, SendChunkKeeps DEF Provider
  <1> QED
    BY <1>1, <1>2, EnvironmentKeeps, WorldKeeps DEF Next

\* The invariant of the encrypted sockets holds for any number of them, any
\* number of frames and deltas and any counter maximum, u64::MAX included.
THEOREM ChatInvariant == Spec => []ChatInv
  <1>1. Init => ChatInv
    <2> SUFFICES ASSUME Init PROVE ChatInv
      OBVIOUS
    <2>1. active \in BOOLEAN /\ time \in Times /\ metrics \in Metrics
      BY DEF Init, Times, Metrics
    <2>2. Opened = {} /\ GaugeIsTruthful
      <3>1. Opened = {}
        BY DEF Init, Opened
      <3> QED
        BY <3>1, FS_EmptySet DEF Init, GaugeIsTruthful
    <2>3. ASSUME NEW s \in Sockets PROVE SocketOK(active, client[s], server[s], log[s])
      <3> PICK c : c = client[s]
        OBVIOUS
      <3> PICK v : v = server[s]
        OBVIOUS
      <3> PICK g : g = log[s]
        OBVIOUS
      <3>1. /\ c \in Client /\ c.inbox = <<>> /\ c.prompts = <<>>
        BY DEF Init, Client
      <3>2. NoHand \in Hand /\ NoHand.late = FALSE
        BY DEF NoHand, Hand, Bodies
      <3>3. /\ v \in Server /\ v.pc = "idle" /\ v.send_counter = 0 /\ ~v.dead /\ v.hand = NoHand
            /\ v.produced = 0
        BY <3>2, StreamAssumption DEF Init, Server, Labels
      <3>4. g \in Log /\ g.taken = 0 /\ g.forwarded = <<>> /\ g.chunks = <<>> /\ g.answers = <<>>
        BY DEF Init, Log
      <3>5. Typed(c, v, g) /\ Origin(c, v, g) /\ InTime(active, v)
        BY <3>1, <3>2, <3>3, <3>4 DEF Typed, Origin, InTime
      <3>6. Turns(v, g)
        BY <3>3, <3>4 DEF Turns, InTurn
      <3> QED
        BY <3>5, <3>6 DEF SocketOK
    <2>4. /\ client = [s \in Sockets |-> client[s]] /\ server = [s \in Sockets |-> server[s]]
          /\ log = [s \in Sockets |-> log[s]]
      BY DEF Init
    <2> QED
      BY <2>1, <2>2, <2>3, <2>4, Together
  <1>2. ChatInv /\ [Next]_vars => ChatInv'
    <2>1. ASSUME ChatInv, UNCHANGED vars PROVE ChatInv'
      <3>1. TypeOK' /\ PromptsForwardedOnce' /\ ChunksDecryptInOrder' /\ OneAnswerPerPrompt'
        BY <2>1, Zenon DEF vars, ChatInv, TypeOK, PromptsForwardedOnce, ChunksDecryptInOrder, OneAnswerPerPrompt
      <3>2. DoneIsComplete' /\ RevokedPromptStays' /\ GaugeIsTruthful'
        BY <2>1 DEF vars, ChatInv, DoneIsComplete, RevokedPromptStays, AtProvider, GaugeIsTruthful, Opened
      <3>3. ASSUME NEW s \in Sockets PROVE SocketInv(s)'
        BY <2>1 DEF vars, ChatInv, SocketInv
      <3> QED
        BY <3>1, <3>2, <3>3 DEF ChatInv
    <2> QED
      BY <2>1, NextKeeps
  <1> QED
    BY <1>1, <1>2, PTL DEF Spec

\* No prompt is forwarded twice, out of order or without having been accepted.
THEOREM ForwardedOnce == Spec => []PromptsForwardedOnce
  <1>1. ChatInv => PromptsForwardedOnce
    BY DEF ChatInv
  <1> QED
    BY <1>1, ChatInvariant, PTL

\* The nonces of a socket's chunks are 0, 1, 2... over all its turns: none is
\* used twice with the stream key.
THEOREM NoncesInOrder == Spec => []ChunksDecryptInOrder
  <1>1. ChatInv => ChunksDecryptInOrder
    BY DEF ChatInv
  <1> QED
    BY <1>1, ChatInvariant, PTL

\* As long as the socket can be written, every prompt has one answer.
THEOREM PromptsAnsweredOnce == Spec => []OneAnswerPerPrompt
  <1>1. ChatInv => OneAnswerPerPrompt
    BY DEF ChatInv
  <1> QED
    BY <1>1, ChatInvariant, PTL

\* done is only said of a turn whose deltas were all written.
THEOREM DoneStaysComplete == Spec => []DoneIsComplete
  <1>1. ChatInv => DoneIsComplete
    BY DEF ChatInv
  <1> QED
    BY <1>1, ChatInvariant, PTL

\* A prompt read after the revocation of its session does not reach the provider.
THEOREM RevokedPromptsStay == Spec => []RevokedPromptStays
  <1>1. ChatInv => RevokedPromptStays
    BY DEF ChatInv
  <1> QED
    BY <1>1, ChatInvariant, PTL

\* The gauge is the number of handlers that run, however many sockets there are.
THEOREM GaugeStaysTruthful == Spec => []GaugeIsTruthful
  <1>1. ChatInv => GaugeIsTruthful
    BY DEF ChatInv
  <1> QED
    BY <1>1, ChatInvariant, PTL
=============================================================================
