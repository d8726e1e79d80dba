# Encryptr: a TLA+ model of the server

TLA+ modules that model the server, TLC configurations that check them on small
instances, and TLAPS proofs of safety properties for every instance.

Encryptr is an axum server in front of Postgres and an LLM provider. Clients
register, log in, store ciphertexts, and chat over an encrypted WebSocket. Paths
below are relative to the repository's `src/` directory unless they start with
`migrations/` or `docs/`.

## The system and its parts

| Part | Code | State | Operations | Interacts with | Module |
|---|---|---|---|---|---|
| Accounts, sessions, refresh tokens | `services/auth.rs`, `repositories/{users,sessions}.rs`, `api/auth.rs` | tables `users`, `sessions`, `refresh_tokens` | register, login, refresh, logout, me | audit trail, bearer authentication | `AuthSessions`, `TokenFamily` |
| Bearer authentication | `middleware/auth.rs`, `crypto/jwt.rs` | none (reads `sessions`) | verify, is_active | every authenticated handler | `AuthSessions`, `ChatStream` |
| Rate limiter | `middleware/rate_limit.rs`, sweeper in `main.rs` | map of windows | check, sweep | HTTP middleware, chat stream | `RateLimiter` |
| Chat stream | `api/chat_stream.rs` | per socket: stage, prompt in hand | upgrade, handshake, prompt, close, expiry | session row, limiter, provider, metrics | `ChatStream` |
| Stream encryption | `crypto/stream_session.rs`, `crypto/aead.rs` | two nonce counters | encrypt, decrypt | chat stream | `ChatStream` (counters) |
| AI providers | `providers/{mod,anthropic,openai,ollama}.rs` | reader task, channel of 32 | stream_chat | chat stream, line splitter | `ProviderStream`, `EventStream` |
| Line splitter | `providers/sse.rs` | partial line | push, flush | provider readers | `LineBuffer` |
| Conversations | `services/conversations.rs`, `repositories/conversations.rs` | table `conversations` | create, list, update, delete | messages, audit trail | `Store` |
| Encrypted messages | `services/messages.rs`, `repositories/messages.rs` | table `encrypted_messages` | create, list, delete | conversations, keys | `Store`, `Pagination` |
| Public keys | `services/keys.rs`, `repositories/keys.rs` | table `public_keys` | upload, list | messages, audit trail | `Store` |
| Audit trail | `services/audit.rs`, `repositories/audit.rs` | table `audit_events` | record | auth, conversations, keys | `AuthSessions`, `Store` |
| Metrics | `middleware/metrics.rs` | atomic counters, one gauge | record, render | chat stream, HTTP | `HttpServer`, `ChatStream` (gauge, chat counters) |
| Router, timeout, CORS, error mapping | `api/router.rs`, `middleware/security_headers.rs`, `error.rs` | none | layers | all handlers | `HttpServer`; the `Fault` actions (timeout) |
| Health and scrape | `api/health.rs` | none | probe, scrape | metrics, database | `HttpServer` |
| Startup and shutdown | `main.rs`, `state.rs` | schema, listener, drain | start, serve, drain | configuration, every part | `Startup`, `HttpServer` |
| Configuration | `config.rs` | none | `from_map` | startup, tokens, limiters | `Startup` |
| Input validation | `domain/*.rs` | none | one check per field | auth, conversations, messages, keys | `Validate`, `Inputs` |
| Key validation, hashing, passwords | `crypto/*.rs` | none | pure | auth, keys, chat | not modelled |
| OpenAPI document | `api/openapi.rs`, `bin/` | none | | | not modelled |

`PROJECT.json` lists every part with its status and the reason where something
is left out, and maps each definition to the lines it translates.

## What makes it hard

* A handler is a sequence of awaited statements. Handlers interleave at the
  awaits, and only `revoke_session` is a transaction of more than one statement.
* A statement may fail, and the router's `TimeoutLayer` drops a handler at any
  await. A client may never see the response of a handler that succeeded, and
  retries.
* A value read before an await is used after it: `is_active` before
  `mark_rotated`, `assert_owned` before the INSERT, the map's length before the
  insertion, `now` before the entry is locked.
* On a chat socket the client's and the server's nonce counters must agree over
  turns that fail half way, prompts that are refused, and prompts sent twice.
* The provider's body arrives in arbitrary chunks and may end anywhere; the
  consumer may be slow or stop listening.
* `created_at` is the start of a transaction, so messages become visible out of
  order, and it is the cursor of the pages.
* The counters are relaxed atomics: a scrape reads them one by one while requests
  add to them one by one.
* Settings are parsed as one integer type and used as another.

## Modules

**AuthSessions** has the three tables, the audit events of revocations, and a
`pc` and locals per request. There is one action per awaited statement, named
after it (`RefreshFind`, `RefreshActive`, `RefreshRotate`, `IssueTokens`,
`RevokeUpdate`, `RevokeCommit`, ...). `revoke_session` is two steps, so that row
locks held until the commit are visible to `mark_rotated`. `Fault` ends a handler
at any await; `Respond` delivers or loses the answer; `Expire` ages a token.
`parent`, `late`, `reused` and `delivered` are history, not program state.
**TokenFamily** is the abstract session: one right to continue, stored in a
token, in flight in a handler, or gone; and permanent revocation.

**RateLimiter** splits `check_at` into its separate calls on the `DashMap`, run
by several threads. `retain` (shard by shard in the library) and `len` (a sum
over shards) are one step each. `admitted` is history.

**ChatStream** has the client, the server's handler and a log per socket, and
the session row, the token's time and the metrics shared by all. A ciphertext is
its nonce and the kind of its payload. `handle_prompt` up to its request is one
step, as it awaits nothing after `is_active`. The limiter's verdict is a choice.
The provider is the promise of the trait: deltas, one terminal event, and the end
only after it. That is what `ProviderStream` is shown to keep.

**ProviderStream** has the three readers, which share their control except that
Ollama's flushes an unterminated last line, the bounded channel, and the consumer
in `handle_prompt`. A line is what `parse_line` makes of it. **EventStream** is
what the trait promises: deltas, one terminal event, the end.
**LineBuffer** is `push` and `flush` on bytes that are LF, CR, either half of a wide
character, or none of these, with the lossy decoding of each line; characters of
three and four bytes are left out. A call of
`push` is `Push`, one `Drain` for each iteration of its loop, and `PushReturns`
with the valve; it borrows the buffer exclusively, so nothing comes in between.
`input`, `returned` and `valve` are history.

**Store** has the tables of conversations, messages and keys, one action per
statement, and `Fault`. Ciphertexts and timestamps are left out, except that the
model keeps which kind of write set `updated_at` last: `touch` also sets that of a
deleted row. The audit trail is a bag, as its rows have no order. The two listings
that are a single SELECT change nothing and are not actions. Validation is a
choice of outcome. **Pagination** is `GET /messages` with its timestamps: INSERTs
that take their `created_at` when they begin and become visible when they commit,
and a client that pages to the end.

**HttpServer** is what surrounds the handlers: the layers a request passes on its
way in and out, the timeout of the timed routes, `record_response` and `render` as
their separate atomic operations, and the drain of `main` after a signal, with a
deadline when it serves TLS and without one when it does not. What a handler does
is left to the other modules; here it answers, fails with some `AppError`, times
out, is dropped, or hangs.

**Startup** goes from the environment to a serving process: `from_map` with each
of its early returns, the steps of `main` with a failure or a kill at every await
and another attempt, and the lifetimes `issue_tokens` computes from the settings.
Integer types keep their widths, scaled down to a few bits. **Validate** has the
checks of `validate.rs` and base64 as operators, on texts of the characters the
checks tell apart and on digits and bytes of a smaller size in the same
proportion (`Radix` is 2 in the run and 4 in the code; the proofs take any). Which
byte strings are sound public keys is a constant set. **Inputs** composes the two:
a client of a started server sends a field, reads it back and sends it again.

The definitions marked `Faulty` are wrong variants of the definition they
precede. No specification uses them: replacing the right definition by its
variant must break a property, which shows that the property depends on it.

## What is checked

| Run | Instance | Distinct states | What it shows |
|---|---|---|---|
| `auth` | 2 requests, 1 email, 1 session, 3 tokens, fairness | 466,801 | `IInv` (with types), tokens form a chain, no grant after revocation, reuse revokes, reuse leads to revocation, refinement of `TokenFamily` |
| `auth_logout_tokens` | the same | violation | a logout may miss a token inserted by a refresh in flight |
| `auth_duplicate_email` | the same | violation | the loser of two registrations gets an internal error, not a conflict |
| `limiter` | 2 threads, 4 keys, budget 2, window 2, cap 2, time 4 | 1,334,383 | `LimiterInv`, budget per window, live windows stay, the map is nearly capped |
| `chat` | 1 socket, counters to 3, 4 frames, 2 deltas, fairness | 975,084 | `ChatInv` (with types), prompts forwarded once, chunks decrypt in order, one answer per prompt, done is complete, a revoked prompt stays, the gauge is truthful, idle and abandoned sockets end |
| `chat_hard_ceiling` | 1 socket | violation | chunks are sent after the token's expiry |
| `provider` | capacity 2, 5 lines, 3 per chunk, fairness | 47,186 | the stream is faithful, refinement of `EventStream`, the answer concludes |
| `line_buffer` | limit 2, chunks of up to 4 bytes, 7 bytes | 916,590 | chunking is invisible, only long lines suffer |
| `store` | 2 requests, 2 users, 1 label, up to 2 rows of a table and 3 in all | 4,622,497 | `StoreInv` (with types), messages belong, answers are true, deleted is final, the audit trail is true |
| `pagination` | 2 writers, 4 messages, times 0 to 2, limits -1 to 3, page 2, fairness | 1,831,066 | newest first, only ties are missed, paging ends |
| `http` | 2 requests, 2 kinds of failure, fairness | 135,691 | counters match responses, a scrape is current, timed requests conclude, shutdown ends |
| `inputs` | types of 3 and 5 bits, texts up to 6 characters, base64 up to 8 digits | 432,780 | a serving process is configured, tokens live as promised, fields survive the round trip, a mailbox is one account |

Run one with `tlc -config <cfg> <module>`; `PROJECT.json` names both.

### Bounds, and why they are enough

* **Requests, threads: 2.** Every race listed as a hazard is between two
  handlers, and a third party (the clock, the sweeper, expiry, a fault) is always
  present. The proofs below remove this bound for auth, limiter, store and HTTP.
* **Sockets: 1.** A socket meets the others only in the session row, the clock,
  the limiter's verdict and the metrics. The first three are chosen freely in
  the run, so they behave as if others were there; for the gauge, which counts
  all sockets, the theorem `GaugeStaysTruthful` covers any number.
* **Tokens: 3.** A login's token, its successor and the successor of that one: a
  reuse of a token whose successor is itself consumed is reached. **Sessions: 1.**
  Handlers of different sessions share no row; the proofs cover several.
* **Limiter: 4 keys over a cap of 2** reach the full map, the sweep that makes
  room and the one that does not. **Window 2, time 4** let a window expire while
  a check with an old `now` is under way.
* **Chat: counters to 3** stand for `u64::MAX`: exhaustion is reached within two
  turns. **4 frames** are a hello and three prompts, or a prompt sent twice.
* **Provider: capacity 2** with 5 lines fills the channel and blocks the reader.
* **Line splitter: limit 2 with 7 bytes** has lines below, at and above the
  limit, and every way to cut them, and their characters, into chunks of up to 4
  bytes. The proofs remove these bounds.
* **Store: 2 rows of a table, 3 in all** with 2 users: a create that stored its row
  and answered an error is repeated and stores a second one; two conversations, two
  messages in one, and a key for each user. Bounds are guards of the INSERTs, so handlers
  may wait there for ever; this run checks no liveness, and no deadlock.
* **Pagination: 3 times for 4 messages** force ties; limits lie below, in and
  above the clamp.
* **HTTP: 2 requests** are a scrape and a request it races with, or two requests
  that add to the same counter. Each is sent once.
* **Inputs: types of 3 and 5 bits** keep the order of `u32`, `i64`, `u64` and
  of chrono's limits, with numbers on both sides of each. **6 characters** hold
  the shortest address with one more than the limit allows; **8 digits** are two
  groups, so padding may stand in the wrong one. The proofs hold for texts and
  encodings of any length and for the real widths.

Deadlock is checked in `auth`, `limiter` and `inputs`. Elsewhere the system may
really stop (all sockets closed, body read, last page shown, process ended) or
the bounds stop it.

### Fairness

* **auth**: weak fairness of each handler's steps, because tokio polls a handler
  whose statement completed; strong fairness of the two statements that wait for
  row locks, because Postgres queues them behind the holder. New requests, faults
  and expiry are not assumed.
* **chat**: weak fairness of each socket's handler. Nothing is assumed of the
  provider, which has no timeout, so the two liveness properties except a turn
  that waits for it. They take that `is_active` answers, and that a client does not
  send for ever (`select!` picks among the branches that are ready); a client is
  gone when its connection reports it. A client that stays connected and silent in
  the handshake, or a connection that is lost and stays half open, keeps its
  handler: no property says otherwise.
* **provider**: weak fairness of the reader task and of the consumer; nothing is
  assumed of the body.
* **pagination**: the client goes on asking.
* **http**: weak fairness of a request's own steps through the layers, of the
  timer of `TimeoutLayer`, and of `main` once the drain is over or its deadline
  has passed. Nothing is assumed of handlers, which may hang. So
  `TimedRequestsConclude` rests on the timeout alone, and `ShutdownEnds` on the
  deadline; without TLS there is none, and an upgrade that waits for the database,
  on a route without a timeout, is excepted. It is about requests: a connection
  that has sent half of a request's head, which `axum::serve` also waits for, is
  outside of the model.

## What is proved

The theorems hold for all values of the constants, with the assumptions named in
each module: the bounds are natural numbers; callers, sockets and requests are
finitely many where they are counted; the limiter's cap is at least 1; the
failures of handlers are kinds of `AppError`; the integer types and chrono's limits
are ordered as they are in Rust; and the radix of base64 is at least 2.

* `AuthSessionsProofs`: `Invariance` shows that `IInv` is inductive. The safety
  properties alone are not: that a refresh does not fork a session depends on
  what a suspended handler knows of the rows it read (`LocalsAgree`), on a
  handler about to insert having a consumed and childless parent
  (`HolderAgrees`), and on where late and reusing requests can be (`LateAgrees`,
  `ReusedAgrees`, `AuditorAgrees`). From it follow `TypeCorrect`, `Chain`,
  `NoFork`, `RevocationIsImmediate`, `ReuseIsPunished`, `AuditIsTruthful` and
  `Monotone`. `OneAccount` follows from the UNIQUE constraint at the INSERT.
  `Refinement` shows that each step of `AuthSessions` maps to a step of
  `TokenFamily` or to a stutter, for any number of sessions.
* `RateLimiterProofs`: `LimiterInvariance`, `NoLostAdmission`, `BudgetHolds`,
  `NearlyCapped`, `LiveWindowsStay`. The cap needs the set of keys that are
  tracked or claimed by a caller past the length check.
* `StoreProofs`: `StoreInvariance`, `MessagesAlwaysBelong`,
  `DeletedStaysClosed`, `AuditTrailStaysTrue`, `LabelsStayUnique`,
  `AnswersStayTrue`, `DeletionIsFinal`. `StoreInv` adds what each handler knows at
  its await (`Knows`), and that no two handlers are about to record the same event.
  `DeletionIsFinal` says that a deleted row keeps its owner, title and `deleted_at`
  and that its `updated_at` changes only by the `touch` of a request that found the
  conversation before it was deleted.
* `ChatStreamProofs`: `ChatInvariant` shows that `ChatInv` is inductive, and from
  it `ForwardedOnce`, `NoncesInOrder`, `PromptsAnsweredOnce`,
  `DoneStaysComplete`, `RevokedPromptsStay` and `GaugeStaysTruthful`, for any
  number of sockets, frames and deltas. `SocketInv` is the strengthening: a prompt
  on its way is one the client encrypted under that nonce; forwarded nonces are
  below the server's counter; until a send fails, the send counter is the number
  of chunks; and in a turn the chunks of the turn are those produced so far. A
  step changes the records of one socket, so each action is proved for its own
  socket and `StepKeeps` carries over the others.
* `ProviderStreamProofs`: `ProviderInvariant` and `PromiseIsKept`, the refinement
  of `EventStream`. `ProviderInv` says that a terminal event is the last of the
  line it comes from, of the channel and of what was received, and that a reader
  ends without one only if its consumer is gone. `FaithfulStreams` is that the
  consumer hears the events of the body up to the first terminal one. Its
  strengthening `FaithfulInv` accounts for every event at every point of the
  reader: what was received, what is in the channel and what waits to be sent are
  together the events of the lines parsed so far, and the lines the reader holds are
  the ones that follow them.
  The same module proves the line splitter: `ChunksDoNotShow` and `LongLinesOnly`,
  for any bytes, chunks and limit. `LineInv` says that the buffer is the end of the
  input, and that the lines of the input before it were returned; what is left of
  that input is the head of a line that the valve cut, and nothing if the valve was
  never used. It holds in the middle of `push` too, where the properties do not.
* `InputsProofs`: `ServingSafety` and `TokenLifetimes` for `Startup`, from
  `StartupInv` (an attempt that is under way has settings that `from_map` accepted
  and the configuration made of them); `Mailboxes` and `RoundTrips` for the fields,
  from `FieldInv` (what is stored is what the check made of what was sent). These
  rest on lemmas about the operators: trimming again changes nothing, blanks around
  a text are lost and its case does not matter to `trim` (`TrimTwice`, `TrimPadded`,
  `TrimAlike`); four digits and the three bytes they stand for determine each other,
  for every radix, so `decode` and `encode` undo each other on canonical texts of any
  length (`DecodeEncode`, `EncodeDecode`); and the sum of `JwtService::issue` is exact,
  or leaves i64 and lies in the past (`IssueExact`).
* `PaginationProofs`: `PageInvariant`, `AlwaysNewestFirst`, `NothingButTies`.
  `PageInv` places the cursor at the last message shown, and every message that
  was there from the start either ahead of it or covered.
* `HttpServerProofs`: `HttpInvariant`, `CountersAreExact`, `ScrapesAreCurrent`.
  A counter is the number of responses whose addition to it is done. `HttpInv`
  adds what the place of a request says of its response (`Consistent`), and that
  the requests a scrape found answered stay so.

`EventsIn` and `Split`, the references for the body's events and the stream's lines,
are recursive functions. The library's induction theorems cannot be used with these
provers, so `ProviderStreamProofs` first shows induction for a set of numbers
(`SetInduction`, from the well-foundedness of `<`), then that the function exists
and is unique (`ThroughExists`, `SplitsExists`, ...), and from that its value after
one more line or byte. Nothing else of the recursion is used.

Only model-checked: the liveness properties (`ReuseLeadsToRevocation`,
`IdleSocketExpires`, `GoneSocketEnds`, `AnswerConcludes`, `PagingEnds`,
`TimedRequestsConclude`, `ShutdownEnds`), since fairness and ENABLED are out of the
prover's reach. Every safety property that a passing run checks is also proved.

## Where code and documentation differ

* `RevokedSessionHasNoLiveToken`: logout is documented to revoke all refresh
  tokens of the session. A refresh in flight inserts one afterwards. It is of no
  use, since the session is checked (`NoGrantAfterRevocation`).
* `DuplicateEmailIsConflict`: the documented 409 is a 500 when two registrations
  race.
* `HardCeiling`: a turn in progress streams on past the token's expiry.

Looser than its comment, and stated as it is: `MAX_TRACKED_KEYS` is an "upper
bound on distinct keys tracked at once" (`middleware/rate_limit.rs:18`), which
concurrent callers exceed by fewer than there are callers (`MapNearlyCapped`).
`security_headers.rs:12` speaks of "every response" and `metrics.rs:65` of "total
HTTP requests received"; the 413 of the body limit and the answer of CORS to an
OPTIONS request come from layers outside of both, so they carry no such headers
and are not counted. `CountersMatchResponses` counts what passes `track_metrics`.

Observed on the way, and not contradicting a promise: the rest of an over-long
line comes back as a line of its own; `provider_errors_total` counts every failed
turn, also one the server refused; messages that share the `created_at` of the
last one of a page are skipped by the next page; a budget of 0 still admits the
call that reopens an expired window; after a rate-limited prompt only the same
frame sent again is accepted.

## Not modelled

* Cryptographic primitives, passwords, hashing and curve checks: arithmetic out of
  TLC's reach. Ciphertexts and hashes are identities, and the outcome of a check
  is a choice, or membership in a constant set.
* `client_key` (`middleware/rate_limit.rs`): which header or address names a
  client. The limiter is modelled for any assignment of keys.
* The request bodies of the providers and `split_system`: JSON for a service
  outside of the repository.
* The OpenAPI document and the values of headers: constants.
* The text of `render`, the sum of durations, and wording of errors and logs.
* `list` of conversations and of keys (one SELECT that changes nothing),
  the values of `updated_at`, and the `api_keys` table (no code uses it).
* The atomicity of a transaction is Postgres's: `revoke_session` commits both of its
  UPDATEs or none.
* How long a send to a connected client may take.

## Order of the work, and what could follow

Built in this order: auth and its abstraction, limiter, chat stream, providers and
line splitter, store, pages; then HTTP, startup and inputs, and the proofs for the
chat stream, the providers, the pages and HTTP; last the proofs for startup, inputs,
the faithful stream and the line splitter.

The modules meet at interfaces rather than in one composed specification. The
chat stream assumes of its provider what `PromiseIsKept` proves; its session row
changes once, to revoked, which is `Monotone` of `AuthSessionsProofs`; its limiter
may refuse any prompt. A module that runs sockets and refreshes on one session
table would check the same facts on a smaller instance. Several sessions and a
third request in `auth` exceed what TLC does in minutes; the proofs cover them.
