---------------------------- MODULE AuthSessions ----------------------------
(***************************************************************************)
(* Accounts, sessions and rotating refresh tokens: services/auth.rs over   *)
(* repositories/users.rs and repositories/sessions.rs, behind the          *)
(* endpoints of api/auth.rs and the AuthUser extractor of                  *)
(* middleware/auth.rs.                                                     *)
(*                                                                         *)
(* A request slot runs one HTTP handler at a time.  Every awaited database *)
(* statement is one atomic step, so handlers interleave exactly at their   *)
(* awaits.  A handler may be cut short at any await by a database error    *)
(* or by the 30 s TimeoutLayer of the router (action Fault); a statement   *)
(* that took effect before the handler was cut is the statement's step     *)
(* followed by Fault.  A server crash is Fault on every slot.              *)
(*                                                                         *)
(* Tables are sequences of rows; the position of a row is its id.          *)
(***************************************************************************)
EXTENDS Naturals, Sequences, FiniteSets

CONSTANTS
  Requests,     \* request slots: how many handlers may be in flight at once
  Emails,       \* well-formed addresses
  MaxSessions,  \* bound: rows the sessions table may reach
  MaxTokens     \* bound: rows the refresh_tokens table may reach

ASSUME BoundsAssumption == MaxSessions \in Nat /\ MaxTokens \in Nat

VARIABLES
  users,           \* users table: the email of each row (UNIQUE)
  sessions,        \* sessions table: [user, revoked]
  refresh_tokens,  \* refresh_tokens table, see RefreshToken
  audit_events,    \* audit_events table: the [event, session] of recorded revocations
  delivered,       \* refresh tokens that some TokenResponse carried to a client
  pc,              \* where each request is suspended
  local            \* the locals of each request's handler

vars == <<users, sessions, refresh_tokens, audit_events, delivered, pc, local>>
db == <<users, sessions, refresh_tokens, audit_events>>

NoRow == 0  \* the id of no row

Session == [user: Nat, revoked: BOOLEAN]

\* parent is not a column: it remembers which token a rotation consumed to
\* mint this row (NoRow for the token a login mints).
RefreshToken == [session: Nat, user: Nat, parent: Nat, expired: BOOLEAN,
                 rotated: BOOLEAN, revoked: BOOLEAN]

Labels == {"idle", "reg_find", "reg_insert", "login_find", "login_session",
           "auth", "me_find", "ref_find", "ref_active", "ref_rotate", "issue",
           "revoke", "revoke_commit", "audit", "done"}

Operations == {"none", "register", "login", "refresh", "logout", "me"}

\* "error" is the 500 of a statement the schema refused; "fault" is the 500 or
\* 408 of a handler that was cut short.
Replies == {"none", "ok", "invalid", "unauthorized", "conflict", "error", "fault"}

AuditEvent == {"auth.refresh_token_reuse_detected", "auth.logout"}

\* token: the refresh token presented; issued: the one minted; locked: the
\* refresh_tokens rows an open revoke_session transaction has updated.
\* late and reused are not program state: they remember that, when the request
\* was accepted, its session was already revoked, its token already rotated.
NoLocals == [op |-> "none", email |-> NoRow, token |-> NoRow, user |-> NoRow,
             session |-> NoRow, issued |-> NoRow, locked |-> {},
             reply |-> "none", late |-> FALSE, reused |-> FALSE]

Init ==
  /\ users = <<>>
  /\ sessions = <<>>
  /\ refresh_tokens = <<>>
  /\ audit_events = {}
  /\ delivered = {}
  /\ pc = [r \in Requests |-> "idle"]
  /\ local = [r \in Requests |-> NoLocals]

-----------------------------------------------------------------------------
(* Steps of a handler.                                                     *)

\* Request r is suspended at `to` with locals l when the step is over.
Become(r, to, l) ==
  /\ pc' = [pc EXCEPT ![r] = to]
  /\ local' = [local EXCEPT ![r] = l]

\* The handler goes on, its locals as they were.
Goto(r, to) == Become(r, to, local[r])

\* The handler returns: `?` on an AppError, an early return, or Ok.
Return(r, reply) == Become(r, "done", [local[r] EXCEPT !.reply = reply])

\* Handlers that may still insert a row: they keep starting requests within
\* the bounds on the tables, so that no handler is ever stuck at an INSERT.
Creating == {r \in Requests : pc[r] \in {"login_find", "login_session"}}
Minting  == {r \in Requests : pc[r] \in {"login_find", "login_session", "ref_find",
                                         "ref_active", "ref_rotate", "issue"}}
RoomForSession == Len(sessions) + Cardinality(Creating) < MaxSessions
RoomForToken   == Len(refresh_tokens) + Cardinality(Minting) < MaxTokens

-----------------------------------------------------------------------------
(* repositories/sessions.rs                                                *)

create_session(u) == Append(sessions, [user |-> u, revoked |-> FALSE])

insert_refresh_token(s, u, p) ==
  Append(refresh_tokens, [session |-> s, user |-> u, parent |-> p, expired |-> FALSE,
                          rotated |-> FALSE, revoked |-> FALSE])

is_active(s) == s \in DOMAIN sessions /\ ~sessions[s].revoked

\* The rows locked by a revoke_session transaction that has not committed.
Locked == UNION {local[r].locked : r \in Requests}

mark_rotated(t) == [refresh_tokens EXCEPT ![t].rotated = TRUE]

\* The second UPDATE of revoke_session: the rows its statement sees.
unrevoked_of(s) == {t \in DOMAIN refresh_tokens :
                      refresh_tokens[t].session = s /\ ~refresh_tokens[t].revoked}

\* Faulty: only the tokens are revoked, not the session.
sessions_forgotten(s) == sessions

sessions_after_revoke(s) == [sessions EXCEPT ![s].revoked = TRUE]
tokens_after_revoke(ts) ==
  [t \in DOMAIN refresh_tokens |->
     [refresh_tokens[t] EXCEPT !.revoked = @ \/ t \in ts]]

-----------------------------------------------------------------------------
(* register                                                                *)

Register(r) ==
  /\ pc[r] = "idle"
  /\ \/ \E e \in Emails :
          Become(r, "reg_find", [NoLocals EXCEPT !.op = "register", !.email = e])
     \/ \* validate::email or validate::password refuses the input
        Become(r, "done", [NoLocals EXCEPT !.op = "register", !.reply = "invalid"])
  /\ UNCHANGED <<db, delivered>>

email_taken(e) == \E u \in DOMAIN users : users[u] = e

RegisterFind(r) ==
  /\ pc[r] = "reg_find"
  /\ IF email_taken(local[r].email)
     THEN Return(r, "conflict")
     ELSE Goto(r, "reg_insert")
  /\ UNCHANGED <<db, delivered>>

\* users.email is UNIQUE: the losing INSERT fails, and `?` turns the
\* sqlx::Error into AppError::Database.
RegisterInsert(r) ==
  /\ pc[r] = "reg_insert"
  /\ IF email_taken(local[r].email)
     THEN Return(r, "error") /\ UNCHANGED users
     ELSE /\ users' = Append(users, local[r].email)
          /\ Become(r, "audit", [local[r] EXCEPT !.user = Len(users) + 1,
                                                 !.reply = "ok"])
  /\ UNCHANGED <<sessions, refresh_tokens, audit_events, delivered>>

-----------------------------------------------------------------------------
(* login                                                                   *)

Login(r) ==
  /\ pc[r] = "idle"
  /\ \/ \E e \in Emails :
          /\ RoomForSession /\ RoomForToken
          /\ Become(r, "login_find", [NoLocals EXCEPT !.op = "login", !.email = e])
     \/ \* validate::email refuses the input
        Become(r, "done", [NoLocals EXCEPT !.op = "login", !.reply = "invalid"])
  /\ UNCHANGED <<db, delivered>>

LoginFind(r) ==
  /\ pc[r] = "login_find"
  /\ \/ \* the account exists and the password verifies
        \E u \in DOMAIN users :
          /\ users[u] = local[r].email
          /\ Become(r, "login_session", [local[r] EXCEPT !.user = u])
     \/ \* no such account, or the wrong password: audited, then refused
        Become(r, "audit", [local[r] EXCEPT !.reply = "unauthorized"])
  /\ UNCHANGED <<db, delivered>>

LoginSession(r) ==
  /\ pc[r] = "login_session"
  /\ sessions' = create_session(local[r].user)
  /\ Become(r, "issue", [local[r] EXCEPT !.session = Len(sessions) + 1])
  /\ UNCHANGED <<users, refresh_tokens, audit_events, delivered>>

\* issue_tokens: the JWT has no server-side state, the refresh token is a row.
IssueTokens(r) ==
  /\ pc[r] = "issue"
  /\ refresh_tokens' = insert_refresh_token(local[r].session, local[r].user,
                                            local[r].token)
  /\ Become(r, "audit", [local[r] EXCEPT !.issued = Len(refresh_tokens) + 1,
                                         !.reply = "ok"])
  /\ UNCHANGED <<users, sessions, audit_events, delivered>>

-----------------------------------------------------------------------------
(* refresh                                                                 *)

\* A client presents a token it was given, or a string that names no row.
Refresh(r) ==
  /\ pc[r] = "idle"
  /\ RoomForToken
  /\ \E t \in delivered \cup {NoRow} :
       Become(r, "ref_find",
              [NoLocals EXCEPT !.op = "refresh", !.token = t,
                 !.late = t # NoRow /\ ~is_active(refresh_tokens[t].session),
                 !.reused = t # NoRow /\ refresh_tokens[t].rotated])
  /\ UNCHANGED <<db, delivered>>

\* The row that find_refresh_token read, kept across the awaits that follow.
WithRecord(l) == [l EXCEPT !.session = refresh_tokens[l.token].session,
                           !.user = refresh_tokens[l.token].user]

\* Faulty: expiry is checked before reuse.
RefreshFindExpiryFirst(r) ==
  LET t == local[r].token IN
  /\ pc[r] = "ref_find"
  /\ IF IF t = NoRow THEN TRUE ELSE refresh_tokens[t].expired
     THEN Return(r, "unauthorized")
     ELSE Become(r, IF refresh_tokens[t].rotated THEN "revoke" ELSE "ref_active",
                 WithRecord(local[r]))
  /\ UNCHANGED <<db, delivered>>

\* find_refresh_token, and the checks on the row it read: a token seen rotated
\* goes straight to revocation, past the checks on revoked_at and expires_at.
RefreshFind(r) ==
  LET t == local[r].token IN
  /\ pc[r] = "ref_find"
  /\ \/ /\ t = NoRow
        /\ Return(r, "unauthorized")
     \/ /\ t # NoRow
        /\ refresh_tokens[t].rotated
        /\ Become(r, "revoke", WithRecord(local[r]))
     \/ /\ t # NoRow
        /\ ~refresh_tokens[t].rotated
        /\ IF refresh_tokens[t].revoked \/ refresh_tokens[t].expired
           THEN Return(r, "unauthorized")
           ELSE Become(r, "ref_active", WithRecord(local[r]))
  /\ UNCHANGED <<db, delivered>>

\* Faulty: trusts the token's own revoked_at and skips the session.
RefreshActiveUnchecked(r) ==
  /\ pc[r] = "ref_active"
  /\ Goto(r, "ref_rotate")
  /\ UNCHANGED <<db, delivered>>

RefreshActive(r) ==
  /\ pc[r] = "ref_active"
  /\ IF is_active(local[r].session)
     THEN Goto(r, "ref_rotate")
     ELSE Return(r, "unauthorized")
  /\ UNCHANGED <<db, delivered>>

\* Faulty: without "AND rotated_at IS NULL" every caller updates a row.
RefreshRotateUnguarded(r) ==
  /\ pc[r] = "ref_rotate"
  /\ local[r].token \notin Locked
  /\ refresh_tokens' = mark_rotated(local[r].token)
  /\ Goto(r, "issue")
  /\ UNCHANGED <<users, sessions, audit_events, delivered>>

\* mark_rotated waits for the row while a revoke_session transaction holds it.
\* It looks at rotated_at alone: the row or the session may be revoked by now.
RefreshRotate(r) ==
  LET t == local[r].token IN
  /\ pc[r] = "ref_rotate"
  /\ t \notin Locked
  /\ IF refresh_tokens[t].rotated
     THEN Goto(r, "revoke") /\ UNCHANGED refresh_tokens
     ELSE Goto(r, "issue") /\ refresh_tokens' = mark_rotated(t)
  /\ UNCHANGED <<users, sessions, audit_events, delivered>>

-----------------------------------------------------------------------------
(* revoke_session: one transaction, for refresh (reuse) and for logout.    *)

\* BEGIN and the two UPDATEs.  The first waits while another transaction has
\* the session's row; the second sees the rows committed by now, and a token
\* inserted after it is not among them.
RevokeUpdate(r) ==
  /\ pc[r] = "revoke"
  /\ \A q \in Requests : pc[q] = "revoke_commit" =>
                            local[q].session # local[r].session
  /\ Become(r, "revoke_commit",
            [local[r] EXCEPT !.locked = unrevoked_of(local[r].session)])
  /\ UNCHANGED <<db, delivered>>

RevokeCommit(r) ==
  /\ pc[r] = "revoke_commit"
  /\ sessions' = sessions_after_revoke(local[r].session)
  /\ refresh_tokens' = tokens_after_revoke(local[r].locked)
  /\ Become(r, "audit",
            [local[r] EXCEPT !.locked = {},
                             !.reply = IF local[r].op = "logout"
                                       THEN "ok" ELSE "unauthorized"])
  /\ UNCHANGED <<users, audit_events, delivered>>

-----------------------------------------------------------------------------
(* The AuthUser extractor, and the handlers behind it.                     *)

\* A bearer token names the session of a TokenResponse its client received;
\* jwt.verify may refuse it (expired, malformed, missing).
Authenticated(r) ==
  /\ pc[r] = "idle"
  /\ \E op \in {"logout", "me"} :
       \/ \E t \in delivered :
            Become(r, "auth",
                   [NoLocals EXCEPT !.op = op,
                      !.user = refresh_tokens[t].user,
                      !.session = refresh_tokens[t].session,
                      !.late = ~is_active(refresh_tokens[t].session)])
       \/ Become(r, "done", [NoLocals EXCEPT !.op = op, !.reply = "unauthorized"])
  /\ UNCHANGED <<db, delivered>>

Authenticate(r) ==
  /\ pc[r] = "auth"
  /\ IF is_active(local[r].session)
     THEN Goto(r, IF local[r].op = "logout" THEN "revoke" ELSE "me_find")
     ELSE Return(r, "unauthorized")
  /\ UNCHANGED <<db, delivered>>

Me(r) ==
  /\ pc[r] = "me_find"
  /\ Return(r, IF local[r].user \in DOMAIN users THEN "ok" ELSE "unauthorized")
  /\ UNCHANGED <<db, delivered>>

-----------------------------------------------------------------------------
(* The end of a handler.                                                   *)

\* The events that record a revocation; the others (user.registered, auth.login,
\* auth.login_failed, auth.token_refreshed) are written without being told apart.
event_of(op, reply) ==
  CASE op = "refresh" /\ reply # "ok" -> {"auth.refresh_token_reuse_detected"}
    [] op = "logout" -> {"auth.logout"}
    [] OTHER -> {}

\* audit::record: a failed INSERT is logged and the handler goes on.
Audit(r) ==
  /\ pc[r] = "audit"
  /\ Goto(r, "done")
  /\ \/ audit_events' = audit_events \cup
           [event: event_of(local[r].op, local[r].reply), session: {local[r].session}]
     \/ UNCHANGED audit_events
  /\ UNCHANGED <<users, sessions, refresh_tokens, delivered>>

\* A database error or the request timeout cuts the handler at an await; an
\* open transaction is rolled back.
Fault(r) ==
  /\ pc[r] \notin {"idle", "done"}
  /\ Become(r, "done", [local[r] EXCEPT !.reply = "fault", !.locked = {}])
  /\ UNCHANGED <<db, delivered>>

\* The response is sent, and reaches the client or is lost on the way.
Respond(r) ==
  /\ pc[r] = "done"
  /\ Become(r, "idle", NoLocals)
  /\ \/ delivered' = delivered \cup
           {t \in {local[r].issued} : t # NoRow /\ local[r].reply = "ok"}
     \/ UNCHANGED delivered
  /\ UNCHANGED db

\* Time passes a token's expires_at.
Expire(t) ==
  /\ t \in DOMAIN refresh_tokens
  /\ ~refresh_tokens[t].expired
  /\ refresh_tokens' = [refresh_tokens EXCEPT ![t].expired = TRUE]
  /\ UNCHANGED <<users, sessions, audit_events, delivered, pc, local>>

-----------------------------------------------------------------------------
Accept(r) == Register(r) \/ Login(r) \/ Refresh(r) \/ Authenticated(r)

Step(r) ==
  \/ RegisterFind(r) \/ RegisterInsert(r)
  \/ LoginFind(r) \/ LoginSession(r) \/ IssueTokens(r)
  \/ RefreshFind(r) \/ RefreshActive(r) \/ RefreshRotate(r)
  \/ RevokeUpdate(r) \/ RevokeCommit(r)
  \/ Authenticate(r) \/ Me(r) \/ Audit(r) \/ Respond(r)

Next ==
  \/ \E r \in Requests : Accept(r) \/ Step(r) \/ Fault(r)
  \/ \E t \in DOMAIN refresh_tokens : Expire(t)

Spec == Init /\ [][Next]_vars

\* tokio polls every handler whose statement has completed: a request that is
\* running keeps running.  A statement that waits for a row is queued by
\* Postgres behind the transaction that holds it, so it is not overtaken for
\* ever.  New requests, faults and expiry are not promised.
FairSpec ==
  /\ Spec
  /\ \A r \in Requests : /\ WF_vars(Step(r))
                         /\ SF_vars(RevokeUpdate(r))
                         /\ SF_vars(RefreshRotate(r))

-----------------------------------------------------------------------------
(* Properties.                                                             *)

Locals == [op: Operations, email: Emails \cup {NoRow}, token: Nat, user: Nat,
           session: Nat, issued: Nat, locked: SUBSET Nat, reply: Replies,
           late: BOOLEAN, reused: BOOLEAN]

\* Every table holds rows of its schema, ids refer to rows that exist, and
\* each handler's locals are of their type.
TypeOK ==
  /\ users \in Seq(Emails)
  /\ sessions \in Seq(Session)
  /\ refresh_tokens \in Seq(RefreshToken)
  /\ audit_events \subseteq [event: AuditEvent, session: Nat]
  /\ delivered \subseteq DOMAIN refresh_tokens
  /\ pc \in [Requests -> Labels]
  /\ local \in [Requests -> Locals]
  /\ \A t \in DOMAIN refresh_tokens : refresh_tokens[t].session \in DOMAIN sessions

\* A request that holds the right to mint the next token of session s: a login
\* that created s, or a refresh whose mark_rotated consumed the last one.
Holds(r, s) == pc[r] = "issue" /\ local[r].session = s

Revoked(s) == s \in DOMAIN sessions /\ sessions[s].revoked

Unrotated(t) == ~refresh_tokens[t].rotated

\* The tokens of a session form a chain whatever requests race, fail, time out
\* or are retried: refresh never mints two tokens from one (mark_rotated is
\* single-use), and a minted token's parent is consumed and of the same session.
TokensFormAChain ==
  \A t \in DOMAIN refresh_tokens :
    LET p == refresh_tokens[t].parent IN
    /\ p # NoRow => /\ p \in DOMAIN refresh_tokens
                    /\ refresh_tokens[p].rotated
                    /\ refresh_tokens[p].session = refresh_tokens[t].session
                    /\ refresh_tokens[p].user = refresh_tokens[t].user
    /\ \A u \in DOMAIN refresh_tokens :
         refresh_tokens[u].parent = p
           /\ refresh_tokens[u].session = refresh_tokens[t].session => u = t

\* A session never has two tokens that could still be rotated, counting the one
\* a handler is about to insert: concurrent refreshes of services/auth.rs can
\* not fork a session.
OneTokenToRotate ==
  /\ \A t, u \in DOMAIN refresh_tokens :
       /\ Unrotated(t) /\ Unrotated(u)
       /\ refresh_tokens[t].session = refresh_tokens[u].session
       => t = u
  /\ \A r \in Requests, t \in DOMAIN refresh_tokens :
       Holds(r, refresh_tokens[t].session) => ~Unrotated(t)
  /\ \A r, q \in Requests :
       pc[r] = "issue" /\ Holds(q, local[r].session) => r = q

\* Revocation is immediate for whoever comes later: a request accepted after
\* its session's revocation committed is never granted, be it a refresh with a
\* token the revocation missed or a bearer of a JWT that has not expired.
NoGrantAfterRevocation ==
  \A r \in Requests :
    local[r].late => /\ pc[r] \notin {"ref_rotate", "issue", "me_find"}
                     /\ local[r].reply # "ok"

\* Reuse is punished: when a token that was already rotated is presented and
\* the handler runs to its end, the session is revoked by the time it answers,
\* also when the token is expired or revoked as well.
ReuseRevokesSession ==
  \A r \in Requests :
    /\ local[r].reused
    /\ pc[r] = "done"
    /\ local[r].reply # "fault"
    => Revoked(refresh_tokens[local[r].token].session)

\* The audit trail never runs ahead of the database: a logout or a detected
\* reuse is on record only for a session whose revocation is committed.
AuditFollowsRevocation ==
  \A e \in audit_events :
    e.event \in {"auth.logout", "auth.refresh_token_reuse_detected"} =>
      Revoked(e.session)

\* Of registrations that race for one email, however their lookups interleave,
\* at most one creates an account.
OneAccountPerEmail ==
  \A u, v \in DOMAIN users : users[u] = users[v] => u = v

\* A row, once rotated or revoked, stays so; a revoked session never becomes
\* active again and no row disappears, whatever statement runs.
RevocationIsFinal ==
  [][ /\ \A s \in DOMAIN sessions :
           s \in DOMAIN sessions' /\ (sessions[s].revoked => sessions'[s].revoked)
      /\ \A t \in DOMAIN refresh_tokens :
           /\ t \in DOMAIN refresh_tokens'
           /\ refresh_tokens[t].revoked => refresh_tokens'[t].revoked
           /\ refresh_tokens[t].rotated => refresh_tokens'[t].rotated ]_vars

\* A token presented after it was rotated ends in its session's revocation,
\* unless the handler that saw it was cut short.
ReuseLeadsToRevocation ==
  \A r \in Requests :
    (pc[r] = "ref_find" /\ local[r].reused) ~>
      \/ Revoked(local[r].session)
      \/ local[r].reply = "fault"

\* Where session s keeps its right to continue, read off the tables and the
\* handlers in flight.
RightOf(s) ==
  IF \E r \in Requests : Holds(r, s) THEN "flight"
  ELSE IF \E t \in DOMAIN refresh_tokens :
            refresh_tokens[t].session = s /\ Unrotated(t)
       THEN "stored"
       ELSE "gone"

Family == INSTANCE TokenFamily
            WITH right <- [s \in DOMAIN sessions |-> RightOf(s)],
                 revoked <- {s \in DOMAIN sessions : sessions[s].revoked}

\* The handlers of services/auth.rs, with their races, faults and retries,
\* implement the abstract session: one right to continue, handed on at most
\* once at a time and never recreated, and permanent revocation.
ImplementsTokenFamily == Family!FamilySpec

\* api/auth.rs: logout revokes "the current session and all its refresh
\* tokens".  A handler that minted before, and inserts after, is missed.
RevokedSessionHasNoLiveToken ==
  \A t \in DOMAIN refresh_tokens :
    Revoked(refresh_tokens[t].session) => refresh_tokens[t].revoked

\* api/auth.rs documents 409 for an email that is already registered; of two
\* racing registrations the loser meets the UNIQUE constraint instead.
DuplicateEmailIsConflict ==
  \A r \in Requests : local[r].op = "register" => local[r].reply # "error"

-----------------------------------------------------------------------------
(* The inductive invariant behind the safety properties.                   *)

\* What a suspended handler may rely on about the rows it has read.
LocalsAgree(r) ==
  LET l == local[r] IN
  /\ pc[r] = "idle" => l = NoLocals
  /\ pc[r] \in {"reg_find", "reg_insert"} => l.op = "register" /\ l.email \in Emails
  /\ pc[r] \in {"login_find", "login_session"} => l.op = "login" /\ l.token = NoRow
  /\ pc[r] \in {"auth", "me_find"} => /\ l.op \in {"logout", "me"}
                                     /\ l.session \in DOMAIN sessions
  /\ pc[r] \in {"ref_find", "ref_active", "ref_rotate"} => l.op = "refresh"
  /\ pc[r] \in {"ref_active", "ref_rotate"} =>
       /\ l.token \in DOMAIN refresh_tokens
       /\ refresh_tokens[l.token].session = l.session
       /\ refresh_tokens[l.token].user = l.user
  /\ pc[r] \in {"revoke", "revoke_commit"} =>
       l.op \in {"refresh", "logout"} /\ l.session \in DOMAIN sessions
  /\ l.token \in DOMAIN refresh_tokens \cup {NoRow}
  /\ l.issued \in DOMAIN refresh_tokens \cup {NoRow}
  /\ l.locked \subseteq DOMAIN refresh_tokens
  /\ l.reply # "none" <=> pc[r] \in {"audit", "done"}

\* A handler about to insert a token: its parent is consumed and childless.
HolderAgrees(r) ==
  LET l == local[r] IN
  pc[r] = "issue" =>
    /\ l.session \in DOMAIN sessions
    /\ l.op \in {"login", "refresh"}
    /\ l.token # NoRow => /\ refresh_tokens[l.token].rotated
                          /\ refresh_tokens[l.token].session = l.session
                          /\ refresh_tokens[l.token].user = l.user
    /\ \A t \in DOMAIN refresh_tokens :
         ~(refresh_tokens[t].session = l.session /\ refresh_tokens[t].parent = l.token)

\* A late request's session stays revoked, and where such a request can be.
LateAgrees(r) ==
  LET l == local[r] IN
  l.late =>
    /\ l.reply # "ok"
    /\ \/ /\ l.op \in {"logout", "me"}
          /\ pc[r] \in {"auth", "done"}
          /\ Revoked(l.session)
       \/ /\ l.op = "refresh"
          /\ l.token # NoRow
          /\ Revoked(refresh_tokens[l.token].session)
          /\ pc[r] \in {"ref_find", "ref_active", "revoke", "revoke_commit",
                        "audit", "done"}

\* A reused token stays rotated, and its handler ends in revocation.
ReusedAgrees(r) ==
  LET l == local[r] IN
  l.reused =>
    /\ l.op = "refresh"
    /\ l.token # NoRow
    /\ refresh_tokens[l.token].rotated
    /\ pc[r] \in {"ref_find", "revoke", "revoke_commit", "audit", "done"}
    /\ pc[r] \in {"revoke", "revoke_commit"} =>
         l.session = refresh_tokens[l.token].session
    /\ pc[r] \in {"audit", "done"} /\ l.reply # "fault" =>
         Revoked(refresh_tokens[l.token].session)

\* A handler about to record a revocation has committed it.
AuditorAgrees(r) ==
  pc[r] = "audit" /\ event_of(local[r].op, local[r].reply) # {} =>
    Revoked(local[r].session)

RequestAgrees(r) ==
  /\ LocalsAgree(r) /\ HolderAgrees(r) /\ AuditorAgrees(r)
  /\ LateAgrees(r) /\ ReusedAgrees(r)

\* Inductive: what the handlers of services/auth.rs preserve at every await.
IInv ==
  /\ TypeOK
  /\ \A r \in Requests : RequestAgrees(r)
  /\ TokensFormAChain
  /\ OneTokenToRotate
  /\ AuditFollowsRevocation
=============================================================================
