------------------------ MODULE AuthSessionsProofs ------------------------
(***************************************************************************)
(* Proofs about AuthSessions, for any number of request slots, emails,     *)
(* sessions and tokens.                                                    *)
(*                                                                         *)
(* A step of request r changes the locals of r alone, and the tables only  *)
(* grow (RowsGrow).  So what the other requests rely on survives           *)
(* (OthersKeep), and each action is left with r's own facts and, where it  *)
(* writes a table, with the invariants on that table.                      *)
(***************************************************************************)
EXTENDS AuthSessions, TLAPS

\* The initial state, an empty database with no request in flight, satisfies
\* the inductive invariant.
LEMMA InitIInv == Init => IInv
  <1> SUFFICES ASSUME Init PROVE IInv
    OBVIOUS
  <1> USE DEF Init, NoLocals, NoRow
  <1>1. TypeOK
    BY DEF TypeOK, Session, RefreshToken, Labels, Locals, Operations, Replies
  <1>2. ASSUME NEW r \in Requests PROVE RequestAgrees(r)
    BY DEF RequestAgrees, LocalsAgree, HolderAgrees, LateAgrees, ReusedAgrees,
           AuditorAgrees
  <1>3. TokensFormAChain /\ OneTokenToRotate /\ AuditFollowsRevocation
    BY DEF TokensFormAChain, OneTokenToRotate, AuditFollowsRevocation, Holds
  <1> QED BY <1>1, <1>2, <1>3 DEF IInv

\* What every statement does to the tables: rows are only added, and of a row
\* that exists only rotated, revoked and expired change, from FALSE to TRUE.
RowsGrow ==
  /\ \A s \in DOMAIN sessions :
       /\ s \in DOMAIN sessions'
       /\ sessions[s].revoked => sessions'[s].revoked
  /\ \A t \in DOMAIN refresh_tokens :
       /\ t \in DOMAIN refresh_tokens'
       /\ refresh_tokens'[t].session = refresh_tokens[t].session
       /\ refresh_tokens'[t].user = refresh_tokens[t].user
       /\ refresh_tokens'[t].parent = refresh_tokens[t].parent
       /\ refresh_tokens[t].rotated => refresh_tokens'[t].rotated
       /\ refresh_tokens[t].revoked => refresh_tokens'[t].revoked

\* A step of one handler leaves the locals of every other handler alone.
LEMMA BecomeFrame ==
  ASSUME TypeOK, NEW r \in Requests, NEW to \in Labels, NEW l \in Locals,
         Become(r, to, l)
  PROVE  /\ pc' \in [Requests -> Labels]
         /\ local' \in [Requests -> Locals]
         /\ pc'[r] = to
         /\ local'[r] = l
         /\ \A q \in Requests \ {r} : pc'[q] = pc[q] /\ local'[q] = local[q]
  BY DEF TypeOK, Become

\* The rows of the tables are of their types, and a token is of some session.
LEMMA RowTypes ==
  ASSUME TypeOK
  PROVE  /\ \A s \in DOMAIN sessions : s \in Nat \ {0} /\ sessions[s] \in Session
         /\ \A t \in DOMAIN refresh_tokens :
              /\ t \in Nat \ {0}
              /\ refresh_tokens[t] \in RefreshToken
              /\ refresh_tokens[t].session \in DOMAIN sessions
              /\ refresh_tokens[t].user \in Nat
              /\ refresh_tokens[t].session \in Nat
  <1>1. /\ \A s \in DOMAIN sessions : s \in Nat \ {0} /\ sessions[s] \in Session
        /\ \A t \in DOMAIN refresh_tokens : /\ t \in Nat \ {0}
                                            /\ refresh_tokens[t] \in RefreshToken
    BY DEF TypeOK
  <1> QED BY <1>1 DEF TypeOK, RefreshToken

\* The locals of an idle slot are locals.
LEMMA NoLocalsType == NoLocals \in Locals
  BY DEF NoLocals, Locals, Operations, Replies, NoRow

\* What a suspended handler relies on survives a step of another handler, given
\* that no child of the token it consumed was inserted.
LEMMA OthersKeep ==
  ASSUME TypeOK, RowsGrow, NEW q \in Requests, RequestAgrees(q),
         pc'[q] = pc[q], local'[q] = local[q],
         pc[q] = "issue" =>
           \A t \in DOMAIN refresh_tokens' \ DOMAIN refresh_tokens :
             refresh_tokens'[t].session # local[q].session
  PROVE  RequestAgrees(q)'
  <1> USE DEF RequestAgrees, RowsGrow
  <1>1. LocalsAgree(q)'
    BY DEF LocalsAgree
  <1>2. HolderAgrees(q)'
    BY DEF HolderAgrees, LocalsAgree
  <1>3. AuditorAgrees(q)'
    BY DEF AuditorAgrees, Revoked
  <1>4. LateAgrees(q)'
    BY DEF LateAgrees, Revoked, LocalsAgree
  <1>5. ReusedAgrees(q)'
    BY DEF ReusedAgrees, Revoked, LocalsAgree
  <1> QED BY <1>1, <1>2, <1>3, <1>4, <1>5

\* A step that writes neither sessions nor tokens and starts no minting keeps
\* the invariant if it keeps what its own handler relies on and what the audit
\* trail says.
LEMMA StillStep ==
  ASSUME IInv, NEW r \in Requests, NEW to \in Labels \ {"issue"}, NEW l \in Locals,
         Become(r, to, l), UNCHANGED <<sessions, refresh_tokens>>,
         users' \in Seq(Emails), delivered' \subseteq DOMAIN refresh_tokens,
         audit_events' \subseteq [event: AuditEvent, session: Nat],
         AuditFollowsRevocation', RequestAgrees(r)'
  PROVE  IInv'
  <1> USE DEF IInv
  <1>0. RowsGrow
    BY DEF RowsGrow
  <1>1. /\ pc' \in [Requests -> Labels]
        /\ local' \in [Requests -> Locals]
        /\ pc'[r] = to
        /\ \A q \in Requests \ {r} : pc'[q] = pc[q] /\ local'[q] = local[q]
    BY BecomeFrame
  <1>2. TypeOK'
    BY <1>1 DEF TypeOK
  <1>3. ASSUME NEW q \in Requests PROVE RequestAgrees(q)'
    BY <1>0, <1>1, OthersKeep
  <1>4. TokensFormAChain'
    BY DEF TokensFormAChain
  <1>5. OneTokenToRotate'
    BY <1>1 DEF OneTokenToRotate, Holds, Unrotated
  <1> QED BY <1>2, <1>3, <1>4, <1>5

\* In particular a step that writes no table at all.
LEMMA QuietStep ==
  ASSUME IInv, NEW r \in Requests, NEW to \in Labels \ {"issue"}, NEW l \in Locals,
         Become(r, to, l), UNCHANGED <<db, delivered>>, RequestAgrees(r)'
  PROVE  IInv'
  <1>1. UNCHANGED <<users, sessions, refresh_tokens, audit_events, delivered>>
    BY DEF db
  <1>2. AuditFollowsRevocation'
    BY <1>1 DEF IInv, AuditFollowsRevocation, Revoked
  <1>3. /\ users' \in Seq(Emails) /\ delivered' \subseteq DOMAIN refresh_tokens
        /\ audit_events' \subseteq [event: AuditEvent, session: Nat]
    BY <1>1 DEF IInv, TypeOK
  <1> QED BY <1>1, <1>2, <1>3, StillStep

\* A slot that accepts a request, a handler that reads, and a handler that is
\* cut short write no table, and each keeps what it relies on.
LEMMA AcceptStep ==
  ASSUME IInv, NEW r \in Requests, Accept(r)
  PROVE  IInv'
  <1> USE DEF IInv, NoRow
  <1>a. RequestAgrees(r) /\ TypeOK
    OBVIOUS
  <1> USE DEF Labels
  <1>b. ASSUME NEW to \in {"reg_find", "login_find", "done"}, NEW l \in Locals,
               Become(r, to, l), UNCHANGED <<db, delivered>>,
               ~l.late, ~l.reused, l.token = NoRow, l.issued = NoRow, l.locked = {},
               to = "reg_find" => l.op = "register" /\ l.email \in Emails,
               to = "login_find" => l.op = "login",
               l.reply # "none" <=> to = "done"
        PROVE  IInv'
    <2>1. RequestAgrees(r)'
      BY <1>a, <1>b, BecomeFrame, SMTT(30) DEF RequestAgrees, LocalsAgree, HolderAgrees,
         AuditorAgrees, LateAgrees, ReusedAgrees
    <2> QED BY <1>b, <2>1, QuietStep
  <1>1. CASE Register(r)
    <2>1. ASSUME NEW e \in Emails PROVE
            [NoLocals EXCEPT !.op = "register", !.email = e] \in Locals
      BY Zenon DEF NoLocals, Locals, Operations, Replies
    <2>2. [NoLocals EXCEPT !.op = "register", !.reply = "invalid"] \in Locals
      BY Zenon DEF NoLocals, Locals, Operations, Replies
    <2> QED BY Zenon, <1>1, <1>b, <2>1, <2>2 DEF Register, NoLocals
  <1>2. CASE Login(r)
    <2>1. ASSUME NEW e \in Emails PROVE
            [NoLocals EXCEPT !.op = "login", !.email = e] \in Locals
      BY Zenon DEF NoLocals, Locals, Operations, Replies
    <2>2. [NoLocals EXCEPT !.op = "login", !.reply = "invalid"] \in Locals
      BY Zenon DEF NoLocals, Locals, Operations, Replies
    <2> QED BY Zenon, <1>2, <1>b, <2>1, <2>2 DEF Login, NoLocals
  <1>3. CASE Refresh(r)
    <2>1. PICK t \in delivered \cup {NoRow} :
            Become(r, "ref_find",
              [NoLocals EXCEPT !.op = "refresh", !.token = t,
                 !.late = t # NoRow /\ ~is_active(refresh_tokens[t].session),
                 !.reused = t # NoRow /\ refresh_tokens[t].rotated])
      BY Zenon, <1>3 DEF Refresh
    <2> DEFINE l == [NoLocals EXCEPT !.op = "refresh", !.token = t,
                 !.late = t # NoRow /\ ~is_active(refresh_tokens[t].session),
                 !.reused = t # NoRow /\ refresh_tokens[t].rotated]
    <2>2. t \in DOMAIN refresh_tokens \cup {NoRow} /\ t \in Nat
      BY DEF TypeOK
    <2>3. t # NoRow => refresh_tokens[t].session \in DOMAIN sessions
      BY <2>2 DEF TypeOK
    <2>4. /\ l \in Locals /\ l.op = "refresh" /\ l.token = t /\ l.reply = "none"
          /\ l.issued = NoRow /\ l.locked = {}
          /\ l.late => t # NoRow /\ Revoked(refresh_tokens[t].session)
          /\ l.reused => t # NoRow /\ refresh_tokens[t].rotated
      BY Zenon, <2>2, <2>3 DEF NoLocals, Locals, Operations, Replies, is_active, Revoked
    <2>5. UNCHANGED <<sessions, refresh_tokens>> /\ Become(r, "ref_find", l)
      BY <1>3, <2>1 DEF Refresh, db
    <2> HIDE DEF l
    <2>6. pc'[r] = "ref_find" /\ local'[r] = l
      BY <2>4, <2>5, BecomeFrame
    <2>7. RequestAgrees(r)'
      BY <2>2, <2>4, <2>5, <2>6 DEF RequestAgrees, LocalsAgree,
         HolderAgrees, AuditorAgrees, LateAgrees, ReusedAgrees, Revoked
    <2> QED BY <1>3, <2>4, <2>5, <2>7, QuietStep DEF Refresh
  <1>4. CASE Authenticated(r)
    <2>0. UNCHANGED <<sessions, refresh_tokens>>
      BY Zenon, <1>4 DEF Authenticated, db
    <2>1. ASSUME NEW to \in {"auth", "done"}, NEW l \in Locals, Become(r, to, l),
                 l.op \in {"logout", "me"}, ~l.reused, l.token = NoRow,
                 l.issued = NoRow, l.locked = {},
                 to = "auth" => l.session \in DOMAIN sessions,
                 l.reply = IF to = "done" THEN "unauthorized" ELSE "none",
                 l.late => Revoked(l.session)
          PROVE  IInv'
      <3>1. pc'[r] = to /\ local'[r] = l
        BY <2>1, BecomeFrame
      <3>2. RequestAgrees(r)'
        BY <2>0, <2>1, <3>1 DEF RequestAgrees, LocalsAgree, HolderAgrees,
           AuditorAgrees, LateAgrees, ReusedAgrees, Revoked
      <3> QED BY Zenon, <1>4, <2>1, <3>2, QuietStep DEF Authenticated
    <2>2. ASSUME NEW op \in {"logout", "me"}, NEW t \in delivered,
                 Become(r, "auth",
                   [NoLocals EXCEPT !.op = op,
                      !.user = refresh_tokens[t].user,
                      !.session = refresh_tokens[t].session,
                      !.late = ~is_active(refresh_tokens[t].session)])
          PROVE  IInv'
      <3> DEFINE l == [NoLocals EXCEPT !.op = op,
                         !.user = refresh_tokens[t].user,
                         !.session = refresh_tokens[t].session,
                         !.late = ~is_active(refresh_tokens[t].session)]
      <3>1. /\ refresh_tokens[t].user \in Nat
            /\ refresh_tokens[t].session \in Nat
            /\ refresh_tokens[t].session \in DOMAIN sessions
        BY RowTypes DEF TypeOK
      <3>2. /\ l \in Locals /\ l.op = op /\ ~l.reused /\ l.token = NoRow
            /\ l.issued = NoRow /\ l.locked = {} /\ l.reply = "none"
            /\ l.session \in DOMAIN sessions
            /\ l.late => Revoked(l.session)
        BY Zenon, <3>1 DEF NoLocals, Locals, Operations, Replies, is_active, Revoked
      <3>3. Become(r, "auth", l)
        BY <2>2
      <3> QED BY Zenon, <2>1, <3>2, <3>3
    <2>3. ASSUME NEW op \in {"logout", "me"},
                 Become(r, "done", [NoLocals EXCEPT !.op = op, !.reply = "unauthorized"])
          PROVE  IInv'
      <3> DEFINE l == [NoLocals EXCEPT !.op = op, !.reply = "unauthorized"]
      <3>1. /\ l \in Locals /\ l.op = op /\ ~l.reused /\ ~l.late /\ l.token = NoRow
            /\ l.issued = NoRow /\ l.locked = {} /\ l.reply = "unauthorized"
        BY Zenon DEF NoLocals, Locals, Operations, Replies
      <3>2. Become(r, "done", l)
        BY <2>3
      <3> HIDE DEF l
      <3> QED BY <2>1, <3>1, <3>2
    <2> QED BY Zenon, <1>4, <2>2, <2>3 DEF Authenticated
  <1> QED BY <1>1, <1>2, <1>3, <1>4 DEF Accept

\* The locals of a handler that has decided its reply, and those of one whose
\* transaction is over as well.
LEMMA ReplyLocals ==
  ASSUME NEW l \in Locals, NEW reply \in Replies
  PROVE  LET k == [l EXCEPT !.reply = reply] IN
         /\ k \in Locals /\ k.op = l.op /\ k.token = l.token /\ k.session = l.session
         /\ k.user = l.user /\ k.issued = l.issued /\ k.late = l.late
         /\ k.reused = l.reused /\ k.reply = reply /\ k.locked = l.locked
  BY DEF Locals

\* The same when the answer also ends an open transaction.
LEMMA UnlockLocals ==
  ASSUME NEW l \in Locals, NEW reply \in Replies
  PROVE  LET k == [l EXCEPT !.locked = {}, !.reply = reply] IN
         /\ k \in Locals /\ k.op = l.op /\ k.token = l.token /\ k.session = l.session
         /\ k.user = l.user /\ k.issued = l.issued /\ k.late = l.late
         /\ k.reused = l.reused /\ k.reply = reply /\ k.locked = {}
  BY Zenon DEF Locals

\* A handler that returns early, with anything but a grant, keeps the invariant
\* unless it owes a revocation.
LEMMA ReturnStep ==
  ASSUME IInv, NEW r \in Requests, UNCHANGED <<db, delivered>>,
         NEW reply \in Replies \ {"none"}, Return(r, reply),
         pc[r] \notin {"idle", "done"},
         local[r].late => pc[r] \in {"auth", "ref_find", "ref_active"} /\ reply # "ok",
         ~local[r].reused
  PROVE  IInv'
  <1> USE DEF IInv, Labels
  <1> DEFINE l == [local[r] EXCEPT !.reply = reply]
  <1>0. UNCHANGED <<sessions, refresh_tokens>> /\ TypeOK /\ RequestAgrees(r)
    BY DEF db
  <1>1. /\ l \in Locals /\ l.op = local[r].op /\ l.token = local[r].token
        /\ l.session = local[r].session /\ l.issued = local[r].issued
        /\ l.late = local[r].late /\ l.reused = local[r].reused /\ l.reply = reply
        /\ l.locked = local[r].locked
    <2> local[r] \in Locals
      BY DEF TypeOK
    <2> QED BY ReplyLocals
  <1>2. Become(r, "done", l)
    BY DEF Return
  <1> HIDE DEF l
  <1>3. pc'[r] = "done" /\ local'[r] = l
    BY <1>1, <1>2, BecomeFrame
  <1>4. RequestAgrees(r)'
    BY <1>0, <1>1, <1>3 DEF RequestAgrees, LocalsAgree, HolderAgrees,
       AuditorAgrees, LateAgrees, ReusedAgrees, Revoked
  <1> QED BY <1>1, <1>2, <1>4, QuietStep

\* A handler that goes on to another await with its locals as they were.
LEMMA GotoStep ==
  ASSUME IInv, NEW r \in Requests, UNCHANGED <<db, delivered>>,
         NEW to \in Labels, Goto(r, to), ~local[r].late, ~local[r].reused,
         \/ pc[r] = "reg_find" /\ to = "reg_insert"
         \/ pc[r] = "ref_active" /\ to = "ref_rotate"
         \/ pc[r] = "auth" /\ local[r].op = "me" /\ to = "me_find"
         \/ pc[r] = "auth" /\ local[r].op = "logout" /\ to = "revoke"
         \/ pc[r] = "ref_rotate" /\ to = "revoke"
  PROVE  IInv'
  <1> USE DEF IInv
  <1>0. /\ UNCHANGED <<sessions, refresh_tokens>> /\ TypeOK /\ RequestAgrees(r)
        /\ local[r] \in Locals
    BY DEF db, TypeOK
  <1>1. pc'[r] = to /\ local'[r] = local[r]
    BY <1>0, BecomeFrame DEF Goto
  <1>2. RequestAgrees(r)'
    BY <1>0, <1>1, RowTypes DEF RequestAgrees, LocalsAgree, HolderAgrees,
       AuditorAgrees, LateAgrees, ReusedAgrees, Revoked
  <1> QED BY <1>0, <1>2, QuietStep DEF Goto

\* The handler steps that read but write no table keep the invariant.
LEMMA ReadStep ==
  ASSUME IInv, NEW r \in Requests,
         \/ RegisterFind(r) \/ LoginFind(r) \/ RefreshFind(r) \/ RefreshActive(r)
         \/ Authenticate(r) \/ Me(r)
  PROVE  IInv'
  <1> USE DEF IInv
  <1>0. TypeOK /\ RequestAgrees(r) /\ local[r] \in Locals
    BY DEF TypeOK
  <1>1. CASE RegisterFind(r)
    <2>1. ~local[r].late /\ ~local[r].reused /\ UNCHANGED <<db, delivered>>
      BY <1>0, <1>1 DEF RegisterFind, RequestAgrees, LateAgrees, ReusedAgrees
    <2>2. CASE Return(r, "conflict")
      BY <1>1, <2>1, <2>2, ReturnStep DEF RegisterFind, Replies
    <2>3. CASE Goto(r, "reg_insert")
      BY <1>1, <2>1, <2>3, GotoStep DEF RegisterFind, Labels
    <2> QED BY <1>1, <2>2, <2>3 DEF RegisterFind
  <1>2. CASE LoginFind(r)
    <2>0. UNCHANGED <<db, delivered, sessions, refresh_tokens>>
      BY <1>2 DEF LoginFind, db
    <2>1. /\ ~local[r].late /\ ~local[r].reused /\ local[r].token = NoRow
          /\ local[r].op = "login" /\ local[r].reply = "none"
      BY <1>0, <1>2 DEF LoginFind, RequestAgrees, LateAgrees, ReusedAgrees, LocalsAgree
    <2>2. ASSUME NEW u \in DOMAIN users,
                 Become(r, "login_session", [local[r] EXCEPT !.user = u])
          PROVE  IInv'
      <3> DEFINE l == [local[r] EXCEPT !.user = u]
      <3>1. /\ l \in Locals /\ l.op = "login" /\ l.token = NoRow /\ ~l.late /\ ~l.reused
            /\ l.issued = local[r].issued /\ l.locked = local[r].locked
            /\ l.reply = "none"
        <4>1. u \in Nat
          BY DEF TypeOK
        <4> QED BY <1>0, <2>1, <4>1 DEF Locals
      <3>2. Become(r, "login_session", l)
        BY <2>2
      <3> HIDE DEF l
      <3>3. pc'[r] = "login_session" /\ local'[r] = l
        BY <1>0, <3>1, <3>2, BecomeFrame DEF Labels
      <3>4. RequestAgrees(r)'
        BY <1>0, <2>0, <3>1, <3>3 DEF RequestAgrees, LocalsAgree, HolderAgrees,
           AuditorAgrees, LateAgrees, ReusedAgrees
      <3> QED BY <2>0, <3>1, <3>2, <3>4, QuietStep DEF Labels
    <2>3. ASSUME Become(r, "audit", [local[r] EXCEPT !.reply = "unauthorized"])
          PROVE  IInv'
      <3> DEFINE l == [local[r] EXCEPT !.reply = "unauthorized"]
      <3>1. /\ l \in Locals /\ l.op = "login" /\ l.token = NoRow /\ ~l.late /\ ~l.reused
            /\ l.issued = local[r].issued /\ l.locked = local[r].locked
            /\ l.reply = "unauthorized"
        BY Zenon, <1>0, <2>1, ReplyLocals DEF Replies
      <3>2. Become(r, "audit", l)
        BY <2>3
      <3> HIDE DEF l
      <3>3. pc'[r] = "audit" /\ local'[r] = l
        BY <1>0, <3>1, <3>2, BecomeFrame DEF Labels
      <3>4. RequestAgrees(r)'
        BY <1>0, <2>0, <3>1, <3>3 DEF RequestAgrees, LocalsAgree, HolderAgrees,
           AuditorAgrees, LateAgrees, ReusedAgrees, event_of
      <3> QED BY <2>0, <3>1, <3>2, <3>4, QuietStep DEF Labels
    <2> QED BY Zenon, <1>2, <2>2, <2>3 DEF LoginFind
  <1>3. CASE RefreshFind(r)
    <2>0. UNCHANGED <<db, delivered, sessions, refresh_tokens>> /\ pc[r] = "ref_find"
      BY <1>3 DEF RefreshFind, db
    <2>1. ASSUME Return(r, "unauthorized"),
                 \/ local[r].token = NoRow
                 \/ ~refresh_tokens[local[r].token].rotated
          PROVE  IInv'
      <3>1. ~local[r].reused
        BY <1>0, <2>1 DEF RequestAgrees, ReusedAgrees
      <3> QED BY <2>0, <2>1, <3>1, ReturnStep DEF Replies
    <2>2. ASSUME NEW to \in {"revoke", "ref_active"}, local[r].token # NoRow,
                 to = "revoke" <=> refresh_tokens[local[r].token].rotated,
                 Become(r, to, WithRecord(local[r]))
          PROVE  IInv'
      <3> DEFINE l == WithRecord(local[r])
      <3> DEFINE t == local[r].token
      <3>1. /\ t \in DOMAIN refresh_tokens /\ refresh_tokens[t].session \in DOMAIN sessions
            /\ refresh_tokens[t].session \in Nat /\ refresh_tokens[t].user \in Nat
        BY <1>0, <2>2, RowTypes DEF RequestAgrees, LocalsAgree
      <3>2. /\ l \in Locals /\ l.op = local[r].op /\ l.token = t
            /\ l.session = refresh_tokens[t].session /\ l.user = refresh_tokens[t].user
            /\ l.late = local[r].late /\ l.reused = local[r].reused
            /\ l.issued = local[r].issued /\ l.locked = local[r].locked
            /\ l.reply = local[r].reply
        BY Zenon, <1>0, <3>1 DEF Locals, WithRecord
      <3>3. Become(r, to, l)
        BY <2>2
      <3> HIDE DEF l
      <3>4. pc'[r] = to /\ local'[r] = l
        BY <1>0, <3>2, <3>3, BecomeFrame DEF Labels
      <3>5. RequestAgrees(r)'
        BY Zenon, <1>0, <2>0, <2>2, <3>1, <3>2, <3>4 DEF RequestAgrees, LocalsAgree, HolderAgrees,
           AuditorAgrees, LateAgrees, ReusedAgrees, Revoked
      <3> QED BY <2>0, <3>2, <3>3, <3>5, QuietStep DEF Labels
    <2> QED BY <1>3, <2>1, <2>2 DEF RefreshFind
  <1>4. CASE RefreshActive(r)
    <2>1. ~local[r].reused /\ UNCHANGED <<db, delivered>> /\ pc[r] = "ref_active"
      BY <1>0, <1>4 DEF RefreshActive, RequestAgrees, ReusedAgrees
    <2>2. CASE is_active(local[r].session)
      <3>1. ~local[r].late
        BY <1>0, <2>1, <2>2 DEF RequestAgrees, LateAgrees, LocalsAgree, is_active, Revoked
      <3> QED BY <1>4, <2>1, <2>2, <3>1, GotoStep DEF RefreshActive, Labels
    <2>3. CASE ~is_active(local[r].session)
      BY <1>4, <2>1, <2>3, ReturnStep DEF RefreshActive, Replies
    <2> QED BY <2>2, <2>3
  <1>5. CASE Authenticate(r)
    <2>1. /\ ~local[r].reused /\ UNCHANGED <<db, delivered>> /\ pc[r] = "auth"
          /\ local[r].op \in {"logout", "me"}
      BY <1>0, <1>5 DEF Authenticate, RequestAgrees, ReusedAgrees, LocalsAgree
    <2>2. CASE is_active(local[r].session)
      <3>1. ~local[r].late
        BY <1>0, <2>1, <2>2 DEF RequestAgrees, LateAgrees, is_active, Revoked
      <3> QED BY <1>5, <2>1, <2>2, <3>1, GotoStep DEF Authenticate, Labels
    <2>3. CASE ~is_active(local[r].session)
      BY <1>5, <2>1, <2>3, ReturnStep DEF Authenticate, Replies
    <2> QED BY <2>2, <2>3
  <1>6. CASE Me(r)
    <2>1. /\ ~local[r].reused /\ ~local[r].late /\ UNCHANGED <<db, delivered>>
          /\ pc[r] = "me_find"
      BY <1>0, <1>6 DEF Me, RequestAgrees, ReusedAgrees, LateAgrees, LocalsAgree
    <2> QED BY <1>6, <2>1, ReturnStep DEF Me, Replies
  <1> QED BY <1>1, <1>2, <1>3, <1>4, <1>5, <1>6

\* The other steps that leave sessions and tokens alone: a registration's
\* insert, the updates of a transaction that is still open, an audit record, a
\* cut handler and a response.
LEMMA EndStep ==
  ASSUME IInv, NEW r \in Requests,
         \/ RegisterInsert(r) \/ RevokeUpdate(r) \/ Audit(r) \/ Fault(r) \/ Respond(r)
  PROVE  IInv'
  <1> USE DEF IInv
  <1>0. TypeOK /\ RequestAgrees(r) /\ local[r] \in Locals
    BY DEF TypeOK
  <1>1. CASE RegisterInsert(r)
    <2>1. /\ ~local[r].late /\ ~local[r].reused
          /\ local[r].op = "register" /\ local[r].email \in Emails
      BY <1>0, <1>1 DEF RegisterInsert, RequestAgrees, LateAgrees, ReusedAgrees, LocalsAgree
    <2>2. CASE email_taken(local[r].email)
      <3>1. UNCHANGED <<db, delivered>> /\ Return(r, "error") /\ pc[r] = "reg_insert"
        BY <1>1, <2>2 DEF RegisterInsert, db
      <3> QED BY <2>1, <3>1, ReturnStep DEF Replies
    <2>3. CASE ~email_taken(local[r].email)
      <3> DEFINE l == [local[r] EXCEPT !.user = Len(users) + 1, !.reply = "ok"]
      <3>0. /\ UNCHANGED <<sessions, refresh_tokens, audit_events, delivered>>
            /\ users' = Append(users, local[r].email)
            /\ Become(r, "audit", l)
        BY <1>1, <2>3 DEF RegisterInsert
      <3>1. /\ l \in Locals /\ l.op = "register" /\ l.token = local[r].token
            /\ ~l.late /\ ~l.reused /\ l.issued = local[r].issued
            /\ l.locked = local[r].locked /\ l.reply = "ok"
        <4>1. Len(users) + 1 \in Nat
          BY <1>0 DEF TypeOK
        <4> QED BY Zenon, <1>0, <2>1, <4>1 DEF Locals, Replies
      <3> HIDE DEF l
      <3>2. pc'[r] = "audit" /\ local'[r] = l
        BY <1>0, <3>0, <3>1, BecomeFrame DEF Labels
      <3>3. RequestAgrees(r)'
        BY <1>0, <3>0, <3>1, <3>2 DEF RequestAgrees, LocalsAgree, HolderAgrees,
           AuditorAgrees, LateAgrees, ReusedAgrees, event_of
      <3>4. users' \in Seq(Emails)
        BY <1>0, <2>1, <3>0 DEF TypeOK
      <3>5. AuditFollowsRevocation'
        BY <3>0 DEF AuditFollowsRevocation, Revoked
      <3> QED BY <1>0, <3>0, <3>1, <3>3, <3>4, <3>5, StillStep DEF Labels, TypeOK
    <2> QED BY <2>2, <2>3
  <1>2. CASE RevokeUpdate(r)
    <2> DEFINE ts == unrevoked_of(local[r].session)
    <2> DEFINE l == [local[r] EXCEPT !.locked = ts]
    <2>0. /\ UNCHANGED <<db, delivered, sessions, refresh_tokens>>
          /\ pc[r] = "revoke" /\ Become(r, "revoke_commit", l)
      BY <1>2 DEF RevokeUpdate, db
    <2>1. ts \subseteq DOMAIN refresh_tokens /\ ts \subseteq Nat
      BY <1>0, RowTypes DEF unrevoked_of
    <2>2. /\ l \in Locals /\ l.op = local[r].op /\ l.token = local[r].token
          /\ l.session = local[r].session /\ l.issued = local[r].issued
          /\ l.late = local[r].late /\ l.reused = local[r].reused
          /\ l.reply = local[r].reply /\ l.locked = ts
      BY <1>0, <2>1 DEF Locals
    <2> HIDE DEF l, ts
    <2>3. pc'[r] = "revoke_commit" /\ local'[r] = l
      BY <1>0, <2>0, <2>2, BecomeFrame DEF Labels
    <2>4. RequestAgrees(r)'
      BY Zenon, <1>0, <2>0, <2>1, <2>2, <2>3 DEF RequestAgrees, LocalsAgree, HolderAgrees,
         AuditorAgrees, LateAgrees, ReusedAgrees, Revoked
    <2> QED BY <2>0, <2>2, <2>4, QuietStep DEF Labels
  <1>3. CASE Audit(r)
    <2> DEFINE e == [event: event_of(local[r].op, local[r].reply),
                     session: {local[r].session}]
    <2>0. /\ UNCHANGED <<users, sessions, refresh_tokens, delivered>>
          /\ pc[r] = "audit" /\ Become(r, "done", local[r])
          /\ audit_events' \subseteq audit_events \cup e
      BY Zenon, <1>3 DEF Audit, Goto
    <2>1. e \subseteq [event: AuditEvent, session: Nat]
      BY <1>0 DEF event_of, AuditEvent, Locals
    <2>2. e # {} => Revoked(local[r].session)
      BY <1>0, <2>0 DEF RequestAgrees, AuditorAgrees
    <2>3. AuditFollowsRevocation'
      BY <2>0, <2>2 DEF AuditFollowsRevocation, Revoked
    <2>4. pc'[r] = "done" /\ local'[r] = local[r]
      BY <1>0, <2>0, BecomeFrame DEF Labels
    <2>5. RequestAgrees(r)'
      BY Zenon, <1>0, <2>0, <2>4 DEF RequestAgrees, LocalsAgree, HolderAgrees,
         AuditorAgrees, LateAgrees, ReusedAgrees, Revoked
    <2>6. audit_events' \subseteq [event: AuditEvent, session: Nat]
      BY <1>0, <2>0, <2>1 DEF TypeOK
    <2> QED BY Zenon, <1>0, <2>0, <2>3, <2>5, <2>6, StillStep DEF Labels, TypeOK
  <1>4. CASE Fault(r)
    <2> DEFINE l == [local[r] EXCEPT !.reply = "fault", !.locked = {}]
    <2>0. /\ UNCHANGED <<db, delivered, sessions, refresh_tokens>>
          /\ pc[r] \notin {"idle", "done"} /\ Become(r, "done", l)
      BY <1>4 DEF Fault, db
    <2>1. /\ l \in Locals /\ l.op = local[r].op /\ l.token = local[r].token
          /\ l.session = local[r].session /\ l.issued = local[r].issued
          /\ l.late = local[r].late /\ l.reused = local[r].reused
          /\ l.reply = "fault" /\ l.locked = {}
      BY Zenon, <1>0 DEF Locals, Replies
    <2> HIDE DEF l
    <2>2. pc'[r] = "done" /\ local'[r] = l
      BY <1>0, <2>0, <2>1, BecomeFrame DEF Labels
    <2>3. RequestAgrees(r)'
      BY Zenon, <1>0, <2>0, <2>1, <2>2 DEF RequestAgrees, LocalsAgree, HolderAgrees,
         AuditorAgrees, LateAgrees, ReusedAgrees, Revoked
    <2> QED BY <2>0, <2>1, <2>3, QuietStep DEF Labels
  <1>5. CASE Respond(r)
    <2>0. /\ UNCHANGED <<users, sessions, refresh_tokens, audit_events>>
          /\ Become(r, "idle", NoLocals)
      BY <1>5 DEF Respond, db
    <2>1. delivered' \subseteq DOMAIN refresh_tokens
      BY <1>0, <1>5 DEF Respond, TypeOK, RequestAgrees, LocalsAgree
    <2>2. pc'[r] = "idle" /\ local'[r] = NoLocals
      BY <1>0, <2>0, NoLocalsType, BecomeFrame DEF Labels
    <2>3. RequestAgrees(r)'
      <3>1. /\ NoLocals.late = FALSE /\ NoLocals.reused = FALSE /\ NoLocals.token = NoRow
            /\ NoLocals.issued = NoRow /\ NoLocals.locked = {} /\ NoLocals.reply = "none"
        BY DEF NoLocals
      <3> QED
        BY ONLY <2>2, <3>1 DEF RequestAgrees, LocalsAgree, HolderAgrees,
           AuditorAgrees, LateAgrees, ReusedAgrees
    <2>4. AuditFollowsRevocation'
      BY <2>0 DEF AuditFollowsRevocation, Revoked
    <2> QED BY Zenon, <1>0, <2>0, <2>1, <2>3, <2>4, NoLocalsType, StillStep DEF Labels, TypeOK
  <1> QED BY <1>1, <1>2, <1>3, <1>4, <1>5

\* A login's new session has no token and no other holder: it is one right.
LEMMA LoginSessionStep ==
  ASSUME IInv, NEW r \in Requests, LoginSession(r)
  PROVE  IInv' /\ RowsGrow
  <1> USE DEF IInv
  <1> DEFINE n == Len(sessions) + 1
  <1> DEFINE l == [local[r] EXCEPT !.session = n]
  <1>0. TypeOK /\ RequestAgrees(r) /\ local[r] \in Locals
    BY DEF TypeOK
  <1>1. /\ UNCHANGED <<users, refresh_tokens, audit_events, delivered>>
        /\ sessions' = Append(sessions, [user |-> local[r].user, revoked |-> FALSE])
        /\ pc[r] = "login_session" /\ Become(r, "issue", l)
    BY DEF LoginSession, create_session
  <1>2. /\ ~local[r].late /\ ~local[r].reused /\ local[r].token = NoRow
        /\ local[r].op = "login" /\ local[r].reply = "none"
    BY <1>0, <1>1 DEF RequestAgrees, LateAgrees, ReusedAgrees, LocalsAgree
  <1>3. /\ n \in Nat /\ n \notin DOMAIN sessions
        /\ n \in DOMAIN sessions' /\ sessions' \in Seq(Session)
        /\ \A s \in DOMAIN sessions : s \in DOMAIN sessions' /\ sessions'[s] = sessions[s]
    <2>1. [user |-> local[r].user, revoked |-> FALSE] \in Session
      BY <1>0 DEF Session, Locals
    <2> QED BY <1>0, <1>1, <2>1 DEF TypeOK
  <1>4. /\ l \in Locals /\ l.op = "login" /\ l.token = NoRow /\ l.session = n
        /\ ~l.late /\ ~l.reused /\ l.issued = local[r].issued
        /\ l.locked = local[r].locked /\ l.reply = "none"
    BY <1>0, <1>2, <1>3 DEF Locals
  <1> HIDE DEF l, n
  <1>5. /\ pc' \in [Requests -> Labels] /\ local' \in [Requests -> Locals]
        /\ pc'[r] = "issue" /\ local'[r] = l
        /\ \A q \in Requests \ {r} : pc'[q] = pc[q] /\ local'[q] = local[q]
    BY <1>0, <1>1, <1>4, BecomeFrame DEF Labels
  <1>6. RowsGrow
    BY <1>1, <1>3 DEF RowsGrow
  <1>7. \A t \in DOMAIN refresh_tokens : refresh_tokens[t].session # n
    BY <1>0, <1>3 DEF TypeOK
  <1>8. RequestAgrees(r)'
    BY Zenon, <1>0, <1>1, <1>3, <1>4, <1>5, <1>7 DEF RequestAgrees, LocalsAgree, HolderAgrees,
       AuditorAgrees, LateAgrees, ReusedAgrees
  <1>9. ASSUME NEW q \in Requests PROVE RequestAgrees(q)'
    BY <1>0, <1>1, <1>5, <1>6, <1>8, OthersKeep
  <1>10. TypeOK'
    BY <1>0, <1>1, <1>3, <1>5 DEF TypeOK
  <1>11. TokensFormAChain'
    BY <1>1 DEF TokensFormAChain
  <1>12. AuditFollowsRevocation'
    BY <1>1, <1>6 DEF AuditFollowsRevocation, Revoked, RowsGrow
  <1>13. OneTokenToRotate'
    <2>1. \A q \in Requests : ~Holds(q, n)
      BY <1>0, <1>3 DEF Holds, RequestAgrees, HolderAgrees
    <2> QED BY <1>1, <1>4, <1>5, <1>7, <2>1 DEF OneTokenToRotate, Holds, Unrotated
  <1> QED BY <1>6, <1>9, <1>10, <1>11, <1>12, <1>13

\* The holder of a session's right inserts the session's one unrotated token.
LEMMA IssueTokensStep ==
  ASSUME IInv, NEW r \in Requests, IssueTokens(r)
  PROVE  IInv' /\ RowsGrow
  <1> USE DEF IInv
  <1> DEFINE n == Len(refresh_tokens) + 1
  <1> DEFINE l == [local[r] EXCEPT !.issued = n, !.reply = "ok"]
  <1> DEFINE row == [session |-> local[r].session, user |-> local[r].user,
                     parent |-> local[r].token, expired |-> FALSE,
                     rotated |-> FALSE, revoked |-> FALSE]
  <1>0. TypeOK /\ RequestAgrees(r) /\ local[r] \in Locals
    BY DEF TypeOK
  <1>1. /\ UNCHANGED <<users, sessions, audit_events, delivered>>
        /\ refresh_tokens' = Append(refresh_tokens, row)
        /\ pc[r] = "issue" /\ Become(r, "audit", l)
    BY DEF IssueTokens, insert_refresh_token
  <1>2. /\ ~local[r].late /\ ~local[r].reused /\ local[r].op \in {"login", "refresh"}
        /\ local[r].session \in DOMAIN sessions
        /\ local[r].token # NoRow =>
             /\ local[r].token \in DOMAIN refresh_tokens
             /\ refresh_tokens[local[r].token].rotated
             /\ refresh_tokens[local[r].token].session = local[r].session
             /\ refresh_tokens[local[r].token].user = local[r].user
        /\ \A t \in DOMAIN refresh_tokens :
             ~(refresh_tokens[t].session = local[r].session
               /\ refresh_tokens[t].parent = local[r].token)
    BY <1>0, <1>1 DEF RequestAgrees, LateAgrees, ReusedAgrees, LocalsAgree, HolderAgrees
  <1>3. /\ n \in Nat \ {0} /\ n \notin DOMAIN refresh_tokens
        /\ DOMAIN refresh_tokens' = DOMAIN refresh_tokens \cup {n}
        /\ refresh_tokens' \in Seq(RefreshToken)
        /\ refresh_tokens'[n] = row
        /\ \A t \in DOMAIN refresh_tokens : refresh_tokens'[t] = refresh_tokens[t]
    <2>1. row \in RefreshToken
      BY <1>0 DEF RefreshToken, Locals
    <2> QED BY <1>0, <1>1, <2>1 DEF TypeOK
  <1>4. /\ l \in Locals /\ l.op = local[r].op /\ l.token = local[r].token
        /\ l.session = local[r].session
        /\ ~l.late /\ ~l.reused /\ l.issued = n
        /\ l.locked = local[r].locked /\ l.reply = "ok"
    BY Zenon, <1>0, <1>2, <1>3 DEF Locals, Replies
  <1>r. /\ row.session = local[r].session /\ row.user = local[r].user
        /\ row.parent = local[r].token /\ ~row.rotated
    OBVIOUS
  <1> HIDE DEF l, n, row
  <1>5. /\ pc' \in [Requests -> Labels] /\ local' \in [Requests -> Locals]
        /\ pc'[r] = "audit" /\ local'[r] = l
        /\ \A q \in Requests \ {r} : pc'[q] = pc[q] /\ local'[q] = local[q]
    BY <1>0, <1>1, <1>4, BecomeFrame DEF Labels
  <1>6. RowsGrow
    BY <1>1, <1>3 DEF RowsGrow
  <1>7. \A q \in Requests \ {r} : ~Holds(q, local[r].session)
    BY <1>1 DEF OneTokenToRotate
  <1>8. RequestAgrees(r)'
    BY <1>0, <1>1, <1>2, <1>3, <1>4, <1>5 DEF RequestAgrees, LocalsAgree, HolderAgrees,
       AuditorAgrees, LateAgrees, ReusedAgrees, event_of
  <1>9. ASSUME NEW q \in Requests PROVE RequestAgrees(q)'
    BY <1>0, <1>3, <1>r, <1>5, <1>6, <1>7, <1>8, OthersKeep DEF Holds
  <1>10. TypeOK'
    BY <1>0, <1>1, <1>2, <1>3, <1>r, <1>5 DEF TypeOK
  <1>11. TokensFormAChain'
    <2>1. \A t \in DOMAIN refresh_tokens : refresh_tokens[t].parent # n
      BY <1>3, <1>0 DEF TokensFormAChain, NoRow
    <2> QED BY <1>2, <1>3, <1>r, <2>1 DEF TokensFormAChain, NoRow
  <1>12. AuditFollowsRevocation'
    BY <1>1 DEF AuditFollowsRevocation, Revoked
  <1>13. OneTokenToRotate'
    <2>1. \A t \in DOMAIN refresh_tokens :
            refresh_tokens[t].session = local[r].session => refresh_tokens[t].rotated
      BY <1>1 DEF OneTokenToRotate, Holds, Unrotated
    <2> QED BY <1>3, <1>r, <1>5, <1>7, <2>1 DEF OneTokenToRotate, Holds, Unrotated
  <1> QED BY <1>6, <1>9, <1>10, <1>11, <1>12, <1>13

\* A mark_rotated that updates its row takes the session's right from the one
\* token that could still be rotated; one that does not turns to revocation.
LEMMA RefreshRotateStep ==
  ASSUME IInv, NEW r \in Requests, RefreshRotate(r)
  PROVE  IInv' /\ RowsGrow
  <1> USE DEF IInv
  <1> DEFINE t == local[r].token
  <1>0. TypeOK /\ RequestAgrees(r) /\ local[r] \in Locals
    BY DEF TypeOK
  <1>1. /\ UNCHANGED <<users, sessions, audit_events, delivered>>
        /\ pc[r] = "ref_rotate"
    BY DEF RefreshRotate
  <1>2. /\ ~local[r].late /\ ~local[r].reused /\ local[r].op = "refresh"
        /\ t \in DOMAIN refresh_tokens
        /\ refresh_tokens[t].session = local[r].session
        /\ refresh_tokens[t].user = local[r].user
    BY <1>0, <1>1 DEF RequestAgrees, LateAgrees, ReusedAgrees, LocalsAgree
  <1>3. CASE refresh_tokens[t].rotated
    <2>1. UNCHANGED <<db, delivered>> /\ Goto(r, "revoke")
      BY <1>1, <1>3 DEF RefreshRotate, db
    <2>2. RowsGrow
      BY <2>1 DEF RowsGrow, db
    <2> QED BY <1>1, <1>2, <2>1, <2>2, GotoStep DEF Labels
  <1>4. CASE ~refresh_tokens[t].rotated
    <2>1. /\ Become(r, "issue", local[r])
          /\ refresh_tokens' = [refresh_tokens EXCEPT ![t].rotated = TRUE]
      BY <1>4 DEF RefreshRotate, mark_rotated, Goto
    <2>2. /\ DOMAIN refresh_tokens' = DOMAIN refresh_tokens
          /\ refresh_tokens' \in Seq(RefreshToken)
          /\ refresh_tokens'[t].rotated
          /\ \A u \in DOMAIN refresh_tokens :
               /\ refresh_tokens'[u].session = refresh_tokens[u].session
               /\ refresh_tokens'[u].user = refresh_tokens[u].user
               /\ refresh_tokens'[u].parent = refresh_tokens[u].parent
               /\ refresh_tokens'[u].revoked = refresh_tokens[u].revoked
               /\ u # t => refresh_tokens'[u] = refresh_tokens[u]
      <3>1. refresh_tokens[t] \in RefreshToken
        BY <1>0, <1>2, RowTypes
      <3>2. [refresh_tokens[t] EXCEPT !.rotated = TRUE] \in RefreshToken
        BY Zenon, <3>1 DEF RefreshToken
      <3>3. refresh_tokens' = [refresh_tokens EXCEPT
                                 ![t] = [refresh_tokens[t] EXCEPT !.rotated = TRUE]]
        BY <2>1
      <3>4. refresh_tokens' \in Seq(RefreshToken)
        BY <1>0, <1>2, <3>2, <3>3 DEF TypeOK
      <3> QED BY Zenon, <1>0, <1>2, <3>1, <3>3, <3>4 DEF TypeOK, RefreshToken
    <2>3. RowsGrow
      BY <1>1, <2>2 DEF RowsGrow
    <2>4. /\ pc' \in [Requests -> Labels] /\ local' \in [Requests -> Locals]
          /\ pc'[r] = "issue" /\ local'[r] = local[r]
          /\ \A q \in Requests \ {r} : pc'[q] = pc[q] /\ local'[q] = local[q]
      BY <1>0, <2>1, BecomeFrame DEF Labels
    <2>5. \A q \in Requests : ~Holds(q, local[r].session)
      BY <1>2, <1>4 DEF OneTokenToRotate, Unrotated
    <2>6. \A u \in DOMAIN refresh_tokens :
            refresh_tokens[u].session = local[r].session /\ u # t =>
              refresh_tokens[u].rotated
      BY <1>2, <1>4 DEF OneTokenToRotate, Unrotated
    <2>7. \A u \in DOMAIN refresh_tokens : refresh_tokens[u].parent # t
      BY <1>0, <1>2, <1>4, RowTypes DEF TokensFormAChain, NoRow
    <2>8. local[r].session \in DOMAIN sessions
      BY <1>0, <1>2, RowTypes
    <2>9. RequestAgrees(r)'
      <3>0. RequestAgrees(r)
        BY <1>0
      <3>1. LocalsAgree(r)'
        BY Zenon, <1>0, <1>1, <1>2, <2>2, <2>4, <3>0 DEF RequestAgrees, LocalsAgree
      <3>2. HolderAgrees(r)'
        BY <1>0, <1>1, <1>2, <2>2, <2>4, <2>7, <2>8 DEF HolderAgrees
      <3>3. AuditorAgrees(r)'
        BY <2>4 DEF AuditorAgrees
      <3>4. LateAgrees(r)' /\ ReusedAgrees(r)'
        BY <1>1, <1>2, <2>2, <2>4, <3>0 DEF RequestAgrees, LateAgrees, ReusedAgrees
      <3> QED BY <3>1, <3>2, <3>3, <3>4 DEF RequestAgrees
    <2>10. ASSUME NEW q \in Requests PROVE RequestAgrees(q)'
      BY <1>0, <2>2, <2>3, <2>4, <2>9, OthersKeep
    <2>11. TypeOK'
      BY <1>0, <1>1, <2>2, <2>4 DEF TypeOK
    <2>12. TokensFormAChain'
      BY <2>2 DEF TokensFormAChain
    <2>13. AuditFollowsRevocation'
      BY <1>1 DEF AuditFollowsRevocation, Revoked
    <2>14. OneTokenToRotate'
      BY SMTT(30), <1>2, <2>2, <2>4, <2>5, <2>6 DEF OneTokenToRotate, Holds, Unrotated
    <2> QED BY <2>3, <2>10, <2>11, <2>12, <2>13, <2>14
  <1> QED BY <1>3, <1>4

\* The commit of revoke_session: what it revokes stays in the chain.
LEMMA RevokeCommitStep ==
  ASSUME IInv, NEW r \in Requests, RevokeCommit(r)
  PROVE  IInv' /\ RowsGrow
  <1> USE DEF IInv
  <1> DEFINE s == local[r].session
  <1> DEFINE reply == IF local[r].op = "logout" THEN "ok" ELSE "unauthorized"
  <1> DEFINE l == [local[r] EXCEPT !.locked = {}, !.reply = reply]
  <1>0. TypeOK /\ RequestAgrees(r) /\ local[r] \in Locals
    BY DEF TypeOK
  <1>1. /\ UNCHANGED <<users, audit_events, delivered>>
        /\ sessions' = [sessions EXCEPT ![s].revoked = TRUE]
        /\ refresh_tokens' = tokens_after_revoke(local[r].locked)
        /\ pc[r] = "revoke_commit" /\ Become(r, "audit", l)
    BY DEF RevokeCommit, sessions_after_revoke
  <1>2. /\ s \in DOMAIN sessions /\ local[r].op \in {"refresh", "logout"}
        /\ local[r].late => local[r].op = "refresh"
    BY <1>0, <1>1 DEF RequestAgrees, LocalsAgree, LateAgrees
  <1>3. /\ DOMAIN sessions' = DOMAIN sessions
        /\ sessions' \in Seq(Session)
        /\ sessions'[s].revoked
        /\ \A x \in DOMAIN sessions : sessions[x].revoked => sessions'[x].revoked
    <2>1. sessions[s] \in Session
      BY <1>0, <1>2, RowTypes
    <2>2. [sessions[s] EXCEPT !.revoked = TRUE] \in Session
      BY Zenon, <2>1 DEF Session
    <2>3. sessions' = [sessions EXCEPT ![s] = [sessions[s] EXCEPT !.revoked = TRUE]]
      BY <1>1
    <2>4. sessions' \in Seq(Session)
      BY <1>0, <1>2, <2>2, <2>3 DEF TypeOK
    <2> QED BY <1>0, <1>2, <2>1, <2>3, <2>4 DEF TypeOK, Session
  <1>4. /\ DOMAIN refresh_tokens' = DOMAIN refresh_tokens
        /\ refresh_tokens' \in Seq(RefreshToken)
        /\ \A u \in DOMAIN refresh_tokens :
             /\ refresh_tokens'[u].session = refresh_tokens[u].session
             /\ refresh_tokens'[u].user = refresh_tokens[u].user
             /\ refresh_tokens'[u].parent = refresh_tokens[u].parent
             /\ refresh_tokens'[u].rotated = refresh_tokens[u].rotated
             /\ refresh_tokens[u].revoked => refresh_tokens'[u].revoked
    <2>1. ASSUME NEW u \in DOMAIN refresh_tokens
          PROVE  /\ refresh_tokens'[u] \in RefreshToken
                 /\ refresh_tokens'[u].session = refresh_tokens[u].session
                 /\ refresh_tokens'[u].user = refresh_tokens[u].user
                 /\ refresh_tokens'[u].parent = refresh_tokens[u].parent
                 /\ refresh_tokens'[u].rotated = refresh_tokens[u].rotated
                 /\ refresh_tokens[u].revoked => refresh_tokens'[u].revoked
      <3>1. refresh_tokens[u] \in RefreshToken
        BY <1>0, RowTypes
      <3>2. refresh_tokens'[u] = [refresh_tokens[u] EXCEPT
                 !.revoked = refresh_tokens[u].revoked \/ u \in local[r].locked]
        BY <1>1 DEF tokens_after_revoke
      <3> QED BY Zenon, <3>1, <3>2 DEF RefreshToken
    <2>2. DOMAIN refresh_tokens' = DOMAIN refresh_tokens
      BY <1>1 DEF tokens_after_revoke
    <2>3. refresh_tokens' \in Seq(RefreshToken)
      <3>1. DOMAIN refresh_tokens' = 1..Len(refresh_tokens) /\ Len(refresh_tokens) \in Nat
        BY <1>0, <2>2 DEF TypeOK
      <3>2. refresh_tokens' \in [1..Len(refresh_tokens) -> RefreshToken]
        <4>1. refresh_tokens' = [u \in 1..Len(refresh_tokens) |-> refresh_tokens'[u]]
          BY <1>1, <3>1, <2>2 DEF tokens_after_revoke
        <4> QED BY <2>1, <2>2, <3>1, <4>1
      <3> QED BY <3>1, <3>2
    <2> QED BY <2>1, <2>2, <2>3
  <1>5. /\ l \in Locals /\ l.op = local[r].op /\ l.token = local[r].token
        /\ l.session = s /\ l.late = local[r].late /\ l.reused = local[r].reused
        /\ l.issued = local[r].issued /\ l.locked = {} /\ l.reply = reply
    <2>1. reply \in Replies
      BY DEF Replies
    <2> HIDE DEF reply
    <2> QED BY Zenon, <1>0, <2>1, UnlockLocals
  <1> HIDE DEF l
  <1>6. /\ pc' \in [Requests -> Labels] /\ local' \in [Requests -> Locals]
        /\ pc'[r] = "audit" /\ local'[r] = l
        /\ \A q \in Requests \ {r} : pc'[q] = pc[q] /\ local'[q] = local[q]
    BY <1>0, <1>1, <1>5, BecomeFrame DEF Labels
  <1>7. RowsGrow
    BY <1>3, <1>4 DEF RowsGrow
  <1>8. RequestAgrees(r)'
    <2>1. LocalsAgree(r)' /\ HolderAgrees(r)' /\ AuditorAgrees(r)'
      BY <1>0, <1>1, <1>2, <1>3, <1>4, <1>5, <1>6
         DEF RequestAgrees, LocalsAgree, HolderAgrees, AuditorAgrees, Revoked
    <2>2. LateAgrees(r)'
      <3>1. l.late => /\ l.op = "refresh" /\ l.reply # "ok" /\ l.token # NoRow /\ l.token \in DOMAIN refresh_tokens
                      /\ Revoked(refresh_tokens[l.token].session)
        BY <1>0, <1>1, <1>2, <1>5 DEF RequestAgrees, LocalsAgree, LateAgrees
      <3>2. l.late => /\ refresh_tokens'[l.token].session \in DOMAIN sessions'
                      /\ sessions'[refresh_tokens'[l.token].session].revoked
        BY ONLY <1>3, <1>4, <3>1 DEF Revoked
      <3> QED
        BY ONLY <1>6, <3>1, <3>2 DEF LateAgrees, Revoked
    <2>3. ReusedAgrees(r)'
      <3>1. l.reused => /\ l.op = "refresh" /\ l.token # NoRow /\ l.token \in DOMAIN refresh_tokens
                        /\ refresh_tokens[l.token].rotated /\ refresh_tokens[l.token].session = s
        BY <1>0, <1>1, <1>5 DEF RequestAgrees, LocalsAgree, ReusedAgrees
      <3>2. l.reused => /\ refresh_tokens'[l.token].rotated
                        /\ refresh_tokens'[l.token].session \in DOMAIN sessions'
                        /\ sessions'[refresh_tokens'[l.token].session].revoked
        BY ONLY <1>2, <1>3, <1>4, <3>1
      <3> QED
        BY ONLY <1>6, <3>1, <3>2 DEF ReusedAgrees, Revoked
    <2> QED BY <2>1, <2>2, <2>3 DEF RequestAgrees
  <1>9. ASSUME NEW q \in Requests PROVE RequestAgrees(q)'
    BY <1>0, <1>4, <1>6, <1>7, <1>8, OthersKeep
  <1>10. TypeOK'
    BY <1>0, <1>1, <1>3, <1>4, <1>6 DEF TypeOK
  <1>11. TokensFormAChain'
    BY <1>4 DEF TokensFormAChain
  <1>12. AuditFollowsRevocation'
    BY <1>1, <1>7 DEF AuditFollowsRevocation, Revoked, RowsGrow
  <1>13. OneTokenToRotate'
    BY <1>1, <1>4, <1>6 DEF OneTokenToRotate, Holds, Unrotated
  <1> QED BY <1>7, <1>9, <1>10, <1>11, <1>12, <1>13

\* Time passing a token's expires_at disturbs nothing.
LEMMA ExpireStep ==
  ASSUME IInv, NEW t \in DOMAIN refresh_tokens, Expire(t)
  PROVE  IInv' /\ RowsGrow
  <1> USE DEF IInv
  <1>0. TypeOK
    OBVIOUS
  <1>1. /\ UNCHANGED <<users, sessions, audit_events, delivered, pc, local>>
        /\ refresh_tokens' = [refresh_tokens EXCEPT ![t].expired = TRUE]
    BY DEF Expire
  <1>2. /\ DOMAIN refresh_tokens' = DOMAIN refresh_tokens
        /\ refresh_tokens' \in Seq(RefreshToken)
        /\ \A u \in DOMAIN refresh_tokens :
             /\ refresh_tokens'[u].session = refresh_tokens[u].session
             /\ refresh_tokens'[u].user = refresh_tokens[u].user
             /\ refresh_tokens'[u].parent = refresh_tokens[u].parent
             /\ refresh_tokens'[u].rotated = refresh_tokens[u].rotated
             /\ refresh_tokens'[u].revoked = refresh_tokens[u].revoked
    <2>1. refresh_tokens[t] \in RefreshToken
      BY <1>0, RowTypes
    <2>2. [refresh_tokens[t] EXCEPT !.expired = TRUE] \in RefreshToken
      BY Zenon, <2>1 DEF RefreshToken
    <2>3. refresh_tokens' = [refresh_tokens EXCEPT
                               ![t] = [refresh_tokens[t] EXCEPT !.expired = TRUE]]
      BY <1>1
    <2>4. refresh_tokens' \in Seq(RefreshToken)
      BY <1>0, <2>2, <2>3 DEF TypeOK
    <2> QED BY SMTT(30), <1>0, <2>1, <2>3, <2>4 DEF TypeOK, RefreshToken
  <1>3. RowsGrow
    BY <1>1, <1>2 DEF RowsGrow
  <1>4. ASSUME NEW q \in Requests PROVE RequestAgrees(q)'
    BY <1>0, <1>1, <1>2, <1>3, OthersKeep
  <1>5. TypeOK'
    BY <1>0, <1>1, <1>2 DEF TypeOK
  <1>6. TokensFormAChain' /\ AuditFollowsRevocation'
    BY <1>1, <1>2 DEF TokensFormAChain, AuditFollowsRevocation, Revoked
  <1>7. OneTokenToRotate'
    BY <1>1, <1>2 DEF OneTokenToRotate, Holds, Unrotated
  <1> QED BY <1>3, <1>4, <1>5, <1>6, <1>7

\* The invariant is inductive, and holds in every reachable state.
THEOREM Invariance == Spec => []IInv
  <1>1. IInv /\ [Next]_vars => IInv'
    <2> SUFFICES ASSUME IInv, [Next]_vars PROVE IInv'
      OBVIOUS
    <2>1. ASSUME NEW r \in Requests, Accept(r) \/ Step(r) \/ Fault(r) PROVE IInv'
      BY <2>1, AcceptStep, ReadStep, EndStep, LoginSessionStep, IssueTokensStep,
         RefreshRotateStep, RevokeCommitStep DEF Step
    <2>2. ASSUME NEW t \in DOMAIN refresh_tokens, Expire(t) PROVE IInv'
      BY <2>2, ExpireStep
    <2>3. CASE UNCHANGED vars
      <3>1. UNCHANGED <<users, sessions, refresh_tokens, audit_events, delivered, pc, local>>
        BY <2>3 DEF vars
      <3>2. RowsGrow
        BY <3>1 DEF RowsGrow
      <3>3. ASSUME NEW q \in Requests PROVE RequestAgrees(q)'
        BY <3>1, <3>2, OthersKeep DEF IInv
      <3>4. TypeOK' /\ TokensFormAChain' /\ AuditFollowsRevocation'
        BY <3>1 DEF IInv, TypeOK, TokensFormAChain, AuditFollowsRevocation, Revoked
      <3>5. OneTokenToRotate'
        BY <3>1 DEF IInv, OneTokenToRotate, Holds, Unrotated
      <3> QED BY <3>3, <3>4, <3>5 DEF IInv
    <2> QED BY <2>1, <2>2, <2>3 DEF Next
  <1> QED BY <1>1, InitIInv, PTL DEF Spec

\* Type correctness of the tables and of every handler's locals.
THEOREM TypeCorrect == Spec => []TypeOK
  <1>1. IInv => TypeOK
    BY DEF IInv
  <1> QED BY <1>1, Invariance, PTL

\* Refresh tokens form a chain per session: services/auth.rs never mints two
\* tokens from one, however many refreshes race, fail or are retried.
THEOREM Chain == Spec => []TokensFormAChain
  <1>1. IInv => TokensFormAChain
    BY DEF IInv
  <1> QED BY <1>1, Invariance, PTL

\* A session never has two tokens to rotate, counting one about to be inserted.
THEOREM NoFork == Spec => []OneTokenToRotate
  <1>1. IInv => OneTokenToRotate
    BY DEF IInv
  <1> QED BY <1>1, Invariance, PTL

\* No request accepted after its session was revoked is granted.
THEOREM RevocationIsImmediate == Spec => []NoGrantAfterRevocation
  <1>1. IInv => NoGrantAfterRevocation
    BY DEF IInv, NoGrantAfterRevocation, RequestAgrees, LateAgrees
  <1> QED BY <1>1, Invariance, PTL

\* A rotated token presented again revokes its session before the answer.
THEOREM ReuseIsPunished == Spec => []ReuseRevokesSession
  <1>1. IInv => ReuseRevokesSession
    BY DEF IInv, ReuseRevokesSession, RequestAgrees, ReusedAgrees
  <1> QED BY <1>1, Invariance, PTL

\* The audit trail records no revocation that is not committed.
THEOREM AuditIsTruthful == Spec => []AuditFollowsRevocation
  <1>1. IInv => AuditFollowsRevocation
    BY DEF IInv
  <1> QED BY <1>1, Invariance, PTL

\* Every step keeps every row, and what is rotated or revoked stays so.
THEOREM Monotone == Spec => RevocationIsFinal
  <1>1. IInv /\ [Next]_vars => RowsGrow
    <2> SUFFICES ASSUME IInv, [Next]_vars PROVE RowsGrow
      OBVIOUS
    <2>1. ASSUME UNCHANGED <<sessions, refresh_tokens>> PROVE RowsGrow
      BY <2>1 DEF RowsGrow
    <2>2. ASSUME NEW r \in Requests,
                 Accept(r) \/ Step(r) \/ Fault(r)
          PROVE  RowsGrow
      <3>1. CASE Accept(r) \/ Fault(r)
        BY Zenon, <2>1, <3>1 DEF Accept, Register, Login, Refresh, Authenticated, Fault, db
      <3>2. CASE \/ RegisterFind(r) \/ RegisterInsert(r) \/ LoginFind(r) \/ RefreshFind(r)
                 \/ RefreshActive(r) \/ RevokeUpdate(r) \/ Authenticate(r) \/ Me(r)
                 \/ Audit(r) \/ Respond(r)
        BY <2>1, <3>2 DEF RegisterFind, RegisterInsert, LoginFind, RefreshFind,
           RefreshActive, RevokeUpdate, Authenticate, Me, Audit, Respond, db
      <3> QED BY <2>2, <3>1, <3>2, LoginSessionStep, IssueTokensStep, RefreshRotateStep,
                 RevokeCommitStep DEF Step
    <2>3. ASSUME NEW t \in DOMAIN refresh_tokens, Expire(t) PROVE RowsGrow
      BY <2>3, ExpireStep
    <2>4. CASE UNCHANGED vars
      BY <2>1, <2>4 DEF vars
    <2> QED BY <2>2, <2>3, <2>4 DEF Next
  <1>2. RowsGrow =>
          /\ \A s \in DOMAIN sessions :
               s \in DOMAIN sessions' /\ (sessions[s].revoked => sessions'[s].revoked)
          /\ \A t \in DOMAIN refresh_tokens :
               /\ t \in DOMAIN refresh_tokens'
               /\ refresh_tokens[t].revoked => refresh_tokens'[t].revoked
               /\ refresh_tokens[t].rotated => refresh_tokens'[t].rotated
    BY DEF RowsGrow
  <1> QED BY <1>1, <1>2, Invariance, PTL DEF Spec, RevocationIsFinal

\* However the lookups of racing registrations interleave, users.email UNIQUE
\* lets one INSERT through per email.
THEOREM OneAccount == Spec => []OneAccountPerEmail
  <1>1. Init => OneAccountPerEmail
    BY DEF Init, OneAccountPerEmail
  <1>2. IInv /\ OneAccountPerEmail /\ [Next]_vars => OneAccountPerEmail'
    <2> SUFFICES ASSUME IInv, OneAccountPerEmail, [Next]_vars PROVE OneAccountPerEmail'
      OBVIOUS
    <2>1. ASSUME UNCHANGED users PROVE OneAccountPerEmail'
      BY <2>1 DEF OneAccountPerEmail
    <2>2. ASSUME NEW r \in Requests, RegisterInsert(r) PROVE OneAccountPerEmail'
      <3>1. CASE email_taken(local[r].email)
        BY <2>1, <2>2, <3>1 DEF RegisterInsert
      <3>2. CASE ~email_taken(local[r].email)
        <4>1. users \in Seq(Emails) /\ users' = Append(users, local[r].email)
          BY <2>2, <3>2 DEF RegisterInsert, IInv, TypeOK
        <4>2. PICK n : n = Len(users) + 1
          OBVIOUS
        <4>3. /\ DOMAIN users' = DOMAIN users \cup {n} /\ users'[n] = local[r].email
              /\ \A u \in DOMAIN users : u # n /\ users'[u] = users[u]
          BY <4>1, <4>2
        <4> QED BY <3>2, <4>3 DEF email_taken, OneAccountPerEmail
      <3> QED BY <3>1, <3>2
    <2>3. ASSUME NEW r \in Requests, Accept(r) \/ Step(r) \/ Fault(r)
          PROVE  OneAccountPerEmail'
      <3>1. CASE Accept(r) \/ Fault(r)
        BY Zenon, <2>1, <3>1 DEF Accept, Register, Login, Refresh, Authenticated, Fault, db
      <3>2. CASE Step(r)
        BY <2>1, <2>2, <3>2 DEF Step, RegisterFind, LoginFind, LoginSession, IssueTokens,
           RefreshFind, RefreshActive, RefreshRotate, RevokeUpdate, RevokeCommit,
           Authenticate, Me, Audit, Respond, db
      <3> QED BY <2>3, <3>1, <3>2
    <2>4. ASSUME NEW t \in DOMAIN refresh_tokens, Expire(t) PROVE OneAccountPerEmail'
      BY <2>1, <2>4 DEF Expire
    <2> QED BY <2>1, <2>3, <2>4 DEF Next, vars
  <1> QED BY <1>1, <1>2, Invariance, PTL DEF Spec

-----------------------------------------------------------------------------
(* AuthSessions implements TokenFamily: every step of a handler moves one  *)
(* session's right to continue, revokes one session, or changes neither.   *)

R == [s \in DOMAIN sessions |-> RightOf(s)]
V == {s \in DOMAIN sessions : sessions[s].revoked}

\* A step that starts and ends no minting, and rotates and inserts no token,
\* moves no right.
LEMMA RightsStay ==
  ASSUME UNCHANGED sessions, DOMAIN refresh_tokens' = DOMAIN refresh_tokens,
         \A t \in DOMAIN refresh_tokens :
           /\ refresh_tokens'[t].session = refresh_tokens[t].session
           /\ refresh_tokens'[t].rotated = refresh_tokens[t].rotated,
         \A q \in Requests : (pc'[q] = "issue") <=> (pc[q] = "issue"),
         \A q \in Requests : pc[q] = "issue" => local'[q].session = local[q].session
  PROVE  R' = R /\ V' = V
  <1>1. \A s \in DOMAIN sessions : RightOf(s)' = RightOf(s)
    BY DEF RightOf, Holds, Unrotated
  <1> QED BY <1>1 DEF R, V

\* So does any step of r's handler from and to awaits other than the minting,
\* while the tables stay as they are.
LEMMA StillStutter ==
  ASSUME TypeOK, NEW r \in Requests, NEW to \in Labels \ {"issue"}, NEW l,
         Become(r, to, l), pc[r] # "issue", UNCHANGED <<sessions, refresh_tokens>>
  PROVE  R' = R /\ V' = V
  <1>1. /\ pc'[r] = to
        /\ \A q \in Requests \ {r} : pc'[q] = pc[q] /\ local'[q] = local[q]
    BY DEF TypeOK, Become
  <1> QED BY <1>1, RightsStay

\* The step of a family that a step of the handlers is.
FamilyStep ==
  \/ R' = Append(R, "flight") /\ V' = V
  \/ \E s \in DOMAIN R :
       \/ R[s] = "flight" /\ R' = [R EXCEPT ![s] = "stored"] /\ V' = V
       \/ R[s] = "stored" /\ R' = [R EXCEPT ![s] = "flight"] /\ V' = V
       \/ R[s] = "flight" /\ R' = [R EXCEPT ![s] = "gone"] /\ V' = V
       \/ V' = V \cup {s} /\ R' = R
  \/ R' = R /\ V' = V

\* A login opens a session whose right is in flight.
LEMMA OpenStep ==
  ASSUME IInv, NEW r \in Requests, LoginSession(r)
  PROVE  R' = Append(R, "flight") /\ V' = V
  <1>n. PICK n : n = Len(sessions) + 1
    OBVIOUS
  <1>0. TypeOK /\ local[r] \in Locals /\ RequestAgrees(r)
    BY DEF IInv, TypeOK
  <1>1. /\ sessions' = Append(sessions, [user |-> local[r].user, revoked |-> FALSE])
        /\ UNCHANGED refresh_tokens /\ pc[r] = "login_session"
        /\ Become(r, "issue", [local[r] EXCEPT !.session = n])
    BY <1>n DEF LoginSession, create_session
  <1>2. [local[r] EXCEPT !.session = n].session = n
    BY <1>0 DEF Locals
  <1>3. /\ pc'[r] = "issue" /\ local'[r].session = n
        /\ \A q \in Requests \ {r} : pc'[q] = pc[q] /\ local'[q] = local[q]
    BY <1>0, <1>1, <1>2 DEF TypeOK, Become
  <1>4. /\ Len(sessions) \in Nat /\ DOMAIN sessions = 1..Len(sessions)
        /\ DOMAIN sessions' = 1..n /\ ~sessions'[n].revoked
        /\ \A s \in DOMAIN sessions : sessions'[s] = sessions[s]
    BY <1>n, <1>0, <1>1 DEF TypeOK
  <1>5. \A s \in DOMAIN sessions : RightOf(s)' = RightOf(s)
    BY <1>1, <1>3, <1>4 DEF RightOf, Holds, Unrotated
  <1>6. RightOf(n)' = "flight"
    BY <1>3 DEF RightOf, Holds
  <1>7. V' = V
    BY <1>n, <1>4 DEF V
  <1>8. R \in Seq({"flight", "stored", "gone"}) /\ Len(R) = Len(sessions)
    BY <1>4 DEF R, RightOf
  <1>9. R' = [s \in 1..n |-> IF s = n THEN "flight" ELSE RightOf(s)]
    BY <1>n, <1>4, <1>5, <1>6 DEF R
  <1>10. Append(R, "flight") = [s \in 1..n |-> IF s = n THEN "flight" ELSE RightOf(s)]
    BY <1>n, <1>4, <1>8 DEF R
  <1> QED BY <1>7, <1>9, <1>10

\* The right of one session moves when the others' holders and tokens stay.
LEMMA RightMoves ==
  ASSUME UNCHANGED sessions, NEW s \in DOMAIN sessions, NEW to,
         RightOf(s)' = to,
         \A x \in DOMAIN sessions \ {s} : RightOf(x)' = RightOf(x)
  PROVE  R' = [R EXCEPT ![s] = to] /\ V' = V
  BY DEF R, V

\* issue_tokens stores the right it holds.
LEMMA MintStep ==
  ASSUME IInv, NEW r \in Requests, IssueTokens(r)
  PROVE  FamilyStep
  <1>0. TypeOK /\ local[r] \in Locals /\ RequestAgrees(r) /\ OneTokenToRotate
    BY DEF IInv, TypeOK
  <1>1. PICK s, n : s = local[r].session /\ n = Len(refresh_tokens) + 1
    OBVIOUS
  <1>2. /\ pc[r] = "issue" /\ s \in DOMAIN sessions /\ UNCHANGED sessions
        /\ pc'[r] = "audit"
        /\ \A q \in Requests \ {r} : pc'[q] = pc[q] /\ local'[q] = local[q]
    BY <1>0, <1>1 DEF IssueTokens, Become, TypeOK, RequestAgrees, HolderAgrees
  <1>3. /\ DOMAIN refresh_tokens' = DOMAIN refresh_tokens \cup {n}
        /\ n \in DOMAIN refresh_tokens'
        /\ refresh_tokens'[n].session = s /\ ~refresh_tokens'[n].rotated
        /\ \A t \in DOMAIN refresh_tokens : refresh_tokens'[t] = refresh_tokens[t]
    BY <1>0, <1>1 DEF IssueTokens, insert_refresh_token, TypeOK
  <1>4. RightOf(s) = "flight"
    BY <1>1, <1>2 DEF RightOf, Holds
  <1>5. RightOf(s)' = "stored"
    <2>1. \A q \in Requests : ~Holds(q, s)'
      BY <1>0, <1>1, <1>2 DEF OneTokenToRotate, Holds
    <2> QED BY <1>3, <2>1 DEF RightOf, Unrotated
  <1>6. \A x \in DOMAIN sessions \ {s} : RightOf(x)' = RightOf(x)
    BY <1>1, <1>2, <1>3 DEF RightOf, Holds, Unrotated
  <1>7. R' = [R EXCEPT ![s] = "stored"] /\ V' = V
    BY <1>2, <1>5, <1>6, RightMoves
  <1> QED BY <1>2, <1>4, <1>7 DEF FamilyStep, R

\* A mark_rotated that updates its row takes the stored right into flight.
LEMMA ConsumeStep ==
  ASSUME IInv, NEW r \in Requests, RefreshRotate(r)
  PROVE  FamilyStep
  <1>0. TypeOK /\ local[r] \in Locals /\ RequestAgrees(r) /\ OneTokenToRotate
    BY DEF IInv, TypeOK
  <1>1. PICK s, t : s = local[r].session /\ t = local[r].token
    OBVIOUS
  <1>2. /\ pc[r] = "ref_rotate" /\ t \in DOMAIN refresh_tokens
        /\ refresh_tokens[t].session = s /\ s \in DOMAIN sessions
        /\ UNCHANGED sessions
    BY <1>0, <1>1, RowTypes DEF RefreshRotate, RequestAgrees, LocalsAgree
  <1>3. CASE refresh_tokens[t].rotated
    <2>1. UNCHANGED refresh_tokens /\ Become(r, "revoke", local[r])
      BY <1>1, <1>3 DEF RefreshRotate, Goto
    <2> QED BY <1>0, <1>2, <2>1, StillStutter DEF FamilyStep, Labels
  <1>4. CASE ~refresh_tokens[t].rotated
    <2>1. /\ refresh_tokens' = [refresh_tokens EXCEPT ![t].rotated = TRUE]
          /\ Become(r, "issue", local[r])
      BY <1>1, <1>4 DEF RefreshRotate, mark_rotated, Goto
    <2>2. /\ pc'[r] = "issue" /\ local'[r] = local[r]
          /\ \A q \in Requests \ {r} : pc'[q] = pc[q] /\ local'[q] = local[q]
      BY <1>0, <2>1 DEF TypeOK, Become
    <2>3. /\ DOMAIN refresh_tokens' = DOMAIN refresh_tokens
          /\ \A u \in DOMAIN refresh_tokens :
               /\ refresh_tokens'[u].session = refresh_tokens[u].session
               /\ u # t => refresh_tokens'[u] = refresh_tokens[u]
      <3>1. refresh_tokens[t] \in RefreshToken
        BY <1>0, <1>2, RowTypes
      <3> QED BY <1>0, <1>2, <2>1, <3>1 DEF TypeOK, RefreshToken
    <2>4. RightOf(s) = "stored"
      <3>1. \A q \in Requests : ~Holds(q, s)
        BY <1>0, <1>2, <1>4 DEF OneTokenToRotate, Unrotated
      <3> QED BY <1>2, <1>4, <3>1 DEF RightOf, Unrotated
    <2>5. RightOf(s)' = "flight"
      BY <1>1, <2>2 DEF RightOf, Holds
    <2>6. \A x \in DOMAIN sessions \ {s} : RightOf(x)' = RightOf(x)
      BY <1>1, <1>2, <2>2, <2>3 DEF RightOf, Holds, Unrotated
    <2>7. R' = [R EXCEPT ![s] = "flight"] /\ V' = V
      BY <1>2, <2>5, <2>6, RightMoves
    <2> QED BY <1>2, <2>4, <2>7 DEF FamilyStep, R
  <1> QED BY <1>3, <1>4

\* A handler cut short before it stored the token loses the right for good.
LEMMA DropStep ==
  ASSUME IInv, NEW r \in Requests, Fault(r)
  PROVE  FamilyStep
  <1>0. TypeOK /\ local[r] \in Locals /\ RequestAgrees(r) /\ OneTokenToRotate
    BY DEF IInv, TypeOK
  <1>1. /\ UNCHANGED <<sessions, refresh_tokens>>
        /\ Become(r, "done", [local[r] EXCEPT !.reply = "fault", !.locked = {}])
    BY DEF Fault, db
  <1>2. CASE pc[r] # "issue"
    BY <1>0, <1>1, <1>2, StillStutter DEF FamilyStep, Labels
  <1>3. CASE pc[r] = "issue"
    <2>1. PICK s : s = local[r].session
      OBVIOUS
    <2>2. /\ s \in DOMAIN sessions /\ pc'[r] = "done"
          /\ \A q \in Requests \ {r} : pc'[q] = pc[q] /\ local'[q] = local[q]
      BY <1>0, <1>1, <1>3, <2>1 DEF TypeOK, Become, RequestAgrees, HolderAgrees
    <2>3. RightOf(s) = "flight"
      BY <1>3, <2>1 DEF RightOf, Holds
    <2>4. RightOf(s)' = "gone"
      <3>1. \A q \in Requests : ~Holds(q, s)'
        BY <1>0, <1>3, <2>1, <2>2 DEF OneTokenToRotate, Holds
      <3>2. \A t \in DOMAIN refresh_tokens :
              refresh_tokens[t].session = s => refresh_tokens[t].rotated
        BY <1>0, <1>3, <2>1 DEF OneTokenToRotate, Holds, Unrotated
      <3> QED BY <1>1, <3>1, <3>2 DEF RightOf, Unrotated
    <2>5. \A x \in DOMAIN sessions \ {s} : RightOf(x)' = RightOf(x)
      BY <1>1, <2>1, <2>2 DEF RightOf, Holds, Unrotated
    <2>6. R' = [R EXCEPT ![s] = "gone"] /\ V' = V
      BY <1>1, <2>2, <2>4, <2>5, RightMoves
    <2> QED BY <2>2, <2>3, <2>6 DEF FamilyStep, R
  <1> QED BY <1>2, <1>3

\* The commit of revoke_session revokes its session and moves no right.
LEMMA RevokeStep ==
  ASSUME IInv, NEW r \in Requests, RevokeCommit(r)
  PROVE  FamilyStep
  <1>0. TypeOK /\ local[r] \in Locals /\ RequestAgrees(r)
    BY DEF IInv, TypeOK
  <1>1. PICK s : s = local[r].session
    OBVIOUS
  <1>2. /\ s \in DOMAIN sessions /\ pc[r] = "revoke_commit"
        /\ sessions' = [sessions EXCEPT ![s].revoked = TRUE]
        /\ pc'[r] = "audit"
        /\ \A q \in Requests \ {r} : pc'[q] = pc[q] /\ local'[q] = local[q]
    BY <1>0, <1>1 DEF RevokeCommit, sessions_after_revoke, Become, TypeOK,
                      RequestAgrees, LocalsAgree
  <1>3. /\ DOMAIN refresh_tokens' = DOMAIN refresh_tokens
        /\ \A t \in DOMAIN refresh_tokens :
             /\ refresh_tokens'[t].session = refresh_tokens[t].session
             /\ refresh_tokens'[t].rotated = refresh_tokens[t].rotated
    <2>1. ASSUME NEW t \in DOMAIN refresh_tokens
          PROVE  /\ refresh_tokens'[t].session = refresh_tokens[t].session
                 /\ refresh_tokens'[t].rotated = refresh_tokens[t].rotated
      <3>1. refresh_tokens[t] \in RefreshToken
        BY <1>0, RowTypes
      <3> QED BY <3>1 DEF RevokeCommit, tokens_after_revoke, RefreshToken
    <2> QED BY <2>1 DEF RevokeCommit, tokens_after_revoke
  <1>4. /\ DOMAIN sessions' = DOMAIN sessions
        /\ \A x \in DOMAIN sessions :
             sessions'[x].revoked <=> (x = s \/ sessions[x].revoked)
    <2>1. sessions[s] \in Session
      BY <1>0, <1>2, RowTypes
    <2> QED BY <1>0, <1>2, <2>1 DEF TypeOK, Session
  <1>5. V' = V \cup {s}
    BY <1>2, <1>4 DEF V
  <1>6. \A x \in DOMAIN sessions : RightOf(x)' = RightOf(x)
    BY <1>2, <1>3 DEF RightOf, Holds, Unrotated
  <1>7. R' = R
    BY <1>4, <1>6 DEF R
  <1> QED BY <1>2, <1>5, <1>7 DEF FamilyStep, R

\* Every other step of a handler moves no right.
LEMMA OtherStep ==
  ASSUME IInv, NEW r \in Requests,
         \/ Accept(r) \/ RegisterFind(r) \/ RegisterInsert(r) \/ LoginFind(r)
         \/ RefreshFind(r) \/ RefreshActive(r) \/ RevokeUpdate(r)
         \/ Authenticate(r) \/ Me(r) \/ Audit(r) \/ Respond(r)
  PROVE  R' = R /\ V' = V
  <1>0. TypeOK
    BY DEF IInv
  <1> USE <1>0, StillStutter DEF Labels
  <1>1. CASE Register(r) BY <1>1 DEF Register, db
  <1>2. CASE Login(r) BY <1>2 DEF Login, db
  <1>3. CASE Refresh(r) BY <1>3 DEF Refresh, db
  <1>4. CASE Authenticated(r) BY <1>4 DEF Authenticated, db
  <1>5. CASE RegisterFind(r) BY <1>5 DEF RegisterFind, Goto, Return, db
  <1>6. CASE RegisterInsert(r) BY <1>6 DEF RegisterInsert, Return
  <1>7. CASE LoginFind(r) BY <1>7 DEF LoginFind, db
  <1>8. CASE RefreshFind(r) BY <1>8 DEF RefreshFind, Return, db
  <1>9. CASE RefreshActive(r) BY <1>9 DEF RefreshActive, Goto, Return, db
  <1>10. CASE RevokeUpdate(r) BY <1>10 DEF RevokeUpdate, db
  <1>11. CASE Authenticate(r) BY <1>11 DEF Authenticate, Goto, Return, db
  <1>12. CASE Me(r) BY <1>12 DEF Me, Return, db
  <1>13. CASE Audit(r) BY <1>13 DEF Audit, Goto
  <1>14. CASE Respond(r) BY <1>14 DEF Respond, db
  <1> QED BY <1>1, <1>2, <1>3, <1>4, <1>5, <1>6, <1>7, <1>8, <1>9, <1>10, <1>11,
             <1>12, <1>13, <1>14 DEF Accept

\* A token that expires keeps its session and its place in the chain.
LEMMA ExpireStutter ==
  ASSUME IInv, NEW t \in DOMAIN refresh_tokens, Expire(t)
  PROVE  R' = R /\ V' = V
  <1>1. TypeOK /\ refresh_tokens[t] \in RefreshToken
    BY RowTypes DEF IInv
  <1>2. /\ DOMAIN refresh_tokens' = DOMAIN refresh_tokens
        /\ \A u \in DOMAIN refresh_tokens :
             /\ refresh_tokens'[u].session = refresh_tokens[u].session
             /\ refresh_tokens'[u].rotated = refresh_tokens[u].rotated
    BY <1>1 DEF Expire, TypeOK, RefreshToken
  <1> QED BY <1>2, RightsStay DEF Expire

\* Each step of the handlers of services/auth.rs is a step of the families.
LEMMA NextIsFamilyStep ==
  ASSUME IInv, [Next]_vars
  PROVE  FamilyStep
  <1>1. CASE UNCHANGED vars
    <2>1. R' = R /\ V' = V
      BY <1>1, RightsStay DEF vars
    <2> QED BY <2>1 DEF FamilyStep
  <1>2. ASSUME NEW r \in Requests, Accept(r) \/ Step(r) \/ Fault(r)
        PROVE  FamilyStep
    <2>1. CASE LoginSession(r) BY <2>1, OpenStep DEF FamilyStep
    <2>2. CASE IssueTokens(r) BY <2>2, MintStep
    <2>3. CASE RefreshRotate(r) BY <2>3, ConsumeStep
    <2>4. CASE RevokeCommit(r) BY <2>4, RevokeStep
    <2>5. CASE Fault(r) BY <2>5, DropStep
    <2> QED BY <1>2, <2>1, <2>2, <2>3, <2>4, <2>5, OtherStep DEF Step, FamilyStep
  <1>3. ASSUME NEW t \in DOMAIN refresh_tokens, Expire(t)
        PROVE  FamilyStep
    BY <1>3, ExpireStutter DEF FamilyStep
  <1> QED BY <1>1, <1>2, <1>3 DEF Next

\* The handlers implement the abstract session for any number of concurrent
\* requests, accounts, sessions and tokens: whatever races, faults and retries
\* happen in services/auth.rs, a session's right to continue is never in two
\* places and never recreated, and its revocation is permanent.
THEOREM Refinement == Spec => ImplementsTokenFamily
  <1>1. Init => Family!FamilyInit
    <2>1. ASSUME Init PROVE R = <<>> /\ V = {}
      BY <2>1 DEF Init, R, V
    <2> QED BY <2>1 DEF Family!FamilyInit, R, V
  <1>2. IInv /\ [Next]_vars => [Family!FamilyNext]_(Family!famvars)
    <2> SUFFICES ASSUME IInv, [Next]_vars PROVE [Family!FamilyNext]_(Family!famvars)
      OBVIOUS
    <2>1. FamilyStep
      BY NextIsFamilyStep
    <2> QED BY <2>1 DEF FamilyStep, R, V, Family!FamilyNext, Family!famvars, Family!Open,
                        Family!Mint, Family!Consume, Family!Drop, Family!Move,
                        Family!Revoke
  <1> QED BY <1>1, <1>2, Invariance, PTL DEF Spec, ImplementsTokenFamily, Family!FamilySpec
=============================================================================
