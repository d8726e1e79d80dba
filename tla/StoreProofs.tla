----------------------------- MODULE StoreProofs -----------------------------
(***************************************************************************)
(* Proofs about Store for any requests, users and labels.  The tables only *)
(* grow (Grows), so what one handler has read, as far as Knows says, no    *)
(* step of another undoes; the step of the handler itself is taken action  *)
(* by action.                                                              *)
(***************************************************************************)
EXTENDS Store, TLAPS

\* Rows stay: their owner does not change, and neither does a key, the key or the
\* conversation of a message or, once it is set, deleted_at; updated_at is not set
\* back to what the INSERT made it, and a message that is gone stays gone.
Grows ==
  /\ \A c \in DOMAIN conversations :
       /\ c \in DOMAIN conversations' /\ conversations'[c].user = conversations[c].user
       /\ conversations[c].deleted => conversations'[c].deleted
       /\ conversations[c].updated # "inserted" => conversations'[c].updated # "inserted"
  /\ \A k \in DOMAIN public_keys : k \in DOMAIN public_keys' /\ public_keys'[k] = public_keys[k]
  /\ \A m \in DOMAIN encrypted_messages :
       /\ m \in DOMAIN encrypted_messages'
       /\ encrypted_messages'[m].user = encrypted_messages[m].user
       /\ encrypted_messages'[m].key_id = encrypted_messages[m].key_id
       /\ encrypted_messages'[m].conversation = encrypted_messages[m].conversation
       /\ encrypted_messages[m].gone => encrypted_messages'[m].gone

TablesOK ==
  /\ conversations \in Seq(Conversation)
  /\ encrypted_messages \in Seq(EncryptedMessage)
  /\ public_keys \in Seq(PublicKey)

At == Statements \cup {"idle"}

\* A step of one handler that writes no audit event.
StepOf(r, to, l) ==
  /\ Become(r, to, l) /\ UNCHANGED audit_events
  /\ Grows /\ TablesOK' /\ MessagesBelong'
  /\ \A j, k \in DOMAIN public_keys' : public_keys'[j] = public_keys'[k] => j = k

\* What the handler must know for its own step to keep the invariant.
Ready(r, to, l) ==
  /\ l \in Locals /\ to \in At
  /\ l.late => to \in {"update", "soft_delete", "find_owned"}
  /\ Knows(to, l)' /\ AnswerIsTrue(l)'
  /\ to = "audit" => \A q \in Requests \ {r} : pc[q] = "audit" => EventOf(local[q]) # EventOf(l)
  /\ Done(to, l) =>
       \A q \in Requests \ {r} :
         Done(pc[q], local[q]) /\ local[q].op = l.op => local[q].row # l.row

\* Become changes one handler.
LEMMA Becomes ==
  ASSUME TypeOK, NEW r \in Requests, NEW to, NEW l, Become(r, to, l)
  PROVE  /\ pc' = [q \in Requests |-> IF q = r THEN to ELSE pc[q]]
         /\ local' = [q \in Requests |-> IF q = r THEN l ELSE local[q]]
  BY DEF TypeOK, Become

\* What happened stays so.
LEMMA HappenedStays ==
  ASSUME Grows, NEW e, Happened(e)
  PROVE  Happened(e)'
  BY DEF Grows, Happened

\* What a handler has done stays done.
LEMMA DidStays ==
  ASSUME Grows, MessagesBelong, NEW l, Did(l)
  PROVE  Did(l)'
  BY DEF Grows, MessagesBelong, Did

\* What a handler has read stays so, as long as no one writes its event.
LEMMA KnowsStays ==
  ASSUME Grows, MessagesBelong, NEW at, NEW l, Knows(at, l),
         at = "audit" => ~BagIn(EventOf(l), audit_events')
  PROVE  Knows(at, l)'
  <1>1. l.late => l.row \in DOMAIN conversations' /\ conversations'[l.row].deleted
    BY DEF Knows, Grows
  <1>2. at \in {"belongs_to_user", "insert_message"} =>
          l.row \in DOMAIN conversations' /\ conversations'[l.row].user = l.user
    BY DEF Knows, Grows
  <1>3. at = "insert_message" /\ l.key_id # NoRow =>
          l.key_id \in DOMAIN public_keys' /\ public_keys'[l.key_id].user = l.user
    BY DEF Knows, Grows
  <1>4. at = "audit" => Happened(EventOf(l))'
    BY HappenedStays DEF Knows
  <1>5. at = "audit" /\ l.op = "upload_key" => public_keys'[l.row] = KeyOf(l)
    BY DEF Knows, Grows, Happened, EventOf
  <1>6. Done(at, l) => Did(l)'
    BY DidStays DEF Knows
  <1> QED
    BY <1>1, <1>2, <1>3, <1>4, <1>5, <1>6 DEF Knows, KeyOf, EventOf, Done

\* An answer given stays true.
LEMMA AnswerStays ==
  ASSUME Grows, NEW l, AnswerIsTrue(l)
  PROVE  AnswerIsTrue(l)'
  BY DEF Grows, AnswerIsTrue, KeyOf

\* Steps that write no audit event, for a handler that is ready for its own.
LEMMA StepKeeps ==
  ASSUME StoreInv, NEW r \in Requests, NEW to, NEW l, StepOf(r, to, l), Ready(r, to, l)
  PROVE  StoreInv'
  <1>1. /\ pc' = [q \in Requests |-> IF q = r THEN to ELSE pc[q]]
        /\ local' = [q \in Requests |-> IF q = r THEN l ELSE local[q]]
    BY Becomes DEF StoreInv, StepOf
  <1>2. TypeOK'
    BY <1>1 DEF StoreInv, TypeOK, StepOf, TablesOK, Ready, At
  <1>3. DeletedIsClosed'
    BY <1>1 DEF StoreInv, DeletedIsClosed, Ready
  <1>4. AuditTrailIsTrue'
    <2>1. ASSUME NEW e, BagIn(e, audit_events) PROVE Happened(e)'
      BY <2>1, HappenedStays DEF StoreInv, AuditTrailIsTrue, StepOf, BagIn
    <2> QED
      BY <2>1 DEF StoreInv, AuditTrailIsTrue, StepOf, BagIn
  <1>5. OneKeyPerLabel'
    <2>1. ASSUME NEW q \in Requests PROVE AnswerIsTrue(local[q])'
      <3>1. CASE q = r
        BY <1>1, <3>1 DEF Ready, AnswerIsTrue, KeyOf
      <3>2. CASE q # r
        <4> PICK m : m = local[q]
          OBVIOUS
        <4>1. AnswerIsTrue(m)'
          BY AnswerStays DEF StoreInv, OneKeyPerLabel, StepOf
        <4> QED
          BY <1>1, <3>2, <4>1 DEF AnswerIsTrue, KeyOf
      <3> QED
        BY <3>1, <3>2
    <2> QED
      BY <2>1 DEF OneKeyPerLabel, StepOf
  <1>6. ASSUME NEW q \in Requests PROVE Knows(pc[q], local[q])'
    <2>1. CASE q = r
      <3>1. pc'[q] = to /\ local'[q] = l
        BY <1>1, <2>1
      <3> QED
        BY <3>1 DEF Ready, Knows, Done, Did
    <2>2. CASE q # r
      <3> PICK m : m = local[q]
        OBVIOUS
      <3> PICK at : at = pc[q]
        OBVIOUS
      <3>1. Knows(at, m)'
        BY KnowsStays DEF StoreInv, StepOf, Knows
      <3>2. pc'[q] = at /\ local'[q] = m
        BY <1>1, <2>2
      <3> QED
        BY <3>1, <3>2 DEF Knows, Done, Did
    <2> QED
      BY <2>1, <2>2
  <1>7. ASSUME NEW p \in Requests, NEW q \in Requests, p # q, pc'[p] = "audit", pc'[q] = "audit"
        PROVE  EventOf(local'[p]) # EventOf(local'[q])
    BY <1>1, <1>7 DEF StoreInv, Ready
  <1>8. ASSUME NEW p \in Requests, NEW q \in Requests, p # q, local'[p].op = local'[q].op,
               Done(pc'[p], local'[p]), Done(pc'[q], local'[q])
        PROVE  local'[p].row # local'[q].row
    BY <1>1, <1>8 DEF StoreInv, Ready
  <1> QED
    BY <1>2, <1>3, <1>4, <1>5, <1>6, <1>7, <1>8 DEF StoreInv, StepOf, EventOf, Done

\* A statement that changes no row.
LEMMA Reads ==
  ASSUME StoreInv, NEW r, NEW to, NEW l, Become(r, to, l), UNCHANGED <<tables, audit_events>>
  PROVE  StepOf(r, to, l)
  BY DEF StoreInv, StepOf, Grows, TypeOK, TablesOK, MessagesBelong, OneKeyPerLabel, tables

\* A handler that has nothing to say is ready to end.
LEMMA ReadyToLeave ==
  ASSUME NEW r
  PROVE  NoLocals \in Locals /\ Ready(r, "idle", NoLocals)
  <1>1. NoLocals \in Locals
    BY DEF NoLocals, Locals, NoRow
  <1>2. Knows("idle", NoLocals)' /\ AnswerIsTrue(NoLocals)'
    BY DEF Knows, AnswerIsTrue, NoLocals, Done
  <1> QED
    BY <1>1, <1>2 DEF Ready, NoLocals, At, Done

\* Early returns and faults.
LEMMA LeaveKeeps ==
  ASSUME StoreInv, NEW r \in Requests, Leave(r), UNCHANGED <<tables, audit_events>>
  PROVE  StoreInv'
  BY Reads, ReadyToLeave, StepKeeps DEF Leave

\* A new request of a user, about an existing conversation or none.
LEMMA AcceptKeeps ==
  ASSUME StoreInv, NEW r \in Requests, NEW to \in At \ {"idle", "audit", "touch", "belongs_to_user", "insert_message"},
         NEW l \in Locals, Accept(r, to, l),
         l.user \in Users, l.reply = "none", <<l.op, to>> \in Stages,
         l.late => /\ l.row \in DOMAIN conversations /\ conversations[l.row].deleted
                   /\ to \in {"update", "soft_delete", "find_owned"},
         to = "insert_key" => l.label \in Labels
  PROVE  StoreInv'
  <1>1. Become(r, to, l) /\ UNCHANGED <<tables, audit_events>>
    BY DEF Accept
  <1>2. Knows(to, l)'
    BY <1>1 DEF Knows, tables, Done
  <1>3. AnswerIsTrue(l)'
    BY DEF AnswerIsTrue
  <1>4. Ready(r, to, l)
    BY <1>2, <1>3 DEF Ready, Done
  <1> QED
    BY <1>1, <1>4, Reads, StepKeeps

\* A handler goes on with its locals after a statement that changes no row.
LEMMA GotoKeeps ==
  ASSUME StoreInv, NEW r \in Requests, NEW to \in At \ {"audit"},
         Goto(r, to), UNCHANGED <<tables, audit_events>>,
         Knows(to, local[r]), ~Done(to, local[r]), ~local[r].late, AnswerIsTrue(local[r])
  PROVE  StoreInv'
  <1> PICK l : l = local[r]
    OBVIOUS
  <1>1. l \in Locals /\ Become(r, to, l)
    BY DEF StoreInv, TypeOK, Goto
  <1>2. Knows(to, l)' /\ AnswerIsTrue(l)'
    <2>1. StepOf(r, to, l)
      BY <1>1, Reads
    <2>2. Grows
      BY <2>1 DEF StepOf
    <2>3. Knows(to, l) /\ AnswerIsTrue(l)
      OBVIOUS
    <2> QED
      BY <2>2, <2>3, KnowsStays, AnswerStays DEF StoreInv
  <1>3. Ready(r, to, l)
    BY <1>1, <1>2 DEF Ready
  <1> QED
    BY <1>1, <1>3, Reads, StepKeeps

-----------------------------------------------------------------------------
(* Requests.                                                               *)

\* About: a request is late only if its conversation is deleted.
LEMMA AboutIsTyped ==
  ASSUME StoreInv, NEW u \in Users, NEW c \in ConversationIds,
         NEW op \in {"update_conversation", "delete_conversation", "create_message", "list_messages"}
  PROVE  /\ About(op, u, c) \in Locals
         /\ About(op, u, c).op = op /\ About(op, u, c).user = u /\ About(op, u, c).reply = "none"
         /\ About(op, u, c).late =>
              About(op, u, c).row \in DOMAIN conversations /\ conversations[About(op, u, c).row].deleted
  <1>1. c \in Nat
    BY DEF StoreInv, TypeOK, ConversationIds, NoRow
  <1> QED
    BY <1>1 DEF About, NoLocals, Locals, NoRow

\* The first step of each of the handlers.
LEMMA RequestKeeps ==
  ASSUME StoreInv, NEW r \in Requests, NEW u \in Users, Request(r, u)
  PROVE  StoreInv'
  <1>1. CASE CreateConversation(r, u)
    <2> DEFINE l == [NoLocals EXCEPT !.op = "create_conversation", !.user = u]
    <2>1. /\ l \in Locals /\ l.user = u /\ l.reply = "none" /\ ~l.late /\ l.op = "create_conversation"
          /\ <<l.op, "insert_conversation">> \in Stages
      BY DEF NoLocals, Locals, NoRow, Stages
    <2>2. Accept(r, "insert_conversation", l)
      BY <1>1 DEF CreateConversation
    <2> HIDE DEF l
    <2> QED
      BY <2>1, <2>2, AcceptKeeps DEF At, Statements
  <1>2. ASSUME NEW c \in ConversationIds, UpdateConversation(r, u, c) PROVE StoreInv'
    <2> PICK l : l = About("update_conversation", u, c)
      OBVIOUS
    <2>1. l \in Locals /\ Accept(r, "update", l)
      BY <1>2, AboutIsTyped DEF UpdateConversation
    <2>2. /\ l.user = u /\ l.reply = "none" /\ <<l.op, "update">> \in Stages
          /\ l.late => l.row \in DOMAIN conversations /\ conversations[l.row].deleted
      BY AboutIsTyped DEF Stages
    <2> QED
      BY <2>1, <2>2, AcceptKeeps DEF At, Statements
  <1>3. ASSUME NEW c \in ConversationIds, DeleteConversation(r, u, c) PROVE StoreInv'
    <2> PICK l : l = About("delete_conversation", u, c)
      OBVIOUS
    <2>1. l \in Locals /\ Accept(r, "soft_delete", l)
      BY <1>3, AboutIsTyped DEF DeleteConversation
    <2>2. /\ l.user = u /\ l.reply = "none" /\ <<l.op, "soft_delete">> \in Stages
          /\ l.late => l.row \in DOMAIN conversations /\ conversations[l.row].deleted
      BY AboutIsTyped DEF Stages
    <2> QED
      BY <2>1, <2>2, AcceptKeeps DEF At, Statements
  <1>4. ASSUME NEW c \in ConversationIds, ListMessages(r, u, c) PROVE StoreInv'
    <2> PICK l : l = About("list_messages", u, c)
      OBVIOUS
    <2>1. l \in Locals /\ Accept(r, "find_owned", l)
      BY <1>4, AboutIsTyped DEF ListMessages
    <2>2. /\ l.user = u /\ l.reply = "none" /\ <<l.op, "find_owned">> \in Stages
          /\ l.late => l.row \in DOMAIN conversations /\ conversations[l.row].deleted
      BY AboutIsTyped DEF Stages
    <2> QED
      BY <2>1, <2>2, AcceptKeeps DEF At, Statements
  <1>5. ASSUME NEW c \in ConversationIds, NEW k \in KeyIds, CreateMessage(r, u, c, k) PROVE StoreInv'
    <2> PICK a : a = About("create_message", u, c)
      OBVIOUS
    <2> PICK l : l = [a EXCEPT !.key_id = k]
      OBVIOUS
    <2>1. k \in Nat
      BY DEF StoreInv, TypeOK, KeyIds
    <2>2. a \in Locals /\ Accept(r, "find_owned", l)
      BY <1>5, AboutIsTyped DEF CreateMessage
    <2>3. l \in Locals /\ l.op = a.op /\ l.user = a.user /\ l.reply = a.reply /\ l.late = a.late /\ l.row = a.row
      BY <2>1, <2>2 DEF Locals
    <2>4. /\ l.user = u /\ l.reply = "none" /\ <<l.op, "find_owned">> \in Stages
          /\ l.late => l.row \in DOMAIN conversations /\ conversations[l.row].deleted
      BY <2>3, AboutIsTyped DEF Stages
    <2> QED
      BY <2>2, <2>3, <2>4, AcceptKeeps DEF At, Statements
  <1>6. ASSUME NEW m \in MessageIds, DeleteMessage(r, u, m) PROVE StoreInv'
    <2> PICK l : l = [NoLocals EXCEPT !.op = "delete_message", !.user = u, !.row = m]
      OBVIOUS
    <2>1. m \in Nat
      BY DEF StoreInv, TypeOK, MessageIds
    <2>2. /\ l \in Locals /\ l.user = u /\ l.reply = "none" /\ ~l.late
          /\ <<l.op, "delete_owned">> \in Stages
      BY <2>1 DEF NoLocals, Locals, NoRow, Stages
    <2>3. Accept(r, "delete_owned", l)
      BY <1>6 DEF DeleteMessage
    <2> QED
      BY <2>2, <2>3, AcceptKeeps DEF At, Statements
  <1>7. ASSUME NEW label \in Labels, Upload(r, u, label) PROVE StoreInv'
    <2> PICK l : l = [NoLocals EXCEPT !.op = "upload_key", !.user = u, !.label = label]
      OBVIOUS
    <2>1. /\ l \in Locals /\ l.user = u /\ l.reply = "none" /\ ~l.late /\ l.label = label
          /\ <<l.op, "insert_key">> \in Stages
      BY DEF NoLocals, Locals, NoRow, Stages
    <2>2. Accept(r, "insert_key", l)
      BY <1>7 DEF Upload
    <2> QED
      BY <2>1, <2>2, AcceptKeeps DEF At, Statements
  <1> QED
    BY <1>1, <1>2, <1>3, <1>4, <1>5, <1>6, <1>7 DEF Request

-----------------------------------------------------------------------------
(* Statements.                                                             *)

\* What the invariant says of one handler.
LEMMA Here ==
  ASSUME StoreInv, NEW r \in Requests
  PROVE  /\ local[r] \in Locals /\ pc[r] \in At
         /\ Knows(pc[r], local[r]) /\ AnswerIsTrue(local[r])
         /\ local[r].late => pc[r] \in {"update", "soft_delete", "find_owned"}
  BY DEF StoreInv, TypeOK, At, DeletedIsClosed, OneKeyPerLabel

\* find_owned says no to a conversation that is deleted.
LEMMA AssertOwnedKeeps ==
  ASSUME StoreInv, NEW r \in Requests, AssertOwned(r)
  PROVE  StoreInv'
  <1>1. CASE Leave(r)
    BY <1>1, LeaveKeeps DEF AssertOwned
  <1>2. CASE find_owned(local[r].row, local[r].user) /\ ~Leave(r)
    <2>1. PICK to \in {"select", "insert_message", "belongs_to_user"} :
            /\ Goto(r, to)
            /\ to = "select" <=> local[r].op = "list_messages"
            /\ to = "insert_message" => local[r].key_id = NoRow
      BY <1>2 DEF AssertOwned
    <2>2. Knows(pc[r], local[r]) /\ pc[r] = "find_owned" /\ AnswerIsTrue(local[r])
      BY Here DEF AssertOwned
    <2>3. <<local[r].op, "find_owned">> \in Stages /\ local[r].user \in Users /\ local[r].reply = "none"
      BY <2>2 DEF Knows
    <2>4. <<local[r].op, to>> \in Stages
      BY <2>1, <2>3 DEF Stages
    <2>5. ~local[r].late
      BY <1>2, <2>2 DEF Knows, find_owned
    <2>6. Knows(to, local[r]) /\ ~Done(to, local[r])
      BY <1>2, <2>1, <2>3, <2>4, <2>5 DEF Knows, find_owned, Done
    <2>7. to \in At \ {"audit"} /\ UNCHANGED <<tables, audit_events>>
      BY <2>1 DEF AssertOwned, At, Statements
    <2> QED
      BY <2>1, <2>2, <2>5, <2>6, <2>7, GotoKeeps
  <1> QED
    BY <1>1, <1>2 DEF AssertOwned

\* belongs_to_user.
LEMMA CheckKeyKeeps ==
  ASSUME StoreInv, NEW r \in Requests, CheckKey(r)
  PROVE  StoreInv'
  <1>1. CASE Leave(r)
    BY <1>1, LeaveKeeps DEF CheckKey
  <1>2. CASE belongs_to_user(local[r].key_id, local[r].user) /\ Goto(r, "insert_message")
    <2>1. Knows(pc[r], local[r]) /\ pc[r] = "belongs_to_user" /\ AnswerIsTrue(local[r]) /\ ~local[r].late
      BY Here DEF CheckKey
    <2>2. <<local[r].op, "insert_message">> \in Stages
      BY <2>1 DEF Knows, Stages
    <2>3. Knows("insert_message", local[r]) /\ ~Done("insert_message", local[r])
      BY <1>2, <2>1, <2>2 DEF Knows, belongs_to_user, Done
    <2>4. UNCHANGED <<tables, audit_events>> /\ "insert_message" \in At \ {"audit"}
      BY DEF CheckKey, At, Statements
    <2> QED
      BY <1>2, <2>1, <2>3, <2>4, GotoKeeps
  <1> QED
    BY <1>1, <1>2 DEF CheckKey

\* A handler that returns success after a statement that wrote.
LEMMA ReadyToReturn ==
  ASSUME StoreInv, NEW r \in Requests, NEW l, l = [local[r] EXCEPT !.reply = "ok"],
         ~local[r].late, local[r].op # "upload_key",
         l.op \in Once => /\ Did(l)'
                          /\ \A q \in Requests \ {r} :
                               Done(pc[q], local[q]) /\ local[q].op = l.op => local[q].row # l.row
  PROVE  Ready(r, "idle", l)
  <1>1. l \in Locals /\ ~l.late /\ l.op # "upload_key"
    BY ZenonT(40) DEF StoreInv, TypeOK, Locals
  <1>2. Knows("idle", l)' /\ AnswerIsTrue(l)'
    BY <1>1 DEF Knows, AnswerIsTrue, Done
  <1> QED
    BY <1>1, <1>2 DEF Ready, At, Done

\* Messages stay where they belong while the other tables grow.
LEMMA BelongStays ==
  ASSUME MessagesBelong, Grows, UNCHANGED encrypted_messages
  PROVE  MessagesBelong'
  BY DEF MessagesBelong, Grows

\* The row is new, and so is its event.
LEMMA InsertConversationKeeps ==
  ASSUME StoreInv, NEW r \in Requests, InsertConversation(r)
  PROVE  StoreInv'
  <1> PICK n \in Nat : n = Len(conversations) + 1
    BY DEF StoreInv, TypeOK
  <1> PICK l : l = [local[r] EXCEPT !.row = n]
    OBVIOUS
  <1>1. /\ pc[r] = "insert_conversation" /\ Become(r, "audit", l)
        /\ conversations' = Append(conversations, [user |-> local[r].user, title |-> "given",
                                              updated |-> "inserted", deleted |-> FALSE])
        /\ UNCHANGED <<encrypted_messages, public_keys, audit_events>>
    BY DEF InsertConversation
  <1>2. local[r] \in Locals /\ Knows("insert_conversation", local[r]) /\ ~local[r].late
    BY <1>1, Here
  <1>3. local[r].user \in Users /\ local[r].reply = "none" /\ local[r].op = "create_conversation"
    BY <1>2 DEF Knows, Stages
  <1>4. /\ l \in Locals /\ l.row = n /\ l.user = local[r].user /\ ~l.late /\ l.reply = "none"
        /\ l.op = "create_conversation"
    BY <1>2, <1>3 DEF Locals
  <1>5. conversations \in Seq(Conversation) /\ DOMAIN conversations = 1..n - 1
    BY DEF StoreInv, TypeOK
  <1>6. /\ conversations' \in Seq(Conversation) /\ DOMAIN conversations' = 1..n
        /\ \A c \in DOMAIN conversations : conversations'[c] = conversations[c]
        /\ conversations'[n] = [user |-> l.user, title |-> "given",
                                 updated |-> "inserted", deleted |-> FALSE]
    BY <1>1, <1>3, <1>4, <1>5 DEF Conversation, Titles, Updated
  <1>7. Grows
    BY <1>1, <1>5, <1>6 DEF Grows
  <1>8. StepOf(r, "audit", l)
    <2>1. TablesOK'
      BY <1>1, <1>6 DEF TablesOK, StoreInv, TypeOK
    <2>2. MessagesBelong'
      BY <1>1, <1>7, BelongStays DEF StoreInv
    <2> QED
      BY <1>1, <1>7, <2>1, <2>2 DEF StepOf, StoreInv, OneKeyPerLabel
  <1>9. EventOf(l) = [type |-> "conversation.created", user |-> l.user, row |-> n]
    BY <1>4 DEF EventOf
  <1>10. Knows("audit", l)'
    <2>1. Happened(EventOf(l))'
      BY <1>6, <1>9 DEF Happened
    <2>2. ~BagIn(EventOf(l), audit_events)'
      BY <1>1, <1>5, <1>9 DEF StoreInv, AuditTrailIsTrue, Happened, BagIn
    <2>3. <<l.op, "audit">> \in Stages
      BY <1>4 DEF Stages
    <2>4. Did(l)'
      BY <1>4, <1>6 DEF Did
    <2> QED
      BY <1>3, <1>4, <2>1, <2>2, <2>3, <2>4 DEF Knows
  <1>11. ASSUME NEW q \in Requests \ {r}, pc[q] = "audit" PROVE EventOf(local[q]) # EventOf(l)
    <2>1. Happened(EventOf(local[q]))
      BY <1>11, Here DEF Knows
    <2> QED
      BY <2>1, <1>5, <1>9 DEF Happened, EventOf
  <1>12. ASSUME NEW q \in Requests \ {r}, Done(pc[q], local[q]), local[q].op = l.op PROVE local[q].row # l.row
    <2>1. Did(local[q])
      BY <1>12, Here DEF Knows
    <2> QED
      BY <1>4, <1>5, <1>12, <2>1 DEF Did
  <1>13. Ready(r, "audit", l)
    BY <1>4, <1>10, <1>11, <1>12 DEF Ready, At, Statements, AnswerIsTrue
  <1> QED
    BY <1>8, <1>13, StepKeeps

\* An UPDATE of one row of a table.
LEMMA RowUpdated ==
  ASSUME NEW S, NEW t \in Seq(S), NEW i \in DOMAIN t, NEW x \in S
  PROVE  /\ [t EXCEPT ![i] = x] \in Seq(S)
         /\ DOMAIN [t EXCEPT ![i] = x] = DOMAIN t
         /\ \A j \in DOMAIN t : [t EXCEPT ![i] = x][j] = IF j = i THEN x ELSE t[j]
  OBVIOUS

\* update changes the title and updated_at of a row that is not deleted.
LEMMA UpdateKeeps ==
  ASSUME StoreInv, NEW r \in Requests, Update(r)
  PROVE  StoreInv'
  <1>1. CASE ~updates(local[r].row, local[r].user)
    BY <1>1, LeaveKeeps DEF Update, tables
  <1>2. CASE updates(local[r].row, local[r].user)
    <2> PICK c : c = local[r].row
      OBVIOUS
    <2> PICK x : x = [conversations[c] EXCEPT !.title = "changed", !.updated = "open"]
      OBVIOUS
    <2>1. /\ Become(r, "idle", NoLocals) /\ conversations' = [conversations EXCEPT ![c] = x]
          /\ UNCHANGED <<encrypted_messages, public_keys, audit_events>>
      BY <1>2 DEF Update, Leave
    <2>2. conversations' \in Seq(Conversation) /\ Grows
      <3>1. conversations \in Seq(Conversation) /\ c \in DOMAIN conversations
        BY <1>2 DEF StoreInv, TypeOK, updates
      <3>2. /\ x \in Conversation /\ x.user = conversations[c].user /\ x.deleted = conversations[c].deleted
            /\ x.updated # "inserted"
        <4>1. conversations[c] \in Conversation
          BY <3>1
        <4> QED
          BY <4>1 DEF Conversation, Titles, Updated
      <3> QED
        BY <2>1, <3>1, <3>2, RowUpdated DEF Grows
    <2>3. StepOf(r, "idle", NoLocals)
      BY <2>1, <2>2, BelongStays DEF StepOf, StoreInv, OneKeyPerLabel, TablesOK, TypeOK
    <2> QED
      BY <2>3, ReadyToLeave, StepKeeps
  <1> QED
    BY <1>1, <1>2

\* touch sets updated_at of the conversation of the message that was stored.
LEMMA TouchKeeps ==
  ASSUME StoreInv, NEW r \in Requests, Touch(r)
  PROVE  StoreInv'
  <1> PICK l : l = [local[r] EXCEPT !.reply = "ok"]
    OBVIOUS
  <1> PICK c : c = encrypted_messages[local[r].row].conversation
    OBVIOUS
  <1> PICK v : v = IF conversations[c].deleted THEN "deleted" ELSE "open"
    OBVIOUS
  <1> PICK x : x = [conversations[c] EXCEPT !.updated = v]
    OBVIOUS
  <1>1. /\ pc[r] = "touch" /\ Become(r, "idle", l)
        /\ conversations' = [conversations EXCEPT ![c] = x]
        /\ UNCHANGED <<encrypted_messages, public_keys, audit_events>>
    BY DEF Touch, Return
  <1>2. local[r] \in Locals /\ Knows("touch", local[r]) /\ ~local[r].late
    BY <1>1, Here
  <1>3. local[r].op = "create_message" /\ Did(local[r])
    BY <1>2 DEF Knows, Stages, Done
  <1>4. /\ l.op = "create_message" /\ l.row = local[r].row /\ l.user = local[r].user
        /\ l.key_id = local[r].key_id
    BY <1>2, <1>3 DEF Locals
  <1>5. /\ conversations \in Seq(Conversation) /\ c \in DOMAIN conversations
        /\ l.row \in DOMAIN encrypted_messages
    BY <1>3, <1>4 DEF StoreInv, TypeOK, MessagesBelong, Did
  <1>6. /\ x \in Conversation /\ x.user = conversations[c].user /\ x.deleted = conversations[c].deleted
        /\ x.updated # "inserted"
    <2>1. conversations[c] \in Conversation /\ v \in Updated /\ v # "inserted"
      BY <1>5 DEF Updated
    <2> QED
      BY <2>1 DEF Conversation
  <1>7. /\ conversations' \in Seq(Conversation) /\ DOMAIN conversations' = DOMAIN conversations
        /\ \A d \in DOMAIN conversations : conversations'[d] = IF d = c THEN x ELSE conversations[d]
    BY <1>1, <1>5, <1>6, RowUpdated
  <1>8. Grows
    BY <1>1, <1>6, <1>7 DEF Grows
  <1>9. StepOf(r, "idle", l)
    BY <1>1, <1>7, <1>8, BelongStays DEF StepOf, StoreInv, OneKeyPerLabel, TablesOK, TypeOK
  <1>10. Did(l)'
    BY <1>1, <1>3, <1>4, <1>5, <1>6, <1>7 DEF Did
  <1>11. ASSUME NEW q \in Requests \ {r}, Done(pc[q], local[q]), local[q].op = l.op PROVE local[q].row # l.row
    BY <1>1, <1>3, <1>4, <1>11 DEF StoreInv, Done
  <1> QED
    BY <1>2, <1>3, <1>9, <1>10, <1>11, ReadyToReturn, StepKeeps

\* soft_delete changes a row once: its event is not written, and no other
\* handler is about to write it.
LEMMA SoftDeleteKeeps ==
  ASSUME StoreInv, NEW r \in Requests, SoftDelete(r)
  PROVE  StoreInv'
  <1>1. CASE ~soft_deletes(local[r].row, local[r].user)
    BY <1>1, LeaveKeeps DEF SoftDelete, tables
  <1>2. CASE soft_deletes(local[r].row, local[r].user)
    <2> PICK l : l = local[r]
      OBVIOUS
    <2>1. /\ pc[r] = "soft_delete" /\ Become(r, "audit", l)
          /\ conversations' = [conversations EXCEPT ![l.row].deleted = TRUE]
          /\ UNCHANGED <<encrypted_messages, public_keys, audit_events>>
      BY <1>2 DEF SoftDelete, Goto
    <2>2. l \in Locals /\ Knows("soft_delete", l)
      BY <2>1, Here
    <2>3. l.row \in DOMAIN conversations /\ conversations[l.row].user = l.user /\ ~conversations[l.row].deleted
      BY <1>2 DEF soft_deletes
    <2>4. ~l.late /\ l.op = "delete_conversation" /\ l.user \in Users /\ l.reply = "none"
      BY <2>2, <2>3 DEF Knows, Stages
    <2>5. /\ conversations' \in Seq(Conversation) /\ Grows
          /\ l.row \in DOMAIN conversations' /\ conversations'[l.row].deleted /\ conversations'[l.row].user = l.user
      <3> PICK x : x = [conversations[l.row] EXCEPT !.deleted = TRUE]
        OBVIOUS
      <3>1. conversations \in Seq(Conversation) /\ conversations[l.row] \in Conversation
        BY <2>3 DEF StoreInv, TypeOK
      <3>2. /\ x \in Conversation /\ x.user = conversations[l.row].user /\ x.deleted
            /\ x.updated = conversations[l.row].updated
        BY <3>1 DEF Conversation, Updated
      <3>3. conversations' = [conversations EXCEPT ![l.row] = x]
        BY <2>1
      <3>4. /\ conversations' \in Seq(Conversation) /\ DOMAIN conversations' = DOMAIN conversations
            /\ \A c \in DOMAIN conversations :
                 conversations'[c] = IF c = l.row THEN x ELSE conversations[c]
        BY <2>3, <3>1, <3>2, <3>3, RowUpdated
      <3> QED
        BY <2>1, <2>3, <3>2, <3>4 DEF Grows
    <2>6. StepOf(r, "audit", l)
      BY <2>1, <2>5, BelongStays DEF StepOf, StoreInv, OneKeyPerLabel, TablesOK, TypeOK
    <2>7. EventOf(l) = [type |-> "conversation.deleted", user |-> l.user, row |-> l.row]
      BY <2>4 DEF EventOf
    <2>8. Knows("audit", l)'
      <3>1. Happened(EventOf(l))'
        BY <2>5, <2>7 DEF Happened
      <3>2. ~BagIn(EventOf(l), audit_events)'
        BY <2>1, <2>3, <2>7 DEF StoreInv, AuditTrailIsTrue, Happened, BagIn
      <3>3. <<l.op, "audit">> \in Stages
        BY <2>4 DEF Stages
      <3>4. Did(l)'
        BY <2>4, <2>5 DEF Did
      <3> QED
        BY <2>4, <3>1, <3>2, <3>3, <3>4 DEF Knows
    <2>9. ASSUME NEW q \in Requests \ {r}, pc[q] = "audit" PROVE EventOf(local[q]) # EventOf(l)
      <3>1. Happened(EventOf(local[q]))
        BY <2>9, Here DEF Knows
      <3> QED
        BY <3>1, <2>3, <2>7 DEF Happened, EventOf
    <2>10. ASSUME NEW q \in Requests \ {r}, Done(pc[q], local[q]), local[q].op = l.op PROVE local[q].row # l.row
      <3>1. Did(local[q])
        BY <2>10, Here DEF Knows
      <3> QED
        BY <2>3, <2>4, <2>10, <3>1 DEF Did
    <2>11. Ready(r, "audit", l)
      BY <2>2, <2>4, <2>8, <2>9, <2>10 DEF Ready, At, Statements, AnswerIsTrue
    <2> QED
      BY <2>6, <2>11, StepKeeps
  <1> QED
    BY <1>1, <1>2

\* The message is in the conversation, and names the key, that was found.
LEMMA InsertMessageKeeps ==
  ASSUME StoreInv, NEW r \in Requests, InsertMessage(r)
  PROVE  StoreInv'
  <1> PICK o : o = local[r]
    OBVIOUS
  <1> PICK n \in Nat : n = Len(encrypted_messages) + 1
    BY DEF StoreInv, TypeOK
  <1> PICK l : l = [o EXCEPT !.row = n]
    OBVIOUS
  <1> DEFINE m == new_message(o)
  <1>1. /\ pc[r] = "insert_message" /\ Become(r, "touch", l)
        /\ encrypted_messages' = Append(encrypted_messages, m)
        /\ UNCHANGED <<conversations, public_keys, audit_events>>
    BY DEF InsertMessage
  <1>2. o \in Locals /\ Knows("insert_message", o) /\ ~o.late
    BY <1>1, Here
  <1>3. o.op = "create_message" /\ o.user \in Users /\ o.reply = "none"
    BY <1>2 DEF Knows, Stages
  <1>4. /\ l \in Locals /\ l.op = "create_message" /\ l.user = o.user /\ l.reply = "none" /\ ~l.late
        /\ l.row = n /\ l.key_id = o.key_id
    BY <1>2, <1>3 DEF Locals
  <1>5. m \in EncryptedMessage /\ m.user = o.user /\ m.key_id = o.key_id
    BY <1>2, <1>3 DEF EncryptedMessage, Locals, new_message
  <1>6. /\ m.conversation \in DOMAIN conversations /\ conversations[m.conversation].user = m.user
        /\ m.key_id # NoRow => m.key_id \in DOMAIN public_keys /\ public_keys[m.key_id].user = m.user
    BY <1>2 DEF Knows, new_message
  <1> HIDE DEF m
  <1>7. encrypted_messages \in Seq(EncryptedMessage) /\ DOMAIN encrypted_messages = 1..n - 1
    BY DEF StoreInv, TypeOK
  <1>8. /\ encrypted_messages' \in Seq(EncryptedMessage) /\ DOMAIN encrypted_messages' = 1..n
        /\ \A i \in DOMAIN encrypted_messages : encrypted_messages'[i] = encrypted_messages[i]
        /\ encrypted_messages'[n] = m
    BY <1>1, <1>5, <1>7
  <1>9. Grows
    BY <1>1, <1>7, <1>8 DEF Grows
  <1>10. MessagesBelong'
    <2>1. \A i \in DOMAIN encrypted_messages' : i \in DOMAIN encrypted_messages \/ i = n
      BY <1>7, <1>8
    <2> QED
      BY <1>1, <1>6, <1>8, <2>1 DEF StoreInv, MessagesBelong
  <1>11. StepOf(r, "touch", l)
    BY <1>1, <1>8, <1>9, <1>10 DEF StepOf, StoreInv, OneKeyPerLabel, TablesOK, TypeOK
  <1>12. Did(l)'
    BY <1>4, <1>5, <1>8 DEF Did
  <1>13. Knows("touch", l)'
    BY <1>3, <1>4, <1>12 DEF Knows, Stages
  <1>14. ASSUME NEW q \in Requests \ {r}, Done(pc[q], local[q]), local[q].op = l.op PROVE local[q].row # l.row
    <2>1. Did(local[q])
      BY <1>14, Here DEF Knows
    <2> QED
      BY <1>4, <1>7, <1>14, <2>1 DEF Did
  <1>15. Ready(r, "touch", l)
    BY <1>4, <1>13, <1>14 DEF Ready, At, Statements, AnswerIsTrue
  <1> QED
    BY <1>11, <1>15, StepKeeps

\* delete_owned.
LEMMA DeleteOwnedKeeps ==
  ASSUME StoreInv, NEW r \in Requests, DeleteOwned(r)
  PROVE  StoreInv'
  <1>1. CASE ~deletes_owned(local[r].row, local[r].user)
    BY <1>1, LeaveKeeps DEF DeleteOwned, tables
  <1>2. CASE deletes_owned(local[r].row, local[r].user)
    <2> PICK l : l = [local[r] EXCEPT !.reply = "ok"]
      OBVIOUS
    <2> PICK m : m = local[r].row
      OBVIOUS
    <2> PICK x : x = [encrypted_messages[m] EXCEPT !.gone = TRUE]
      OBVIOUS
    <2>1. /\ pc[r] = "delete_owned" /\ Become(r, "idle", l)
          /\ encrypted_messages' = [encrypted_messages EXCEPT ![m] = x]
          /\ UNCHANGED <<conversations, public_keys, audit_events>>
      BY <1>2 DEF DeleteOwned, Return
    <2>2. Knows("delete_owned", local[r]) /\ ~local[r].late
      BY <2>1, Here
    <2>3. /\ local[r].op = "delete_message" /\ l.op = "delete_message"
          /\ l.row = m /\ l.user = local[r].user
      BY <2>2, Here DEF Knows, Stages, Locals
    <2>4. encrypted_messages \in Seq(EncryptedMessage) /\ m \in DOMAIN encrypted_messages
      BY <1>2 DEF StoreInv, TypeOK, deletes_owned
    <2>5. /\ encrypted_messages[m] \in EncryptedMessage
          /\ encrypted_messages[m].user = local[r].user /\ ~encrypted_messages[m].gone
      BY <1>2, <2>4 DEF deletes_owned
    <2>6. /\ x \in EncryptedMessage /\ x.gone /\ x.conversation = encrypted_messages[m].conversation
          /\ x.user = encrypted_messages[m].user /\ x.key_id = encrypted_messages[m].key_id
      BY <2>5 DEF EncryptedMessage
    <2>7. /\ encrypted_messages' \in Seq(EncryptedMessage)
          /\ DOMAIN encrypted_messages' = DOMAIN encrypted_messages
          /\ \A j \in DOMAIN encrypted_messages :
               encrypted_messages'[j] = IF j = m THEN x ELSE encrypted_messages[j]
      BY <2>1, <2>4, <2>6, RowUpdated
    <2>8. MessagesBelong'
      BY <2>1, <2>4, <2>6, <2>7 DEF StoreInv, MessagesBelong
    <2>9. Grows
      BY <2>1, <2>4, <2>6, <2>7 DEF Grows
    <2>10. StepOf(r, "idle", l)
      BY <2>1, <2>7, <2>8, <2>9 DEF StepOf, StoreInv, OneKeyPerLabel, TablesOK, TypeOK
    <2>11. Did(l)'
      BY <2>3, <2>4, <2>5, <2>6, <2>7 DEF Did
    <2>12. ASSUME NEW q \in Requests \ {r}, Done(pc[q], local[q]), local[q].op = l.op PROVE local[q].row # l.row
      <3>1. Did(local[q])
        BY <2>12, Here DEF Knows
      <3> QED
        BY <2>3, <2>5, <2>12, <3>1 DEF Did
    <2> QED
      BY <2>2, <2>3, <2>10, <2>11, <2>12, ReadyToReturn, StepKeeps
  <1> QED
    BY <1>1, <1>2

\* The UNIQUE constraint: a conflict, or a key whose label was free.
LEMMA InsertKeyKeeps ==
  ASSUME StoreInv, NEW r \in Requests, InsertKey(r)
  PROVE  StoreInv'
  <1>1. /\ pc[r] = "insert_key" /\ local[r] \in Locals /\ Knows("insert_key", local[r]) /\ ~local[r].late
    BY Here DEF InsertKey
  <1>2. /\ local[r].op = "upload_key" /\ local[r].user \in Users /\ local[r].reply = "none"
        /\ local[r].label \in Labels
    BY <1>1 DEF Knows, Stages
  <1>3. CASE label_taken(local[r].user, local[r].label)
    <2> PICK l : l = [local[r] EXCEPT !.reply = "conflict"]
      OBVIOUS
    <2>1. Become(r, "idle", l) /\ UNCHANGED <<tables, audit_events>>
      BY <1>3 DEF InsertKey, Return, tables
    <2>2. /\ l \in Locals /\ ~l.late /\ l.reply = "conflict"
          /\ l.user = local[r].user /\ l.label = local[r].label
      BY <1>1 DEF Locals
    <2>3. Knows("idle", l)' /\ AnswerIsTrue(l)'
      BY <1>3, <2>1, <2>2 DEF Knows, AnswerIsTrue, KeyOf, label_taken, tables, Done
    <2>4. Ready(r, "idle", l)
      BY <2>2, <2>3 DEF Ready, At, Done
    <2> QED
      BY <2>1, <2>4, Reads, StepKeeps
  <1>4. CASE ~label_taken(local[r].user, local[r].label)
    <2> PICK n \in Nat : n = Len(public_keys) + 1
      BY DEF StoreInv, TypeOK
    <2> PICK l : l = [local[r] EXCEPT !.row = n]
      OBVIOUS
    <2>1. /\ Become(r, "audit", l) /\ UNCHANGED <<conversations, encrypted_messages, audit_events>>
          /\ public_keys' = Append(public_keys, KeyOf(local[r]))
      BY <1>4 DEF InsertKey, KeyOf
    <2>2. /\ l \in Locals /\ l.row = n /\ ~l.late /\ l.reply = "none" /\ l.op = "upload_key"
          /\ l.user = local[r].user /\ l.label = local[r].label
      BY <1>1, <1>2 DEF Locals
    <2>3. KeyOf(l) = KeyOf(local[r]) /\ KeyOf(l) \in PublicKey /\ KeyOf(l).user = l.user
      BY <1>2, <2>2 DEF KeyOf, PublicKey
    <2>4. public_keys \in Seq(PublicKey) /\ DOMAIN public_keys = 1..n - 1
      BY DEF StoreInv, TypeOK
    <2>5. /\ public_keys' \in Seq(PublicKey) /\ DOMAIN public_keys' = 1..n
          /\ \A k \in DOMAIN public_keys : public_keys'[k] = public_keys[k]
          /\ public_keys'[n] = KeyOf(l)
      BY <2>1, <2>3, <2>4
    <2>6. \A k \in DOMAIN public_keys : public_keys[k] # KeyOf(l)
      BY <1>4, <2>3 DEF label_taken, KeyOf
    <2>7. \A j, k \in DOMAIN public_keys' : public_keys'[j] = public_keys'[k] => j = k
      BY <2>4, <2>5, <2>6 DEF StoreInv, OneKeyPerLabel
    <2>8. Grows
      BY <2>1, <2>4, <2>5 DEF Grows
    <2>9. StepOf(r, "audit", l)
      BY <2>1, <2>5, <2>7, <2>8, BelongStays DEF StepOf, StoreInv, TablesOK, TypeOK
    <2>10. EventOf(l) = [type |-> "key.uploaded", user |-> l.user, row |-> n]
      BY <2>2 DEF EventOf
    <2>11. Knows("audit", l)'
      <3>1. Happened(EventOf(l))'
        BY <2>3, <2>5, <2>10 DEF Happened
      <3>2. ~BagIn(EventOf(l), audit_events)'
        BY <2>1, <2>4, <2>10 DEF StoreInv, AuditTrailIsTrue, Happened, BagIn
      <3>3. <<l.op, "audit">> \in Stages
        BY <2>2 DEF Stages
      <3>4. public_keys'[l.row] = KeyOf(l)
        BY <2>2, <2>5
      <3>5. Did(l)'
        BY <2>2, <2>5 DEF Did
      <3> QED
        BY <1>2, <2>2, <3>1, <3>2, <3>3, <3>4, <3>5 DEF Knows, KeyOf
    <2>12. ASSUME NEW q \in Requests \ {r}, pc[q] = "audit" PROVE EventOf(local[q]) # EventOf(l)
      <3>1. Happened(EventOf(local[q]))
        BY <2>12, Here DEF Knows
      <3> QED
        BY <3>1, <2>4, <2>10 DEF Happened, EventOf
    <2>13. ASSUME NEW q \in Requests \ {r}, Done(pc[q], local[q]), local[q].op = l.op PROVE local[q].row # l.row
      <3>1. Did(local[q])
        BY <2>13, Here DEF Knows
      <3> QED
        BY <2>2, <2>4, <2>13, <3>1 DEF Did
    <2>14. Ready(r, "audit", l)
      BY <2>2, <2>11, <2>12, <2>13 DEF Ready, At, Statements, AnswerIsTrue
    <2> QED
      BY <2>9, <2>14, StepKeeps
  <1> QED
    BY <1>3, <1>4

\* audit::record, whether or not it writes its event.
LEMMA AuditKeeps ==
  ASSUME StoreInv, NEW r \in Requests, NEW type, Audit(r, type),
         pc[r] = "audit", type = EventOf(local[r]).type
  PROVE  StoreInv'
  <1> PICK l : l = [local[r] EXCEPT !.reply = "ok"]
    OBVIOUS
  <1> PICK e : e = EventOf(local[r])
    OBVIOUS
  <1>1. /\ Become(r, "idle", l) /\ UNCHANGED tables
        /\ audit_events' = audit_events \/ audit_events' = audit_events (+) SetToBag({e})
    BY DEF Audit, Return, EventOf
  <1>2. local[r] \in Locals /\ Knows("audit", local[r]) /\ ~local[r].late
    BY Here
  <1>3. /\ l \in Locals /\ ~l.late /\ KeyOf(l) = KeyOf(local[r]) /\ l.reply = "ok"
        /\ l.row = local[r].row /\ l.op = local[r].op /\ l.user = local[r].user /\ l.key_id = local[r].key_id
    BY <1>2 DEF Locals, KeyOf
  <1>4. Happened(e) /\ ~BagIn(e, audit_events)
    BY <1>2 DEF Knows
  <1>5. Knows("idle", l)' /\ AnswerIsTrue(l)'
    <2>1. l.op = "upload_key" => l.row \in DOMAIN public_keys /\ public_keys[l.row] = KeyOf(l)
      BY <1>2, <1>3 DEF Knows, Happened, EventOf
    <2>2. Did(local[r])
      BY <1>2 DEF Knows, Done
    <2>3. Did(l)'
      <3>1. l.op # "create_message"
        BY <1>2, <1>3 DEF Knows, Stages
      <3> QED
        BY <1>1, <1>3, <2>2, <3>1 DEF Did, tables
    <2> QED
      BY <1>1, <1>3, <2>1, <2>3 DEF Knows, AnswerIsTrue, KeyOf, tables
  <1>6. ASSUME NEW q \in Requests \ {r}, Done(pc[q], local[q]), local[q].op = l.op PROVE local[q].row # l.row
    BY <1>3, <1>6 DEF StoreInv, Done
  <1>7. CASE audit_events' = audit_events
    <2>1. Ready(r, "idle", l)
      BY <1>3, <1>5, <1>6 DEF Ready, At
    <2> QED
      BY <1>1, <1>7, <2>1, Reads, StepKeeps
  <1>8. CASE audit_events' = audit_events (+) SetToBag({e})
    <2>1. /\ pc' = [q \in Requests |-> IF q = r THEN "idle" ELSE pc[q]]
          /\ local' = [q \in Requests |-> IF q = r THEN l ELSE local[q]]
      BY <1>1, Becomes DEF StoreInv
    <2>2. Grows /\ TablesOK' /\ MessagesBelong'
      BY <1>1 DEF Grows, tables, StoreInv, TypeOK, TablesOK, MessagesBelong
    <2>3. e \in AuditEvent
      BY <1>2 DEF EventOf, AuditEvent, Knows, Locals
    <2>4. /\ IsABag(audit_events') /\ BagToSet(audit_events') = BagToSet(audit_events) \cup {e}
          /\ audit_events'[e] = 1
          /\ \A d \in BagToSet(audit_events) : audit_events'[d] = audit_events[d]
      <3> PICK B, C : B = audit_events /\ C = audit_events'
        OBVIOUS
      <3>1. IsABag(B) /\ ~BagIn(e, B) /\ C = B (+) SetToBag({e})
        BY <1>4, <1>8, Zenon DEF StoreInv, TypeOK
      <3>2. /\ IsABag(C) /\ BagToSet(C) = BagToSet(B) \cup {e}
            /\ C[e] = 1 /\ \A d \in BagToSet(B) : C[d] = B[d]
        BY ONLY <3>1 DEF IsABag, BagIn, BagToSet, SetToBag, (+)
      <3> QED
        BY <3>2
    <2>5. TypeOK'
      BY <1>3, <2>1, <2>2, <2>3, <2>4 DEF StoreInv, TypeOK, TablesOK, IsABag, BagToSet
    <2>6. DeletedIsClosed'
      BY <1>3, <2>1 DEF StoreInv, DeletedIsClosed
    <2>7. AuditTrailIsTrue'
      <3>1. ASSUME NEW d \in BagToSet(audit_events') PROVE Happened(d)' /\ audit_events'[d] = 1
        <4>1. Happened(d) /\ audit_events'[d] = 1
          BY <1>4, <2>4 DEF StoreInv, AuditTrailIsTrue
        <4> QED
          BY <2>2, <4>1, HappenedStays
      <3> QED
        BY <3>1 DEF AuditTrailIsTrue, BagToSet, BagIn
    <2>8. OneKeyPerLabel'
      BY <1>1, <1>5, <2>1 DEF StoreInv, OneKeyPerLabel, AnswerIsTrue, KeyOf, tables
    <2>9. ASSUME NEW q \in Requests PROVE Knows(pc[q], local[q])'
      <3>1. CASE q = r
        BY <1>5, <2>1, <3>1 DEF Knows, Done, Did
      <3>2. CASE q # r
        <4> PICK m : m = local[q]
          OBVIOUS
        <4> PICK at : at = pc[q]
          OBVIOUS
        <4>1. at = "audit" => EventOf(m) # e
          BY <3>2 DEF StoreInv
        <4>2. Knows(at, m)
          BY DEF StoreInv
        <4>3. at = "audit" => ~BagIn(EventOf(m), audit_events')
          BY <2>4, <4>1, <4>2 DEF Knows, BagIn
        <4>4. Knows(at, m)'
          BY <2>2, <4>2, <4>3, KnowsStays DEF StoreInv
        <4>5. pc'[q] = at /\ local'[q] = m
          BY <2>1, <3>2
        <4> QED
          BY <4>4, <4>5 DEF Knows, Done, Did
      <3> QED
        BY <3>1, <3>2
    <2>10. \A p, q \in Requests :
             p # q /\ pc'[p] = "audit" /\ pc'[q] = "audit" => EventOf(local'[p]) # EventOf(local'[q])
      BY <2>1 DEF StoreInv
    <2>11. ASSUME NEW p \in Requests, NEW q \in Requests, p # q, local'[p].op = local'[q].op,
                  Done(pc'[p], local'[p]), Done(pc'[q], local'[q])
           PROVE  local'[p].row # local'[q].row
      BY <1>6, <2>1, <2>11 DEF StoreInv
    <2> QED
      BY <2>2, <2>5, <2>6, <2>7, <2>8, <2>9, <2>10, <2>11 DEF StoreInv, EventOf, Done
  <1> QED
    BY <1>1, <1>7, <1>8

-----------------------------------------------------------------------------
(* Theorems.                                                               *)

\* Every step of every handler keeps the invariant.
LEMMA HandlerKeeps ==
  ASSUME StoreInv, NEW r \in Requests, Handler(r)
  PROVE  StoreInv'
  <1>1. CASE Fault(r)
    BY <1>1, LeaveKeeps DEF Fault
  <1>2. CASE RecordCreated(r)
    BY <1>2, AuditKeeps DEF RecordCreated, EventOf
  <1>3. CASE RecordDeleted(r)
    BY <1>3, AuditKeeps DEF RecordDeleted, EventOf
  <1>4. CASE RecordUploaded(r)
    BY <1>4, AuditKeeps DEF RecordUploaded, EventOf
  <1>5. CASE Select(r)
    BY <1>5, LeaveKeeps DEF Select
  <1> QED
    BY <1>1, <1>2, <1>3, <1>4, <1>5, InsertConversationKeeps, UpdateKeeps, SoftDeleteKeeps, AssertOwnedKeeps,
       CheckKeyKeeps, InsertMessageKeeps, TouchKeeps, DeleteOwnedKeeps, InsertKeyKeeps DEF Handler

\* The invariant of the handlers of conversations, messages and keys, with its
\* parts, holds however many requests of however many users interleave and
\* wherever they are cut short.
THEOREM StoreInvariance == Spec => []StoreInv
  <1>1. Init => StoreInv
    <2> SUFFICES ASSUME Init PROVE StoreInv
      OBVIOUS
    <2>1. TypeOK
      <3>1. NoLocals \in Locals
        BY DEF NoLocals, Locals, NoRow
      <3> QED
        BY <3>1 DEF Init, TypeOK, Statements, EmptyBag, SetToBag, IsABag, BagToSet
    <2>2. MessagesBelong /\ DeletedIsClosed /\ AuditTrailIsTrue
      BY DEF Init, MessagesBelong, DeletedIsClosed, AuditTrailIsTrue, NoLocals, EmptyBag, SetToBag, BagToSet
    <2>3. OneKeyPerLabel
      BY DEF Init, OneKeyPerLabel, AnswerIsTrue, NoLocals
    <2>4. \A r \in Requests : Knows(pc[r], local[r]) /\ pc[r] # "audit" /\ ~Done(pc[r], local[r])
      BY DEF Init, Knows, NoLocals, Done
    <2> QED
      BY <2>1, <2>2, <2>3, <2>4 DEF StoreInv
  <1>2. StoreInv /\ [Next]_vars => StoreInv'
    <2>1. ASSUME StoreInv, UNCHANGED vars PROVE StoreInv'
      <3>1. TypeOK'
        BY <2>1 DEF vars, tables, StoreInv, TypeOK
      <3>2. MessagesBelong' /\ DeletedIsClosed'
        BY <2>1 DEF vars, tables, StoreInv, MessagesBelong, DeletedIsClosed
      <3>3. AuditTrailIsTrue'
        BY <2>1 DEF vars, tables, StoreInv, AuditTrailIsTrue, Happened
      <3>4. OneKeyPerLabel'
        BY <2>1 DEF vars, tables, StoreInv, OneKeyPerLabel, AnswerIsTrue, KeyOf
      <3>5. (\A r \in Requests : Knows(pc[r], local[r]))'
        <4>1. /\ conversations' = conversations /\ encrypted_messages' = encrypted_messages
              /\ public_keys' = public_keys /\ audit_events' = audit_events /\ pc' = pc /\ local' = local
          BY <2>1 DEF vars, tables
        <4>2. \A r \in Requests : Knows(pc[r], local[r])
          BY <2>1 DEF StoreInv
        <4>3. ASSUME NEW at, NEW l, Knows(at, l) PROVE Knows(at, l)'
          <5>1. Did(l) => Did(l)'
            BY ONLY <4>1 DEF Did
          <5>2. Happened(EventOf(l)) => Happened(EventOf(l))'
            BY ONLY <4>1 DEF Happened, EventOf
          <5> QED
            BY ONLY <4>1, <4>3, <5>1, <5>2 DEF Knows, Done, EventOf, KeyOf
        <4>4. ASSUME NEW r \in Requests PROVE Knows(pc[r], local[r])'
          <5>1. PICK at, l : at = pc[r] /\ l = local[r]
            OBVIOUS
          <5>2. Knows(at, l)
            BY <4>2, <5>1
          <5>3. Knows(at, l)'
            BY <4>3, <5>2
          <5>4. pc'[r] = at /\ local'[r] = l
            BY <4>1, <5>1
          <5> QED
            BY ONLY <5>3, <5>4, Zenon DEF Knows, Happened, Did
        <4> QED
          BY <4>4
      <3>6. (\A q, r \in Requests :
               q # r /\ pc[q] = "audit" /\ pc[r] = "audit" => EventOf(local[q]) # EventOf(local[r]))'
        BY <2>1 DEF vars, tables, StoreInv
      <3>7. (\A q, r \in Requests :
               q # r /\ Done(pc[q], local[q]) /\ Done(pc[r], local[r]) /\ local[q].op = local[r].op
                 => local[q].row # local[r].row)'
        BY <2>1 DEF vars, tables, StoreInv
      <3> QED
        BY <3>1, <3>2, <3>3, <3>4, <3>5, <3>6, <3>7 DEF StoreInv
    <2> QED
      BY <2>1, HandlerKeeps, RequestKeeps DEF Next
  <1> QED
    BY <1>1, <1>2, PTL DEF Spec

\* A message is in a conversation of its own user and names one of that user's
\* keys: the two lookups of create, made in statements of their own, suffice.
THEOREM MessagesAlwaysBelong == Spec => []MessagesBelong
  <1>1. StoreInv => MessagesBelong
    BY DEF StoreInv
  <1> QED
    BY <1>1, StoreInvariance, PTL

\* A request accepted after the deletion of its conversation gets nowhere.
THEOREM DeletedStaysClosed == Spec => []DeletedIsClosed
  <1>1. StoreInv => DeletedIsClosed
    BY DEF StoreInv
  <1> QED
    BY <1>1, StoreInvariance, PTL

\* The audit trail tells what happened, and tells it once.
THEOREM AuditTrailStaysTrue == Spec => []AuditTrailIsTrue
  <1>1. StoreInv => AuditTrailIsTrue
    BY DEF StoreInv
  <1> QED
    BY <1>1, StoreInvariance, PTL

\* A label names one key of its user, and the answers to uploads are true.
THEOREM LabelsStayUnique == Spec => []OneKeyPerLabel
  <1>1. StoreInv => OneKeyPerLabel
    BY DEF StoreInv
  <1> QED
    BY <1>1, StoreInvariance, PTL

\* Whatever is acknowledged is in the tables and stays there, and every
\* acknowledgement of a create or a delete has a row of its own.
THEOREM AnswersStayTrue == Spec => []AnswersAreTrue
  <1>1. StoreInv => AnswersAreTrue
    <2> SUFFICES ASSUME StoreInv PROVE AnswersAreTrue
      OBVIOUS
    <2>1. ASSUME NEW r \in Requests, local[r].reply = "ok" PROVE Did(local[r])
      <3>1. CASE local[r].op \in Once
        BY <2>1, <3>1 DEF StoreInv, Knows, Done
      <3>2. CASE local[r].op \notin Once
        BY <3>2 DEF Did, Once
      <3> QED
        BY <3>1, <3>2
    <2> QED
      BY <2>1 DEF StoreInv, AnswersAreTrue, Done
  <1> QED
    BY <1>1, StoreInvariance, PTL

\* A deleted conversation is final: an update or a deletion that was accepted
\* before finds no row, and touch, which does, leaves the title and deleted_at alone
\* and belongs to a request that had found the conversation.
THEOREM DeletionIsFinal == Spec => DeletedIsFinal
  <1> DEFINE Final(c) ==
        /\ conversations'[c] = [conversations[c] EXCEPT !.updated = conversations'[c].updated]
        /\ conversations'[c] # conversations[c] => \E r \in Requests : Touches(r, c)
  <1>1. ASSUME StoreInv, [Next]_vars, NEW c \in DOMAIN conversations, conversations[c].deleted
        PROVE  Final(c)
    <2>1. conversations \in Seq(Conversation) /\ conversations[c] \in Conversation
      BY <1>1 DEF StoreInv, TypeOK
    <2>2. conversations'[c] = conversations[c] => Final(c)
      BY <2>1 DEF Conversation
    <2>3. ASSUME NEW r \in Requests, InsertConversation(r) PROVE conversations'[c] = conversations[c]
      BY <2>1, <2>3 DEF InsertConversation
    <2>4. ASSUME NEW r \in Requests, Update(r) PROVE conversations'[c] = conversations[c]
      BY <1>1, <2>1, <2>4 DEF Update, updates
    <2>5. ASSUME NEW r \in Requests, SoftDelete(r) PROVE conversations'[c] = conversations[c]
      BY <1>1, <2>1, <2>5 DEF SoftDelete, soft_deletes
    <2>6. ASSUME NEW r \in Requests, Touch(r) PROVE Final(c)
      <3> PICK d : d = encrypted_messages[local[r].row].conversation
        OBVIOUS
      <3> PICK v : v = IF conversations[d].deleted THEN "deleted" ELSE "open"
        OBVIOUS
      <3>1. conversations' = [conversations EXCEPT ![d].updated = v] /\ pc[r] = "touch"
        BY <2>6 DEF Touch
      <3>2. CASE d # c
        BY <2>1, <2>2, <3>1, <3>2
      <3>3. CASE d = c
        <4>1. conversations'[c] = [conversations[c] EXCEPT !.updated = v]
          BY <1>1, <3>1, <3>3
        <4>2. conversations'[c].updated = v
          BY <2>1, <4>1 DEF Conversation
        <4>3. Touches(r, c)
          BY <1>1, <3>1, <3>3, Here DEF Touches
        <4> QED
          BY <4>1, <4>2, <4>3
      <3> QED
        BY <3>2, <3>3
    <2>7. ASSUME NEW r \in Requests, NEW u \in Users, Request(r, u) PROVE conversations' = conversations
      BY <2>7 DEF Request, CreateConversation, UpdateConversation, DeleteConversation, ListMessages,
         CreateMessage, DeleteMessage, Upload, Accept, tables
    <2>8. ASSUME NEW r \in Requests, Handler(r)
          PROVE  \/ conversations' = conversations
                 \/ InsertConversation(r) \/ Update(r) \/ SoftDelete(r) \/ Touch(r)
      BY <2>8 DEF Handler, RecordCreated, RecordDeleted, RecordUploaded, Audit, AssertOwned, CheckKey,
         InsertMessage, Select, DeleteOwned, InsertKey, Fault, tables
    <2>9. conversations' = conversations => Final(c)
      BY <2>2
    <2> HIDE DEF Final
    <2> QED
      BY <1>1, <2>2, <2>3, <2>4, <2>5, <2>6, <2>7, <2>8, <2>9 DEF Next, vars, tables
  <1>2. StoreInv /\ [Next]_vars =>
          [\A c \in DOMAIN conversations : conversations[c].deleted => Final(c)]_vars
    BY <1>1
  <1> QED
    BY <1>2, StoreInvariance, PTL DEF Spec, DeletedIsFinal
=============================================================================
