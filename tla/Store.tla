------------------------------- MODULE Store -------------------------------
(***************************************************************************)
(* Conversations, encrypted messages and public keys: services and         *)
(* repositories conversations.rs, messages.rs and keys.rs, for requests    *)
(* that have been authenticated and whose input is well formed.            *)
(*                                                                         *)
(* A handler is a sequence of awaited statements, each a transaction of its*)
(* own.  Handlers interleave between them, and any of them may end at an   *)
(* await: the statement fails, or the router's TimeoutLayer or the client  *)
(* drops the handler.  Of updated_at the model keeps when it was last set. *)
(* Ciphertexts and the other timestamps are left out, and so are the two   *)
(* listings that are a single SELECT.                                      *)
(***************************************************************************)
EXTENDS Integers, Sequences, Bags

CONSTANTS
  Requests,  \* handlers that may run at once
  Users,     \* authenticated callers
  Labels,    \* labels of public keys
  MaxTable,  \* bound: rows of a table
  MaxRows    \* bound: rows of the three tables together

ASSUME StoreAssumption == MaxTable \in Nat /\ MaxRows \in Nat

VARIABLES
  conversations,       \* the tables; a row's id is its place
  encrypted_messages,
  public_keys,
  audit_events,        \* a bag of events: nothing reads them, so their order is left out
  pc,                  \* the statement each handler awaits next
  local                \* its locals

tables == <<conversations, encrypted_messages, public_keys>>
vars == <<tables, audit_events, pc, local>>

NoRow == 0
Titles == {"given", "changed"}
\* When updated_at was last set: by the INSERT, later, or on a deleted row.
Updated == {"inserted", "open", "deleted"}
Conversation == [user: Users, title: Titles, updated: Updated, deleted: BOOLEAN]
EncryptedMessage == [conversation: Nat, user: Users, key_id: Nat, gone: BOOLEAN]
PublicKey == [user: Users, label: Labels]
AuditEvent == [type: {"conversation.created", "conversation.deleted", "key.uploaded"},
               user: Users, row: Nat]

\* row is the conversation or message that the request names and, from its
\* INSERT on, the row that the handler inserted.  late is not program state: the conversation was
\* already deleted when the request was accepted.
NoLocals == [op |-> "none", user |-> "none", row |-> NoRow, key_id |-> NoRow,
             label |-> "none", late |-> FALSE, reply |-> "none"]
Locals == [op: {"none", "create_conversation", "update_conversation", "delete_conversation",
                "create_message", "list_messages", "delete_message", "upload_key"},
           user: Users \cup {"none"}, row: Nat, key_id: Nat, label: Labels \cup {"none"},
           late: BOOLEAN, reply: {"none", "ok", "conflict"}]
Statements == {"insert_conversation", "update", "soft_delete", "find_owned", "belongs_to_user",
               "insert_message", "touch", "select", "delete_owned", "insert_key", "audit"}

Init ==
  /\ conversations = <<>> /\ encrypted_messages = <<>> /\ public_keys = <<>>
  /\ audit_events = EmptyBag
  /\ pc = [r \in Requests |-> "idle"]
  /\ local = [r \in Requests |-> NoLocals]

\* What an INSERT needs in an instance.
Room(table) ==
  /\ Len(table) < MaxTable
  /\ Len(conversations) + Len(encrypted_messages) + Len(public_keys) < MaxRows

-----------------------------------------------------------------------------
(* Steps of a handler.                                                     *)

Become(r, to, l) ==
  /\ pc' = [pc EXCEPT ![r] = to]
  /\ local' = [local EXCEPT ![r] = l]

Goto(r, to) == Become(r, to, local[r])

\* What a create, a delete or a conflict says is kept until the next request.
Return(r, reply) == Become(r, "idle", [local[r] EXCEPT !.reply = reply])

\* Not found, invalid or an error, which say nothing of the tables, or what an
\* update or a page showed, which the next write outdates.
Leave(r) == Become(r, "idle", NoLocals)

\* The first statement of a handler.
Accept(r, first, l) ==
  /\ pc[r] = "idle"
  /\ Become(r, first, l)
  /\ UNCHANGED <<tables, audit_events>>

\* A request of u about conversation c, which may be anybody's or no row.
About(op, u, c) ==
  [NoLocals EXCEPT !.op = op, !.user = u, !.row = c,
                   !.late = c \in DOMAIN conversations /\ conversations[c].deleted]

\* The handler ends at its await with an error or no answer.  The client may
\* repeat the request, like any other.
Fault(r) ==
  /\ pc[r] \in Statements
  /\ Leave(r)
  /\ UNCHANGED <<tables, audit_events>>

\* audit::record logs a failure and goes on.
Audit(r, type) ==
  /\ \/ audit_events' = audit_events (+)
            SetToBag({[type |-> type, user |-> local[r].user, row |-> local[r].row]})
     \/ UNCHANGED audit_events
  /\ Return(r, "ok")
  /\ UNCHANGED tables

-----------------------------------------------------------------------------
(* The statements' conditions.                                             *)

\* Faulty: without "AND deleted_at IS NULL".
live_or_deleted(c, u) == c \in DOMAIN conversations /\ conversations[c].user = u

\* WHERE id = $1 AND user_id = $2 AND deleted_at IS NULL, in update.
updates(c, u) ==
  c \in DOMAIN conversations /\ conversations[c].user = u /\ ~conversations[c].deleted

\* The same in soft_delete, which reports whether it changed a row.
soft_deletes(c, u) ==
  c \in DOMAIN conversations /\ conversations[c].user = u /\ ~conversations[c].deleted

\* The same in find_owned.
find_owned(c, u) ==
  c \in DOMAIN conversations /\ conversations[c].user = u /\ ~conversations[c].deleted

\* Faulty: the foreign key alone, which any user's key satisfies.
belongs_to_anyone(k, u) == k \in DOMAIN public_keys

\* (Nothing sets revoked_at.)
belongs_to_user(k, u) == k \in DOMAIN public_keys /\ public_keys[k].user = u

\* Faulty: without the UNIQUE constraint.
never_taken(u, label) == FALSE

\* UNIQUE (user_id, label)
label_taken(u, label) ==
  \E k \in DOMAIN public_keys : public_keys[k] = [user |-> u, label |-> label]

-----------------------------------------------------------------------------
(* services/conversations.rs                                               *)

CreateConversation(r, u) ==
  Accept(r, "insert_conversation", [NoLocals EXCEPT !.op = "create_conversation", !.user = u])

InsertConversation(r) ==
  /\ pc[r] = "insert_conversation" /\ Room(conversations)
  /\ conversations' = Append(conversations, [user |-> local[r].user, title |-> "given",
                                              updated |-> "inserted", deleted |-> FALSE])
  /\ Become(r, "audit", [local[r] EXCEPT !.row = Len(conversations) + 1])
  /\ UNCHANGED <<encrypted_messages, public_keys, audit_events>>

RecordCreated(r) ==
  /\ pc[r] = "audit" /\ local[r].op = "create_conversation"
  /\ Audit(r, "conversation.created")

UpdateConversation(r, u, c) == Accept(r, "update", About("update_conversation", u, c))

Update(r) ==
  /\ pc[r] = "update"
  /\ conversations' = IF updates(local[r].row, local[r].user)
                      THEN [conversations EXCEPT ![local[r].row].title = "changed",
                                                 ![local[r].row].updated = "open"]
                      ELSE conversations
  /\ Leave(r)
  /\ UNCHANGED <<encrypted_messages, public_keys, audit_events>>

DeleteConversation(r, u, c) == Accept(r, "soft_delete", About("delete_conversation", u, c))

SoftDelete(r) ==
  /\ pc[r] = "soft_delete"
  /\ IF soft_deletes(local[r].row, local[r].user)
     THEN conversations' = [conversations EXCEPT ![local[r].row].deleted = TRUE] /\ Goto(r, "audit")
     ELSE UNCHANGED conversations /\ Leave(r)
  /\ UNCHANGED <<encrypted_messages, public_keys, audit_events>>

RecordDeleted(r) ==
  /\ pc[r] = "audit" /\ local[r].op = "delete_conversation"
  /\ Audit(r, "conversation.deleted")
-----------------------------------------------------------------------------
(* services/messages.rs                                                    *)

CreateMessage(r, u, c, k) ==
  Accept(r, "find_owned", [About("create_message", u, c) EXCEPT !.key_id = k])

ListMessages(r, u, c) == Accept(r, "find_owned", About("list_messages", u, c))

\* assert_owned, and for a new message the validation that follows it.
AssertOwned(r) ==
  /\ pc[r] = "find_owned"
  /\ IF ~find_owned(local[r].row, local[r].user) THEN Leave(r)
     ELSE IF local[r].op = "list_messages" THEN Goto(r, "select")
     ELSE \/ Leave(r)
          \/ Goto(r, IF local[r].key_id = NoRow THEN "insert_message" ELSE "belongs_to_user")
  /\ UNCHANGED <<tables, audit_events>>

CheckKey(r) ==
  /\ pc[r] = "belongs_to_user"
  /\ IF belongs_to_user(local[r].key_id, local[r].user) THEN Goto(r, "insert_message")
                                                       ELSE Leave(r)
  /\ UNCHANGED <<tables, audit_events>>

new_message(l) == [conversation |-> l.row, user |-> l.user, key_id |-> l.key_id, gone |-> FALSE]

\* Faulty: a message like one that is stored is taken for its retry.
InsertMessageOnce(r) ==
  LET m == new_message(local[r])
      same == {i \in DOMAIN encrypted_messages : encrypted_messages[i] = m}
  IN /\ pc[r] = "insert_message" /\ Room(encrypted_messages)
     /\ encrypted_messages' = IF same = {} THEN Append(encrypted_messages, m) ELSE encrypted_messages
     /\ \E i \in (IF same = {} THEN {Len(encrypted_messages) + 1} ELSE same) :
          Become(r, "touch", [local[r] EXCEPT !.row = i])
     /\ UNCHANGED <<conversations, public_keys, audit_events>>

InsertMessage(r) ==
  /\ pc[r] = "insert_message" /\ Room(encrypted_messages)
  /\ encrypted_messages' = Append(encrypted_messages, new_message(local[r]))
  /\ Become(r, "touch", [local[r] EXCEPT !.row = Len(encrypted_messages) + 1])
  /\ UNCHANGED <<conversations, public_keys, audit_events>>

\* WHERE id = $1: of a deleted conversation too.
Touch(r) ==
  LET c == encrypted_messages[local[r].row].conversation IN
  /\ pc[r] = "touch"
  /\ conversations' =
       [conversations EXCEPT ![c].updated = IF conversations[c].deleted THEN "deleted" ELSE "open"]
  /\ Return(r, "ok")
  /\ UNCHANGED <<encrypted_messages, public_keys, audit_events>>

\* list_for_conversation
Select(r) ==
  /\ pc[r] = "select"
  /\ Leave(r)
  /\ UNCHANGED <<tables, audit_events>>

DeleteMessage(r, u, m) ==
  Accept(r, "delete_owned", [NoLocals EXCEPT !.op = "delete_message", !.user = u, !.row = m])

\* WHERE id = $1 AND user_id = $2: whether or not its conversation is deleted.
deletes_owned(m, u) ==
  m \in DOMAIN encrypted_messages /\ encrypted_messages[m].user = u /\ ~encrypted_messages[m].gone

DeleteOwned(r) ==
  /\ pc[r] = "delete_owned"
  /\ IF deletes_owned(local[r].row, local[r].user)
     THEN encrypted_messages' = [encrypted_messages EXCEPT ![local[r].row].gone = TRUE] /\ Return(r, "ok")
     ELSE UNCHANGED encrypted_messages /\ Leave(r)
  /\ UNCHANGED <<conversations, public_keys, audit_events>>

-----------------------------------------------------------------------------
(* services/keys.rs                                                        *)

Upload(r, u, label) ==
  Accept(r, "insert_key", [NoLocals EXCEPT !.op = "upload_key", !.user = u, !.label = label])

InsertKey(r) ==
  /\ pc[r] = "insert_key"
  /\ IF label_taken(local[r].user, local[r].label)
     THEN Return(r, "conflict") /\ UNCHANGED public_keys
     ELSE /\ Room(public_keys)
          /\ public_keys' = Append(public_keys, [user |-> local[r].user, label |-> local[r].label])
          /\ Become(r, "audit", [local[r] EXCEPT !.row = Len(public_keys) + 1])
  /\ UNCHANGED <<conversations, encrypted_messages, audit_events>>

RecordUploaded(r) ==
  /\ pc[r] = "audit" /\ local[r].op = "upload_key"
  /\ Audit(r, "key.uploaded")

-----------------------------------------------------------------------------

\* Ids in a request: of any row, whoever owns it.  An id of no row fares as one of
\* another user's does, so it is sent only while there is no conversation; the id of
\* a message that is gone is one.
ConversationIds == IF conversations = <<>> THEN {NoRow} ELSE DOMAIN conversations
MessageIds == DOMAIN encrypted_messages
KeyIds == 0..Len(public_keys)

Handler(r) ==
  \/ InsertConversation(r) \/ RecordCreated(r) \/ Update(r) \/ SoftDelete(r) \/ RecordDeleted(r)
  \/ AssertOwned(r) \/ CheckKey(r) \/ InsertMessage(r) \/ Touch(r) \/ Select(r) \/ DeleteOwned(r)
  \/ InsertKey(r) \/ RecordUploaded(r)
  \/ Fault(r)

Request(r, u) ==
  \/ CreateConversation(r, u)
  \/ \E c \in ConversationIds :
       \/ UpdateConversation(r, u, c) \/ DeleteConversation(r, u, c) \/ ListMessages(r, u, c)
       \/ \E k \in KeyIds : CreateMessage(r, u, c, k)
  \/ \E m \in MessageIds : DeleteMessage(r, u, m)
  \/ \E label \in Labels : Upload(r, u, label)

Next == \E r \in Requests : Handler(r) \/ \E u \in Users : Request(r, u)

Spec == Init /\ [][Next]_vars

-----------------------------------------------------------------------------
(* Properties.                                                             *)

\* Types.
TypeOK ==
  /\ conversations \in Seq(Conversation)
  /\ encrypted_messages \in Seq(EncryptedMessage)
  /\ public_keys \in Seq(PublicKey)
  /\ IsABag(audit_events) /\ BagToSet(audit_events) \subseteq AuditEvent
  /\ pc \in [Requests -> Statements \cup {"idle"}]
  /\ local \in [Requests -> Locals]

\* "the DB FK alone does not enforce ownership": whatever the handlers read
\* before they insert, a message is in a conversation of its own user and
\* names, if any, one of that user's keys.
MessagesBelong ==
  \A m \in DOMAIN encrypted_messages :
    LET msg == encrypted_messages[m] IN
    /\ msg.conversation \in DOMAIN conversations
    /\ conversations[msg.conversation].user = msg.user
    /\ msg.key_id # NoRow =>
         msg.key_id \in DOMAIN public_keys /\ public_keys[msg.key_id].user = msg.user

\* A request that arrives after a conversation was deleted neither reads nor
\* writes it: its handler does not get past its first statement.
DeletedIsClosed ==
  \A r \in Requests : local[r].late => pc[r] \in {"update", "soft_delete", "find_owned"}

\* A deleted conversation stays deleted and keeps its title: no step of any
\* handler writes to its row, not even of one that began before the deletion,
\* but for updated_at, which touch sets for a message whose request had found
\* the conversation.
Touches(r, c) ==
  pc[r] = "touch" /\ encrypted_messages[local[r].row].conversation = c /\ ~local[r].late
DeletedIsFinal ==
  [][ \A c \in DOMAIN conversations :
        conversations[c].deleted =>
          /\ conversations'[c] = [conversations[c] EXCEPT !.updated = conversations'[c].updated]
          /\ conversations'[c] # conversations[c] => \E r \in Requests : Touches(r, c) ]_vars

\* However requests and retries of them interleave, the audit trail tells what
\* happened: an event is of the owner of a row that exists, "deleted" of a row
\* that is, and none is told twice.
Happened(e) ==
  LET table == IF e.type = "key.uploaded" THEN public_keys ELSE conversations IN
  /\ e.row \in DOMAIN table /\ table[e.row].user = e.user
  /\ e.type = "conversation.deleted" => conversations[e.row].deleted
AuditTrailIsTrue ==
  \A e \in BagToSet(audit_events) : Happened(e) /\ audit_events[e] = 1

\* Of uploads that race for a label one wins: a label names one key of its
\* user, a conflict is only reported when there is that key, and an upload that
\* was acknowledged is the one that made it.
KeyOf(l) == [user |-> l.user, label |-> l.label]
AnswerIsTrue(l) ==
  l.op = "upload_key" =>
    /\ l.reply = "conflict" => \E k \in DOMAIN public_keys : public_keys[k] = KeyOf(l)
    /\ l.reply = "ok" => l.row \in DOMAIN public_keys /\ public_keys[l.row] = KeyOf(l)
OneKeyPerLabel ==
  /\ \A j, k \in DOMAIN public_keys : public_keys[j] = public_keys[k] => j = k
  /\ \A r \in Requests : AnswerIsTrue(local[r])

\* What a handler that answers with success says of the tables.
Did(l) ==
  /\ l.op = "create_conversation" =>
       l.row \in DOMAIN conversations /\ conversations[l.row].user = l.user
  /\ l.op = "delete_conversation" =>
       l.row \in DOMAIN conversations /\ conversations[l.row].user = l.user /\ conversations[l.row].deleted
  /\ l.op = "create_message" =>
       /\ l.row \in DOMAIN encrypted_messages
       /\ encrypted_messages[l.row].user = l.user /\ encrypted_messages[l.row].key_id = l.key_id
       /\ l.reply = "ok" => conversations[encrypted_messages[l.row].conversation].updated # "inserted"
  /\ l.op = "delete_message" =>
       /\ l.row \in DOMAIN encrypted_messages
       /\ encrypted_messages[l.row].user = l.user /\ encrypted_messages[l.row].gone
  /\ l.op = "upload_key" => l.row \in DOMAIN public_keys
Once == {"create_conversation", "delete_conversation", "create_message", "delete_message", "upload_key"}

\* An acknowledgement is true, and stays true whatever the other handlers do:
\* what was created is there, what was deleted is not, and the conversation of a
\* new message has moved in the listing's order.  And each one stands for
\* a row of its own: a message is stored once per create that succeeded, though
\* a create that failed after its INSERT may have stored one too, and of the
\* deletes that race for a row one is told that it deleted it.
AnswersAreTrue ==
  /\ \A r \in Requests : local[r].reply = "ok" => Did(local[r])
  /\ \A q, r \in Requests :
       /\ q # r
       /\ local[q].reply = "ok" /\ local[r].reply = "ok"
       /\ local[q].op = local[r].op /\ local[q].op \in Once
       => local[q].row # local[r].row

-----------------------------------------------------------------------------
(* The inductive invariant.                                                *)

\* Which handler awaits which statement.
Stages ==
  {<<"create_conversation", "insert_conversation">>, <<"create_conversation", "audit">>,
   <<"update_conversation", "update">>, <<"delete_conversation", "soft_delete">>,
   <<"delete_conversation", "audit">>, <<"create_message", "find_owned">>,
   <<"create_message", "belongs_to_user">>, <<"create_message", "insert_message">>,
   <<"create_message", "touch">>, <<"list_messages", "find_owned">>, <<"list_messages", "select">>,
   <<"delete_message", "delete_owned">>, <<"upload_key", "insert_key">>, <<"upload_key", "audit">>}

\* The event that a handler at audit::record is about to write.
EventOf(l) ==
  [type |-> IF l.op = "create_conversation" THEN "conversation.created"
            ELSE IF l.op = "delete_conversation" THEN "conversation.deleted" ELSE "key.uploaded",
   user |-> l.user, row |-> l.row]

\* A handler that has written its row, answered or not.
Done(at, l) == at \in {"audit", "touch"} \/ (l.reply = "ok" /\ l.op \in Once)

\* What a handler with locals l that awaits statement `at` knows, and what no
\* other handler undoes.
Knows(at, l) ==
  /\ at # "idle" => l.user \in Users /\ l.reply = "none" /\ <<l.op, at>> \in Stages
  /\ l.late => l.row \in DOMAIN conversations /\ conversations[l.row].deleted
  /\ at \in {"belongs_to_user", "insert_message"} =>
       l.row \in DOMAIN conversations /\ conversations[l.row].user = l.user
  /\ at = "insert_message" /\ l.key_id # NoRow =>
       l.key_id \in DOMAIN public_keys /\ public_keys[l.key_id].user = l.user
  /\ at = "insert_key" => l.label \in Labels
  /\ Done(at, l) => Did(l)
  /\ at = "audit" =>
       /\ Happened(EventOf(l))
       /\ ~BagIn(EventOf(l), audit_events)
       /\ l.op = "upload_key" => public_keys[l.row] = KeyOf(l)

\* Inductive: what each statement of each handler preserves.
StoreInv ==
  /\ TypeOK /\ MessagesBelong /\ DeletedIsClosed /\ AuditTrailIsTrue /\ OneKeyPerLabel
  /\ \A r \in Requests : Knows(pc[r], local[r])
  /\ \A q, r \in Requests :
       q # r /\ pc[q] = "audit" /\ pc[r] = "audit" => EventOf(local[q]) # EventOf(local[r])
  /\ \A q, r \in Requests :
       /\ q # r /\ Done(pc[q], local[q]) /\ Done(pc[r], local[r])
       /\ local[q].op = local[r].op
       => local[q].row # local[r].row
=============================================================================
