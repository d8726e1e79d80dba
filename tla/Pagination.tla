----------------------------- MODULE Pagination -----------------------------
(***************************************************************************)
(* The pages of GET /messages: list_for_conversation of                    *)
(* repositories/messages.rs and the limit of services/messages.rs, for a   *)
(* client that goes through a conversation page by page while messages are *)
(* stored and deleted.                                                     *)
(*                                                                         *)
(* created_at is now(), the start of the INSERT's transaction: a message   *)
(* may become visible after a later one, and two may have the same time.   *)
(***************************************************************************)
EXTENDS Integers, Sequences, FiniteSetsExt

CONSTANTS
  Writers,        \* INSERTs that may be under way at once
  MAX_PAGE_SIZE,
  Limits,         \* limits a client may ask for
  MaxTime,        \* bound: where the clock stops
  MaxMessages     \* bound: rows of the table

ASSUME PageAssumption ==
  /\ MAX_PAGE_SIZE \in Nat \ {0} /\ Limits \subseteq Int
  /\ MaxTime \in Nat /\ MaxMessages \in Nat

VARIABLES
  clock,    \* of the database
  rows,     \* messages of the conversation, in the order they became visible
  writing,  \* created_at of each INSERT under way
  limit,    \* what the client asks for
  before,   \* the before of its next request
  shown,    \* the messages of the pages so far, in the order shown
  present,  \* not program state: messages visible when the first page was asked for
  done      \* the client has come to the end

vars == <<clock, rows, writing, limit, before, shown, present, done>>

Idle == -1         \* no INSERT
Unbounded == -1    \* no before
NotStarted == {0}  \* no page yet

Init ==
  /\ clock = 0 /\ rows = <<>> /\ writing = [w \in Writers |-> Idle]
  /\ limit \in Limits /\ before = Unbounded
  /\ shown = <<>> /\ present = NotStarted /\ done = FALSE

client == <<limit, before, shown, present, done>>

-----------------------------------------------------------------------------
(* The table.                                                              *)

Begin(w) ==
  /\ writing[w] = Idle
  /\ writing' = [writing EXCEPT ![w] = clock]
  /\ UNCHANGED <<clock, rows, client>>

Commit(w) ==
  /\ writing[w] # Idle /\ Len(rows) < MaxMessages
  /\ rows' = Append(rows, [created_at |-> writing[w], deleted |-> FALSE])
  /\ writing' = [writing EXCEPT ![w] = Idle]
  /\ UNCHANGED <<clock, client>>

DeleteOwned(m) ==
  /\ ~rows[m].deleted
  /\ rows' = [rows EXCEPT ![m].deleted = TRUE]
  /\ UNCHANGED <<clock, writing, client>>

Tick ==
  /\ clock < MaxTime
  /\ clock' = clock + 1
  /\ UNCHANGED <<rows, writing, client>>

-----------------------------------------------------------------------------
(* A page.                                                                 *)

\* Faulty: without the clamp.  Postgres refuses a negative LIMIT.
page_size_unclamped(asked) == asked

\* clamp(1, MAX_PAGE_SIZE)
page_size(asked) == Max({1, Min({asked, MAX_PAGE_SIZE})})

Visible == {m \in DOMAIN rows : ~rows[m].deleted}

\* Faulty: <= for <.
not_after(t) == {m \in Visible : t = Unbounded \/ rows[m].created_at <= t}

\* $3 IS NULL OR created_at < $3
older(t) == {m \in Visible : t = Unbounded \/ rows[m].created_at < t}

\* ORDER BY created_at DESC LIMIT $4; messages of one time come in any order.
IsPage(page, from, size) ==
  /\ Len(page) = Min({size, Cardinality(from)})
  /\ \A i \in DOMAIN page :
       /\ page[i] \in from
       /\ \A j \in 1..i - 1 : page[j] # page[i] /\ rows[page[j]].created_at >= rows[page[i]].created_at
  /\ \A m \in from : \A i \in DOMAIN page :
       rows[m].created_at > rows[page[i]].created_at => \E j \in DOMAIN page : page[j] = m

\* The client asks for what is older than the last message it was shown, until
\* it gets an empty page.
List ==
  LET from == older(before)
      size == page_size(limit) IN
  /\ ~done
  /\ present' = IF present = NotStarted THEN Visible ELSE present
  /\ \E page \in UNION {[1..n -> from] : n \in 0..size} :
       /\ IsPage(page, from, size)
       /\ shown' = shown \o page
       /\ done' = (page = <<>>)
       /\ before' = IF page = <<>> THEN before ELSE rows[page[Len(page)]].created_at
  /\ UNCHANGED <<clock, rows, writing, limit>>

Next ==
  \/ \E w \in Writers : Begin(w) \/ Commit(w)
  \/ \E m \in DOMAIN rows : DeleteOwned(m)
  \/ Tick
  \/ List

Spec == Init /\ [][Next]_vars

\* The client goes on asking; each request is answered from one SELECT.
FairSpec == Spec /\ WF_vars(List)

-----------------------------------------------------------------------------
(* Properties.                                                             *)

\* "newest first": across pages too, and though messages become visible out of
\* order between them, no message is shown before a newer one, or twice.
NewestFirst ==
  \A i, j \in DOMAIN shown :
    i < j => shown[i] # shown[j] /\ rows[shown[i]].created_at >= rows[shown[j]].created_at

\* The message, or one with the very same created_at, has been shown.
Covered(m) == \E i \in DOMAIN shown : shown[i] = m \/ rows[shown[i]].created_at = rows[m].created_at

\* Paging on a timestamp loses nothing but ties: when the client is done, a
\* message that was there from the start and was not deleted has been shown, or
\* one with the very same created_at has.
OnlyTiesAreMissed ==
  done => \A m \in Visible \cap present : Covered(m)

\* Liveness.  A client that goes on asking comes to the end, whatever is stored
\* meanwhile.
PagingEnds == <>done

-----------------------------------------------------------------------------
(* The inductive invariant.                                                *)

Row == [created_at: Nat, deleted: BOOLEAN]

\* Types.
TypeOK ==
  /\ clock \in Nat /\ rows \in Seq(Row) /\ writing \in [Writers -> Nat \cup {Idle}]
  /\ limit \in Limits /\ before \in Nat \cup {Unbounded} /\ shown \in Seq(Nat)
  /\ present \subseteq Nat /\ done \in BOOLEAN

\* Inductive: the cursor stands at the last message shown, and what the client
\* has not been shown yet is still ahead of it.
PageInv ==
  /\ TypeOK /\ NewestFirst /\ OnlyTiesAreMissed
  /\ \A i \in DOMAIN shown : shown[i] \in DOMAIN rows
  /\ before = IF shown = <<>> THEN Unbounded ELSE rows[shown[Len(shown)]].created_at
  /\ present = NotStarted => shown = <<>>
  /\ \A m \in present : m <= Len(rows)
  /\ \A m \in Visible \cap present : m \in older(before) \/ Covered(m)
=============================================================================
