---------------------------- MODULE RateLimiter ----------------------------
(***************************************************************************)
(* The fixed-window rate limiter of middleware/rate_limit.rs, called by    *)
(* many threads at once: by the HTTP middleware for a client address and   *)
(* by the chat stream for each prompt of a user.                           *)
(*                                                                         *)
(* windows is a DashMap: every call on it is atomic for the key it is      *)
(* about, and a check makes up to five of them.  A check reads the clock   *)
(* when it is called, so its `now` may be old by the time it is used.      *)
(***************************************************************************)
EXTENDS Integers, FiniteSets

CONSTANTS
  Callers,           \* threads that may be inside check at once
  Keys,              \* client addresses and ws-prompt:<user> keys
  max_requests,      \* budget of a key per window
  window,            \* length of a window, in ticks of the clock
  MAX_TRACKED_KEYS,  \* entries the map should hold at most
  MaxTime            \* bound: where the clock stops

ASSUME LimiterAssumption ==
  /\ IsFiniteSet(Callers)
  /\ max_requests \in Nat
  /\ window \in Nat
  /\ MAX_TRACKED_KEYS \in Nat \ {0}
  /\ MaxTime \in Nat

VARIABLES
  clock,     \* Instant::now()
  windows,   \* the tracked keys, each with its (start, count)
  admitted,  \* not program state: calls admitted since the key's window opened
  pc,        \* where each caller is inside check
  call       \* the key and the now of each caller's check

vars == <<clock, windows, admitted, pc, call>>

Window == [start: Nat, count: Nat]
Labels == {"idle", "contains", "len", "sweep", "len_again", "entry"}
NoCall == [key |-> "none", now |-> 0]

Init ==
  /\ clock = 0
  /\ windows = [k \in {} |-> [start |-> 0, count |-> 0]]
  /\ admitted = [k \in Keys |-> 0]
  /\ pc = [c \in Callers |-> "idle"]
  /\ call = [c \in Callers |-> NoCall]

\* The caller goes on inside check.
Goto(c, to) == pc' = [pc EXCEPT ![c] = to] /\ UNCHANGED call

\* check returns.
Return(c) ==
  /\ pc' = [pc EXCEPT ![c] = "idle"]
  /\ call' = [call EXCEPT ![c] = NoCall]

-----------------------------------------------------------------------------
(* Pure parts.                                                             *)

\* Instant::duration_since saturates: a start later than now is 0 ago.
elapsed(now, start) == IF now >= start THEN now - start ELSE 0

\* Faulty: one request over budget.
decide_off_by_one(w, now) ==
  IF elapsed(now, w.start) >= window
  THEN [entry |-> [start |-> now, count |-> 1], ok |-> TRUE]
  ELSE IF w.count > max_requests
       THEN [entry |-> w, ok |-> FALSE]
       ELSE [entry |-> [w EXCEPT !.count = @ + 1], ok |-> TRUE]

\* What check_at does with the entry of its key, under the entry's lock.
decide(w, now) ==
  IF elapsed(now, w.start) >= window
  THEN [entry |-> [start |-> now, count |-> 1], ok |-> TRUE]
  ELSE IF w.count >= max_requests
       THEN [entry |-> w, ok |-> FALSE]
       ELSE [entry |-> [w EXCEPT !.count = @ + 1], ok |-> TRUE]

tracked(k) == k \in DOMAIN windows

or_insert(k, now) ==
  IF tracked(k) THEN windows[k] ELSE [start |-> now, count |-> 0]

\* Faulty: drops every window.
sweep_all(now) == [k \in {} |-> windows[k]]

\* The map without the windows that have expired at `now`.  (retain takes the
\* map shard by shard; that an entry goes is decided under its own lock.)
sweep(now) ==
  [k \in {x \in DOMAIN windows : elapsed(now, windows[x].start) < window} |-> windows[k]]

full == Cardinality(DOMAIN windows) >= MAX_TRACKED_KEYS

-----------------------------------------------------------------------------
(* check                                                                   *)

Check(c, k) ==
  /\ pc[c] = "idle"
  /\ pc' = [pc EXCEPT ![c] = "contains"]
  /\ call' = [call EXCEPT ![c] = [key |-> k, now |-> clock]]
  /\ UNCHANGED <<clock, windows, admitted>>

ContainsKey(c) ==
  /\ pc[c] = "contains"
  /\ Goto(c, IF tracked(call[c].key) THEN "entry" ELSE "len")
  /\ UNCHANGED <<clock, windows, admitted>>

Length(c) ==
  /\ pc[c] = "len"
  /\ Goto(c, IF full THEN "sweep" ELSE "entry")
  /\ UNCHANGED <<clock, windows, admitted>>

\* The sweep reads the clock again.
SweepForRoom(c) ==
  /\ pc[c] = "sweep"
  /\ windows' = sweep(clock)
  /\ Goto(c, "len_again")
  /\ UNCHANGED <<clock, admitted>>

\* Faulty: goes on although the sweep made no room.
LengthAgainIgnored(c) ==
  /\ pc[c] = "len_again"
  /\ Goto(c, "entry")
  /\ UNCHANGED <<clock, windows, admitted>>

\* Still full: check returns false.
LengthAgain(c) ==
  /\ pc[c] = "len_again"
  /\ IF full THEN Return(c) ELSE Goto(c, "entry")
  /\ UNCHANGED <<clock, windows, admitted>>

\* The entry is locked from or_insert to the return.
Entry(c) ==
  LET k == call[c].key
      w == or_insert(k, call[c].now)
      d == decide(w, call[c].now)
      opens == ~tracked(k) \/ elapsed(call[c].now, w.start) >= window
  IN /\ pc[c] = "entry"
     /\ windows' = [x \in DOMAIN windows \cup {k} |-> IF x = k THEN d.entry ELSE windows[x]]
     /\ admitted' = [admitted EXCEPT ![k] = (IF opens THEN 0 ELSE @) + (IF d.ok THEN 1 ELSE 0)]
     /\ Return(c)
     /\ UNCHANGED clock

-----------------------------------------------------------------------------
(* The background sweeper of main.rs, and time.                            *)

Sweeper ==
  /\ windows' = sweep(clock)
  /\ UNCHANGED <<clock, admitted, pc, call>>

Tick ==
  /\ clock < MaxTime
  /\ clock' = clock + 1
  /\ UNCHANGED <<windows, admitted, pc, call>>

Next ==
  \/ \E c \in Callers :
       \/ \E k \in Keys : Check(c, k)
       \/ ContainsKey(c) \/ Length(c) \/ SweepForRoom(c) \/ LengthAgain(c) \/ Entry(c)
  \/ Sweeper
  \/ Tick

Spec == Init /\ [][Next]_vars

-----------------------------------------------------------------------------
(* Properties.                                                             *)

\* Entries are windows of known keys, and none starts in the future: a check
\* and its entry only ever hold times the clock has shown.
TypeOK ==
  /\ clock \in Nat
  /\ DOMAIN windows \subseteq Keys
  /\ windows = [k \in DOMAIN windows |-> windows[k]]
  /\ \A k \in DOMAIN windows : windows[k] \in Window /\ windows[k].start <= clock
  /\ admitted \in [Keys -> Nat]
  /\ pc \in [Callers -> Labels]
  /\ \A c \in Callers : pc[c] # "idle" => call[c].key \in Keys
  /\ call \in [Callers -> [key: Keys \cup {"none"}, now: 0..clock]]

\* No update is lost between threads: the count of an entry is the number of
\* calls that check_at admitted since that entry's window opened.
EveryAdmissionCounts == \A k \in DOMAIN windows : admitted[k] = windows[k].count

\* However checks and sweeps of several threads interleave, and however old
\* their `now` is, a window admits at most max_requests calls; with a budget of
\* 0 the call that reopens an expired window is still admitted.
BudgetPerWindow ==
  \A k \in DOMAIN windows :
    admitted[k] <= IF max_requests = 0 THEN 1 ELSE max_requests

\* Nobody gets a fresh budget early: while a key's window has not run out on
\* the clock, no check and no sweep of any thread drops or restarts it.
LiveWindowStays ==
  [][ \A k \in DOMAIN windows :
        elapsed(clock, windows[k].start) < window =>
          /\ k \in DOMAIN windows'
          /\ windows'[k].start = windows[k].start
          /\ windows'[k].count >= windows[k].count ]_vars

\* The map cannot grow without limit.  MAX_TRACKED_KEYS is called the "Upper
\* bound on distinct keys tracked at once", but its length is read before, and
\* not with, the insertion: the callers that looked together, less one, may
\* exceed it.
MapNearlyCapped ==
  Cardinality(DOMAIN windows) < MAX_TRACKED_KEYS + Cardinality(Callers)

-----------------------------------------------------------------------------
(* The inductive invariant.                                                *)

\* The tracked keys, and those that a caller past the length check may add.
Claimed == DOMAIN windows \cup {call[c].key : c \in {d \in Callers : pc[d] = "entry"}}

\* Inductive: what check and sweep preserve at each of their steps.
LimiterInv ==
  /\ TypeOK
  /\ EveryAdmissionCounts
  /\ BudgetPerWindow
  /\ IsFiniteSet(Claimed)
  /\ Cardinality(Claimed) < MAX_TRACKED_KEYS + Cardinality(Callers)
=============================================================================
