------------------------- MODULE RateLimiterProofs -------------------------
(***************************************************************************)
(* Proofs of the safety properties of RateLimiter, for any callers, keys,  *)
(* budget, window and cap.                                                 *)
(***************************************************************************)
EXTENDS RateLimiter, FiniteSetTheorems, TLAPS

\* What a check leaves in its entry: the count grows by one exactly when the
\* call is admitted into the same window, and stays within the budget.
LEMMA Decide ==
  ASSUME NEW w \in Window, NEW now \in Nat,
         w.count <= IF max_requests = 0 THEN 1 ELSE max_requests
  PROVE  LET d == decide(w, now)
             opens == elapsed(now, w.start) >= window IN
         /\ d.entry \in Window /\ d.ok \in BOOLEAN
         /\ d.entry.count <= IF max_requests = 0 THEN 1 ELSE max_requests
         /\ opens => d.entry = [start |-> now, count |-> 1] /\ d.ok
         /\ ~opens /\ d.ok => d.entry.start = w.start /\ d.entry.count = w.count + 1
         /\ ~opens /\ ~d.ok => d.entry = w
  <1>1. CASE elapsed(now, w.start) >= window
    BY <1>1, LimiterAssumption DEF decide, Window
  <1>2. CASE ~(elapsed(now, w.start) >= window) /\ w.count >= max_requests
    BY <1>2, LimiterAssumption DEF decide, Window
  <1>3. CASE ~(elapsed(now, w.start) >= window) /\ ~(w.count >= max_requests)
    BY <1>3, LimiterAssumption DEF decide, Window
  <1> QED BY <1>1, <1>2, <1>3

\* Callers that saw a map below its cap claim at most one key each.
LEMMA ClaimsBound ==
  ASSUME NEW D, IsFiniteSet(D), Cardinality(D) < MAX_TRACKED_KEYS,
         NEW C \in SUBSET Callers, NEW key
  PROVE  LET T == D \cup {key[c] : c \in C} IN
         /\ IsFiniteSet(T)
         /\ Cardinality(T) < MAX_TRACKED_KEYS + Cardinality(Callers)
  <1> DEFINE K == {key[c] : c \in C}
             f == [c \in C |-> key[c]]
  <1>1. IsFiniteSet(C) /\ Cardinality(C) <= Cardinality(Callers)
    BY FS_Subset, LimiterAssumption
  <1>2. f \in Surjection(C, K)
    BY DEF Surjection
  <1>3. IsFiniteSet(K) /\ Cardinality(K) <= Cardinality(C)
    BY <1>1, <1>2, FS_Surjection
  <1>4. /\ IsFiniteSet(D \cup K)
        /\ Cardinality(D \cup K) = Cardinality(D) + Cardinality(K) - Cardinality(D \cap K)
    BY <1>3, FS_Union
  <1>5. IsFiniteSet(D \cap K)
    BY FS_Subset
  <1>6. /\ Cardinality(D) \in Nat /\ Cardinality(K) \in Nat /\ Cardinality(C) \in Nat
        /\ Cardinality(D \cap K) \in Nat /\ Cardinality(Callers) \in Nat
    BY <1>1, <1>3, <1>5, FS_CardinalityType, LimiterAssumption
  <1> QED BY <1>1, <1>3, <1>4, <1>6, LimiterAssumption

-----------------------------------------------------------------------------
(* The invariant.                                                          *)

\* Nothing is tracked when the limiter is built.
LEMMA InitEstablishes == Init => LimiterInv
  <1> SUFFICES ASSUME Init PROVE LimiterInv
    OBVIOUS
  <1>1. DOMAIN windows = {}
    BY DEF Init
  <1>2. TypeOK
    BY <1>1 DEF Init, TypeOK, NoCall, Labels
  <1>3. EveryAdmissionCounts /\ BudgetPerWindow
    BY <1>1 DEF EveryAdmissionCounts, BudgetPerWindow
  <1>4. {d \in Callers : pc[d] = "entry"} = {}
    BY DEF Init
  <1>5. Claimed = {}
    BY <1>1, <1>4 DEF Claimed
  <1>6. IsFiniteSet({}) /\ Cardinality({}) = 0
    BY FS_EmptySet
  <1>7. Cardinality(Callers) \in Nat
    BY FS_CardinalityType, LimiterAssumption
  <1> QED BY <1>2, <1>3, <1>5, <1>6, <1>7, LimiterAssumption DEF LimiterInv

\* A step that claims no further key keeps the bound on the claimed keys.
LEMMA ClaimShrinks ==
  ASSUME LimiterInv, Claimed' \subseteq Claimed
  PROVE  /\ IsFiniteSet(Claimed')
         /\ Cardinality(Claimed') < MAX_TRACKED_KEYS + Cardinality(Callers)
  <1>1. IsFiniteSet(Claimed') /\ Cardinality(Claimed') <= Cardinality(Claimed)
    BY FS_Subset DEF LimiterInv
  <1>2. Cardinality(Claimed') \in Nat /\ Cardinality(Claimed) \in Nat /\ Cardinality(Callers) \in Nat
    BY <1>1, FS_CardinalityType, LimiterAssumption DEF LimiterInv
  <1> QED BY <1>1, <1>2, LimiterAssumption DEF LimiterInv

\* A step that finds the map below its cap keeps the bound, whoever goes on to
\* the entry with it.
LEMMA ClaimInRoom ==
  ASSUME LimiterInv, ~full, UNCHANGED <<windows, call>>
  PROVE  /\ IsFiniteSet(Claimed')
         /\ Cardinality(Claimed') < MAX_TRACKED_KEYS + Cardinality(Callers)
  <1> DEFINE C == {d \in Callers : pc'[d] = "entry"}
             D == DOMAIN windows
             key == [c \in Callers |-> call[c].key]
  <1>1. IsFiniteSet(D)
    <2>1. D \in SUBSET Claimed
      BY DEF Claimed
    <2> QED BY <2>1, FS_Subset DEF LimiterInv
  <1>2. Cardinality(D) < MAX_TRACKED_KEYS
    BY <1>1, FS_CardinalityType, LimiterAssumption DEF full
  <1>3. Claimed' = D \cup {key[c] : c \in C}
    BY DEF Claimed
  <1>4. C \in SUBSET Callers
    OBVIOUS
  <1> HIDE DEF C, D, key
  <1> QED BY <1>1, <1>2, <1>3, <1>4, ClaimsBound

\* A sweep keeps only entries it found, unchanged, and every live one of them.
LEMMA Sweep ==
  ASSUME TypeOK, windows' = sweep(clock)
  PROVE  /\ DOMAIN windows' \subseteq DOMAIN windows
         /\ windows' = [k \in DOMAIN windows' |-> windows'[k]]
         /\ \A k \in DOMAIN windows' : windows'[k] = windows[k]
         /\ \A k \in DOMAIN windows :
              elapsed(clock, windows[k].start) < window => k \in DOMAIN windows'
  BY DEF sweep

\* A check at its entry writes what decide says, for its key only.
LEMMA EntryWrites ==
  ASSUME LimiterInv, NEW c \in Callers, Entry(c)
  PROVE  LET k == call[c].key
             w == or_insert(k, call[c].now)
             d == decide(w, call[c].now) IN
         /\ k \in Keys /\ call[c].now \in Nat /\ call[c].now <= clock
         /\ w \in Window /\ w.start <= clock
         /\ w.count <= IF max_requests = 0 THEN 1 ELSE max_requests
         /\ DOMAIN windows' = DOMAIN windows \cup {k}
         /\ windows' = [x \in DOMAIN windows' |-> windows'[x]]
         /\ windows'[k] = d.entry
         /\ \A x \in DOMAIN windows \ {k} : windows'[x] = windows[x] /\ admitted'[x] = admitted[x]
  <1> DEFINE k == call[c].key
             w == or_insert(k, call[c].now)
  <1>1. k \in Keys /\ call[c].now \in 0..clock /\ clock \in Nat
    BY DEF LimiterInv, TypeOK, Entry
  <1>2. w \in Window /\ w.start <= clock
    <2>1. CASE tracked(k)
      BY <2>1, <1>1 DEF LimiterInv, TypeOK, or_insert, tracked
    <2>2. CASE ~tracked(k)
      BY <2>2, <1>1 DEF or_insert, Window
    <2> QED BY <2>1, <2>2
  <1>3. w.count <= IF max_requests = 0 THEN 1 ELSE max_requests
    <2>1. CASE tracked(k)
      BY <2>1, <1>1 DEF LimiterInv, EveryAdmissionCounts, BudgetPerWindow, or_insert, tracked
    <2>2. CASE ~tracked(k)
      BY <2>2, LimiterAssumption DEF or_insert
    <2> QED BY <2>1, <2>2
  <1>4. windows' = [x \in DOMAIN windows \cup {k} |->
                     IF x = k THEN decide(w, call[c].now).entry ELSE windows[x]]
    BY DEF Entry
  <1>5. \A x \in Keys \ {k} : admitted'[x] = admitted[x]
    BY DEF Entry, LimiterInv, TypeOK
  <1> HIDE DEF w, k
  <1>6. DOMAIN windows \subseteq Keys
    BY DEF LimiterInv, TypeOK
  <1> QED BY <1>1, <1>2, <1>3, <1>4, <1>5, <1>6 DEF w, k

\* The entry step: the one that admits, counts and inserts.
LEMMA EntryStep ==
  ASSUME LimiterInv, NEW c \in Callers, Entry(c)
  PROVE  LimiterInv'
  <1>0. PICK k, now, w, d :
          /\ k = call[c].key /\ now = call[c].now
          /\ w = or_insert(k, now) /\ d = decide(w, now)
    OBVIOUS
  <1> DEFINE opens == ~tracked(k) \/ elapsed(now, w.start) >= window
             budget == IF max_requests = 0 THEN 1 ELSE max_requests
  <1>1. /\ k \in Keys /\ now \in Nat /\ now <= clock
        /\ w \in Window /\ w.start <= clock /\ w.count <= budget
        /\ DOMAIN windows' = DOMAIN windows \cup {k}
        /\ windows' = [x \in DOMAIN windows' |-> windows'[x]]
        /\ windows'[k] = d.entry
        /\ \A x \in DOMAIN windows \ {k} : windows'[x] = windows[x] /\ admitted'[x] = admitted[x]
    BY <1>0, EntryWrites
  <1>2. /\ d.entry \in Window /\ d.ok \in BOOLEAN /\ d.entry.count <= budget
        /\ d.entry.start = w.start \/ d.entry.start = now
        /\ elapsed(now, w.start) >= window => d.entry.count = 1 /\ d.ok
        /\ ~(elapsed(now, w.start) >= window) =>
             d.entry.count = w.count + (IF d.ok THEN 1 ELSE 0)
    <2> DEFINE e == decide(w, now)
    <2>1. /\ e.entry \in Window /\ e.ok \in BOOLEAN /\ e.entry.count <= budget
          /\ elapsed(now, w.start) >= window => e.entry = [start |-> now, count |-> 1] /\ e.ok
          /\ ~(elapsed(now, w.start) >= window) /\ e.ok =>
               e.entry.start = w.start /\ e.entry.count = w.count + 1
          /\ ~(elapsed(now, w.start) >= window) /\ ~e.ok => e.entry = w
      BY <1>1, Decide, Zenon
    <2>2. d = e
      BY <1>0
    <2> HIDE DEF e
    <2> QED BY <2>1, <2>2, <1>1 DEF Window
  <1>3. /\ pc' = [pc EXCEPT ![c] = "idle"]
        /\ call' = [call EXCEPT ![c] = NoCall]
        /\ clock' = clock
        /\ admitted' = [admitted EXCEPT ![k] = (IF opens THEN 0 ELSE @) + (IF d.ok THEN 1 ELSE 0)]
    BY <1>0 DEF Entry, Return
  <1>4. admitted \in [Keys -> Nat]
    BY DEF LimiterInv, TypeOK
  <1>5. admitted'[k] = d.entry.count
    <2>1. CASE ~tracked(k)
      BY <2>1, <1>0, <1>1, <1>2, <1>3, <1>4 DEF or_insert
    <2>2. CASE tracked(k) /\ elapsed(now, w.start) >= window
      BY <2>2, <1>1, <1>2, <1>3, <1>4
    <2>3. CASE tracked(k) /\ ~(elapsed(now, w.start) >= window)
      <3>1. admitted[k] = w.count
        BY <2>3, <1>0 DEF tracked, or_insert, LimiterInv, EveryAdmissionCounts
      <3> QED BY <2>3, <3>1, <1>1, <1>2, <1>3, <1>4
    <2> QED BY <2>1, <2>2, <2>3
  <1>6. TypeOK'
    <2>1. admitted' \in [Keys -> Nat]
      BY <1>3, <1>4, <1>5, <1>2, <1>1 DEF Window
    <2>2. /\ pc' \in [Callers -> Labels]
          /\ call' \in [Callers -> [key: Keys \cup {"none"}, now: 0..clock]]
          /\ \A x \in Callers : pc'[x] # "idle" => call'[x].key \in Keys
      BY <1>3 DEF LimiterInv, TypeOK, NoCall, Labels
    <2>3. \A x \in DOMAIN windows' : windows'[x] \in Window /\ windows'[x].start <= clock
      BY <1>1, <1>2 DEF LimiterInv, TypeOK
    <2> QED BY <1>1, <1>3, <2>1, <2>2, <2>3 DEF LimiterInv, TypeOK
  <1>7. EveryAdmissionCounts' /\ BudgetPerWindow'
    BY <1>1, <1>2, <1>5 DEF LimiterInv, EveryAdmissionCounts, BudgetPerWindow
  <1>8. Claimed' \subseteq Claimed
    <2>1. k \in Claimed
      BY <1>0 DEF Claimed, Entry
    <2>2. \A x \in Callers : pc'[x] = "entry" => pc[x] = "entry" /\ call'[x] = call[x]
      BY <1>3 DEF LimiterInv, TypeOK
    <2> QED BY <1>1, <2>1, <2>2 DEF Claimed
  <1> QED BY <1>6, <1>7, <1>8, ClaimShrinks DEF LimiterInv

\* A step that only moves a caller on, past the length check or not.
LEMMA MoveKeeps ==
  ASSUME LimiterInv, NEW c \in Callers, NEW to \in Labels \ {"idle"}, Goto(c, to),
         pc[c] # "idle", UNCHANGED <<clock, windows, admitted>>
  PROVE  /\ TypeOK' /\ EveryAdmissionCounts' /\ BudgetPerWindow'
         /\ \/ to # "entry"
            \/ tracked(call[c].key)
            => Claimed' \subseteq Claimed
  <1>1. pc' = [pc EXCEPT ![c] = to] /\ call' = call
    BY DEF Goto
  <1>2. TypeOK'
    BY <1>1 DEF LimiterInv, TypeOK
  <1>3. EveryAdmissionCounts' /\ BudgetPerWindow'
    BY DEF LimiterInv, EveryAdmissionCounts, BudgetPerWindow
  <1>4. \A x \in Callers : pc'[x] = "entry" => pc[x] = "entry" \/ (x = c /\ to = "entry")
    BY <1>1 DEF LimiterInv, TypeOK
  <1> QED BY <1>1, <1>2, <1>3, <1>4 DEF Claimed, tracked

\* A sweep, by a check in want of room or by the sweeper.
LEMMA SweepKeeps ==
  ASSUME LimiterInv, windows' = sweep(clock), UNCHANGED <<clock, admitted, call>>,
         pc' \in [Callers -> Labels],
         \A x \in Callers : /\ pc'[x] = "entry" => pc[x] = "entry"
                            /\ pc'[x] # "idle" => pc[x] # "idle"
  PROVE  LimiterInv'
  <1>1. /\ DOMAIN windows' \subseteq DOMAIN windows
        /\ windows' = [k \in DOMAIN windows' |-> windows'[k]]
        /\ \A k \in DOMAIN windows' : windows'[k] = windows[k]
    BY Sweep DEF LimiterInv
  <1>2. TypeOK'
    <2>1. \A k \in DOMAIN windows' : k \in Keys /\ windows'[k] \in Window /\ windows'[k].start <= clock
      BY <1>1 DEF LimiterInv, TypeOK
    <2>2. \A x \in Callers : pc'[x] # "idle" => call[x].key \in Keys
      BY DEF LimiterInv, TypeOK
    <2> QED BY <1>1, <2>1, <2>2 DEF LimiterInv, TypeOK
  <1>3. EveryAdmissionCounts' /\ BudgetPerWindow'
    BY <1>1 DEF LimiterInv, EveryAdmissionCounts, BudgetPerWindow
  <1>4. Claimed' \subseteq Claimed
    <2>1. Claimed' = DOMAIN windows' \cup {call[c].key : c \in {d \in Callers : pc'[d] = "entry"}}
      BY DEF Claimed
    <2> QED BY <1>1, <2>1 DEF Claimed
  <1> QED BY <1>2, <1>3, <1>4, ClaimShrinks DEF LimiterInv

\* Every step of every caller, of the sweeper and of the clock.
LEMMA StepKeeps == LimiterInv /\ [Next]_vars => LimiterInv'
  <1> SUFFICES ASSUME LimiterInv, [Next]_vars PROVE LimiterInv'
    OBVIOUS
  <1>1. ASSUME NEW c \in Callers, NEW k \in Keys, Check(c, k) PROVE LimiterInv'
    <2>1. TypeOK'
      BY <1>1 DEF LimiterInv, TypeOK, Check, Labels
    <2>2. EveryAdmissionCounts' /\ BudgetPerWindow'
      BY <1>1 DEF LimiterInv, EveryAdmissionCounts, BudgetPerWindow, Check
    <2>3. \A x \in Callers : pc'[x] = "entry" => pc[x] = "entry" /\ call'[x] = call[x]
      BY <1>1 DEF LimiterInv, TypeOK, Check
    <2>4. Claimed' \subseteq Claimed
      BY <1>1, <2>3 DEF Claimed, Check
    <2> QED BY <2>1, <2>2, <2>4, ClaimShrinks DEF LimiterInv
  <1>2. ASSUME NEW c \in Callers, ContainsKey(c) PROVE LimiterInv'
    <2>1. PICK to : to = IF tracked(call[c].key) THEN "entry" ELSE "len"
      OBVIOUS
    <2>2. /\ Goto(c, to) /\ to \in Labels \ {"idle"} /\ pc[c] # "idle"
          /\ UNCHANGED <<clock, windows, admitted>>
          /\ to # "entry" \/ tracked(call[c].key)
      BY <1>2, <2>1 DEF ContainsKey, Labels
    <2> QED BY <1>2, <2>2, MoveKeeps, ClaimShrinks DEF LimiterInv
  <1>3. ASSUME NEW c \in Callers, Length(c) PROVE LimiterInv'
    <2>1. CASE full
      <3>1. /\ Goto(c, "sweep") /\ pc[c] # "idle" /\ "sweep" \in Labels \ {"idle"}
            /\ UNCHANGED <<clock, windows, admitted>>
        BY <1>3, <2>1 DEF Length, Labels
      <3> QED BY <1>3, <3>1, MoveKeeps, ClaimShrinks DEF LimiterInv
    <2>2. CASE ~full
      <3>1. /\ Goto(c, "entry") /\ pc[c] # "idle" /\ "entry" \in Labels \ {"idle"}
            /\ UNCHANGED <<clock, windows, admitted>> /\ UNCHANGED <<windows, call>>
        BY <1>3, <2>2 DEF Length, Labels, Goto
      <3> QED BY <1>3, <2>2, <3>1, MoveKeeps, ClaimInRoom DEF LimiterInv
    <2> QED BY <2>1, <2>2
  <1>4. ASSUME NEW c \in Callers, SweepForRoom(c) PROVE LimiterInv'
    <2>1. pc' \in [Callers -> Labels]
      BY <1>4 DEF LimiterInv, TypeOK, SweepForRoom, Goto, Labels
    <2>2. \A x \in Callers : (pc'[x] = "entry" => pc[x] = "entry") /\ (pc'[x] # "idle" => pc[x] # "idle")
      BY <1>4 DEF LimiterInv, TypeOK, SweepForRoom, Goto
    <2>3. windows' = sweep(clock) /\ UNCHANGED <<clock, admitted, call>>
      BY <1>4 DEF SweepForRoom, Goto
    <2> QED BY <2>1, <2>2, <2>3, SweepKeeps
  <1>5. ASSUME NEW c \in Callers, LengthAgain(c) PROVE LimiterInv'
    <2>1. CASE full
      <3>1. /\ pc' = [pc EXCEPT ![c] = "idle"] /\ call' = [call EXCEPT ![c] = NoCall]
            /\ UNCHANGED <<clock, windows, admitted>>
        BY <1>5, <2>1 DEF LengthAgain, Return
      <3>2. TypeOK'
        BY <3>1 DEF LimiterInv, TypeOK, Labels, NoCall
      <3>3. EveryAdmissionCounts' /\ BudgetPerWindow'
        BY <3>1 DEF LimiterInv, EveryAdmissionCounts, BudgetPerWindow
      <3>4. \A x \in Callers : pc'[x] = "entry" => pc[x] = "entry" /\ call'[x] = call[x]
        BY <3>1 DEF LimiterInv, TypeOK
      <3>5. Claimed' \subseteq Claimed
        BY <3>1, <3>4 DEF Claimed
      <3> QED BY <3>2, <3>3, <3>5, ClaimShrinks DEF LimiterInv
    <2>2. CASE ~full
      <3>1. /\ Goto(c, "entry") /\ pc[c] # "idle" /\ "entry" \in Labels \ {"idle"}
            /\ UNCHANGED <<clock, windows, admitted>> /\ UNCHANGED <<windows, call>>
        BY <1>5, <2>2 DEF LengthAgain, Labels, Goto
      <3> QED BY <1>5, <2>2, <3>1, MoveKeeps, ClaimInRoom DEF LimiterInv
    <2> QED BY <2>1, <2>2
  <1>6. CASE Sweeper
    <2>1. windows' = sweep(clock) /\ UNCHANGED <<clock, admitted, call>> /\ pc' = pc
      BY <1>6 DEF Sweeper
    <2>2. pc' \in [Callers -> Labels]
      BY <2>1 DEF LimiterInv, TypeOK
    <2> QED BY <2>1, <2>2, SweepKeeps
  <1>7. CASE Tick
    <2>1. TypeOK'
      BY <1>7, LimiterAssumption DEF LimiterInv, TypeOK, Tick, Window
    <2>2. EveryAdmissionCounts' /\ BudgetPerWindow'
      BY <1>7 DEF LimiterInv, EveryAdmissionCounts, BudgetPerWindow, Tick
    <2>3. Claimed' \subseteq Claimed
      BY <1>7 DEF Claimed, Tick
    <2> QED BY <2>1, <2>2, <2>3, ClaimShrinks DEF LimiterInv
  <1>8. CASE UNCHANGED vars
    <2>1. Claimed' = Claimed
      BY <1>8 DEF vars, Claimed
    <2>2. TypeOK' /\ EveryAdmissionCounts' /\ BudgetPerWindow'
      BY <1>8 DEF vars, LimiterInv, TypeOK, EveryAdmissionCounts, BudgetPerWindow
    <2> QED BY <2>1, <2>2 DEF LimiterInv
  <1> QED BY <1>1, <1>2, <1>3, <1>4, <1>5, <1>6, <1>7, <1>8, EntryStep DEF Next

-----------------------------------------------------------------------------
(* What follows.                                                           *)

\* LimiterInv holds of every state the limiter reaches.
THEOREM LimiterInvariance == Spec => []LimiterInv
  BY InitEstablishes, StepKeeps, PTL DEF Spec

\* Whatever the callers, the budget and the window: no admission is lost from
\* a count by concurrent checks and sweeps.
THEOREM NoLostAdmission == Spec => []EveryAdmissionCounts
  <1>1. LimiterInv => EveryAdmissionCounts
    BY DEF LimiterInv
  <1> QED BY <1>1, LimiterInvariance, PTL

\* Whatever the callers, the budget and the window: no window of a key admits
\* more calls than its budget.
THEOREM BudgetHolds == Spec => []BudgetPerWindow
  <1>1. LimiterInv => BudgetPerWindow
    BY DEF LimiterInv
  <1> QED BY <1>1, LimiterInvariance, PTL

\* Whatever the cap and the number of callers: the map of check_at exceeds
\* MAX_TRACKED_KEYS by fewer keys than there are callers.
THEOREM NearlyCapped == Spec => []MapNearlyCapped
  <1>1. ASSUME LimiterInv PROVE MapNearlyCapped
    <2>1. DOMAIN windows \in SUBSET Claimed
      BY DEF Claimed
    <2>2. IsFiniteSet(DOMAIN windows) /\ Cardinality(DOMAIN windows) <= Cardinality(Claimed)
      BY <1>1, <2>1, FS_Subset DEF LimiterInv
    <2>3. /\ Cardinality(DOMAIN windows) \in Nat /\ Cardinality(Claimed) \in Nat
          /\ Cardinality(Callers) \in Nat
      BY <1>1, <2>2, FS_CardinalityType, LimiterAssumption DEF LimiterInv
    <2> QED BY <1>1, <2>2, <2>3, LimiterAssumption DEF LimiterInv, MapNearlyCapped
  <1> QED BY <1>1, LimiterInvariance, PTL

\* What LiveWindowStays says of one step.
LiveStep ==
  \A k \in DOMAIN windows :
    elapsed(clock, windows[k].start) < window =>
      /\ k \in DOMAIN windows'
      /\ windows'[k].start = windows[k].start
      /\ windows'[k].count >= windows[k].count

\* The check at its entry goes on with a live window: its now is no later than
\* the clock, so it does not find expired what is live.
LEMMA EntryKeepsLive ==
  ASSUME LimiterInv, NEW c \in Callers, Entry(c)
  PROVE  LiveStep
  <1> SUFFICES ASSUME NEW k \in DOMAIN windows, elapsed(clock, windows[k].start) < window
               PROVE  /\ k \in DOMAIN windows'
                      /\ windows'[k].start = windows[k].start
                      /\ windows'[k].count >= windows[k].count
    BY DEF LiveStep
  <1>1. windows[k] \in Window /\ windows[k].count \in Nat
    BY DEF LimiterInv, TypeOK, Window
  <1>2. k \in DOMAIN windows'
    BY EntryWrites
  <1>3. CASE k # call[c].key
    <2>1. windows'[k] = windows[k]
      BY <1>3, EntryWrites, Zenon
    <2> QED BY <1>1, <1>2, <2>1
  <1>4. CASE k = call[c].key
    <2>1. PICK now, w, d : now = call[c].now /\ w = windows[k] /\ d = decide(w, now)
      OBVIOUS
    <2>2. w = or_insert(k, now)
      BY <1>4, <2>1 DEF or_insert, tracked
    <2>3. /\ now \in Nat /\ now <= clock /\ windows'[k] = d.entry
          /\ w.count <= IF max_requests = 0 THEN 1 ELSE max_requests
      BY <1>4, <2>1, <2>2, EntryWrites
    <2>4. ~(elapsed(now, w.start) >= window)
      BY <1>1, <2>1, <2>3, LimiterAssumption DEF elapsed, Window, LimiterInv, TypeOK
    <2> DEFINE e == decide(w, now)
    <2>5. /\ e.ok \in BOOLEAN
          /\ e.ok => e.entry.start = w.start /\ e.entry.count = w.count + 1
          /\ ~e.ok => e.entry = w
      BY <1>1, <2>1, <2>3, <2>4, Decide, Zenon
    <2>6. d = e
      BY <2>1
    <2> HIDE DEF e
    <2> QED BY <1>1, <1>2, <2>1, <2>3, <2>5, <2>6
  <1> QED BY <1>3, <1>4

\* Whatever the callers and the window: while a key's window has not run out on
\* the clock, no check and no sweep drops it, restarts it or lowers its count.
THEOREM LiveWindowsStay == Spec => LiveWindowStays
  <1>1. ASSUME LimiterInv, [Next]_vars PROVE LiveStep \/ UNCHANGED vars
    <2>1. \A k \in DOMAIN windows : windows[k].count \in Nat
      BY <1>1 DEF LimiterInv, TypeOK, Window
    <2>2. CASE windows' = windows
      BY <2>1, <2>2 DEF LiveStep
    <2>3. CASE windows' = sweep(clock)
      BY <1>1, <2>1, <2>3, Sweep DEF LiveStep, LimiterInv
    <2>4. ASSUME NEW c \in Callers, Entry(c) PROVE LiveStep
      BY <1>1, <2>4, EntryKeepsLive
    <2>5. \/ windows' = windows \/ windows' = sweep(clock)
          \/ \E c \in Callers : Entry(c)
      BY <1>1 DEF Next, vars, Check, ContainsKey, Length, SweepForRoom, LengthAgain, Sweeper, Tick
    <2> QED BY <2>2, <2>3, <2>4, <2>5
  <1>2. LimiterInv /\ [Next]_vars => [LiveStep]_vars
    BY <1>1
  <1>3. Spec => [][LiveStep]_vars
    BY <1>2, LimiterInvariance, PTL DEF Spec
  <1> QED BY <1>3 DEF LiveStep, LiveWindowStays
=============================================================================
