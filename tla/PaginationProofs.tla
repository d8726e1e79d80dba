-------------------------- MODULE PaginationProofs --------------------------
(***************************************************************************)
(* Paging through a conversation shows messages newest first and misses    *)
(* only ties, for any writers, times, limits and page size.                *)
(***************************************************************************)
EXTENDS Pagination, FiniteSetTheorems, TLAPS

\* What CHOOSE finds in a set of two integers.
LEMMA MinMax ==
  ASSUME NEW a \in Int, NEW b \in Int
  PROVE  /\ Min({a, b}) \in {a, b} /\ Min({a, b}) <= a /\ Min({a, b}) <= b
         /\ Max({a, b}) \in {a, b} /\ Max({a, b}) >= a /\ Max({a, b}) >= b
  <1>1. \E x \in {a, b} : \A y \in {a, b} : x <= y
    OBVIOUS
  <1>2. \E x \in {a, b} : \A y \in {a, b} : x >= y
    OBVIOUS
  <1>3. Min({a, b}) \in {a, b} /\ \A y \in {a, b} : Min({a, b}) <= y
    BY <1>1 DEF Min
  <1>4. Max({a, b}) \in {a, b} /\ \A y \in {a, b} : Max({a, b}) >= y
    BY <1>2 DEF Max
  <1> QED
    BY <1>3, <1>4

\* The clamp of services/messages.rs: a page has room for a message.
LEMMA PageHasRoom ==
  ASSUME NEW asked \in Limits
  PROVE  page_size(asked) \in Nat \ {0}
  <1>1. asked \in Int /\ MAX_PAGE_SIZE \in Int
    BY PageAssumption
  <1>2. Min({asked, MAX_PAGE_SIZE}) \in Int
    BY <1>1, MinMax
  <1>3. Max({1, Min({asked, MAX_PAGE_SIZE})}) \in Int /\ Max({1, Min({asked, MAX_PAGE_SIZE})}) >= 1
    BY <1>2, MinMax
  <1> QED
    BY <1>3 DEF page_size

\* An empty page means that nothing is left.
LEMMA EmptyPage ==
  ASSUME NEW from, IsFiniteSet(from), NEW size \in Nat \ {0}, IsPage(<<>>, from, size)
  PROVE  from = {}
  <1>1. Cardinality(from) \in Nat
    BY FS_CardinalityType
  <1>2. Min({size, Cardinality(from)}) = 0
    BY DEF IsPage
  <1>3. Cardinality(from) = 0
    <2>1. size \in Int /\ Cardinality(from) \in Int
      BY <1>1
    <2>2. Min({size, Cardinality(from)}) \in {size, Cardinality(from)}
      BY <2>1, MinMax
    <2> QED
      BY <1>2, <2>2
  <1> QED
    BY <1>3, FS_EmptySet

\* The rows of a table are finitely many.
LEMMA VisibleIsFinite ==
  ASSUME PageInv
  PROVE  IsFiniteSet(Visible) /\ \A t : older(t) \in SUBSET Visible /\ IsFiniteSet(older(t))
  <1>1. IsFiniteSet(DOMAIN rows)
    <2>1. DOMAIN rows = 1..Len(rows) /\ Len(rows) \in Nat
      BY DEF PageInv, TypeOK
    <2> QED
      BY <2>1, FS_Interval
  <1>2. Visible \subseteq DOMAIN rows
    BY DEF Visible
  <1>3. \A t : older(t) \subseteq Visible
    BY DEF older
  <1>4. IsFiniteSet(Visible)
    BY <1>1, <1>2, FS_Subset
  <1> QED
    BY <1>3, <1>4, FS_Subset

\* Messages only ever get a deletion mark: what a step of the table leaves as it
\* was keeps the invariant.
LEMMA TableKeeps ==
  ASSUME PageInv, UNCHANGED client, clock' \in Nat, rows' \in Seq(Row), writing' \in [Writers -> Nat \cup {Idle}],
         Len(rows') >= Len(rows),
         \A m \in DOMAIN rows : rows'[m].created_at = rows[m].created_at /\ (rows[m].deleted => rows'[m].deleted)
  PROVE  PageInv'
  <1>1. /\ limit' = limit /\ before' = before /\ shown' = shown /\ present' = present /\ done' = done
    BY DEF client
  <1>2. /\ rows \in Seq(Row) /\ DOMAIN rows = 1..Len(rows) /\ DOMAIN rows' = 1..Len(rows') /\ Len(rows) \in Nat
        /\ Len(rows') \in Nat /\ shown \in Seq(Nat) /\ present \subseteq Nat
    BY DEF PageInv, TypeOK
  <1>3. DOMAIN rows \subseteq DOMAIN rows'
    BY <1>2
  <1>4. TypeOK'
    BY <1>1 DEF PageInv, TypeOK
  <1>5. \A i \in DOMAIN shown : shown[i] \in DOMAIN rows /\ rows'[shown[i]].created_at = rows[shown[i]].created_at
    BY DEF PageInv
  <1>6. \A m \in Visible' \cap present' : m \in Visible \cap present /\ rows'[m].created_at = rows[m].created_at
    BY <1>1, <1>2 DEF Visible, PageInv
  <1>7. NewestFirst'
    BY <1>1, <1>5 DEF PageInv, NewestFirst
  <1>8. \A m \in Visible' \cap present' : Covered(m) => Covered(m)'
    BY <1>1, <1>5, <1>6 DEF Covered
  <1>9. OnlyTiesAreMissed'
    BY <1>1, <1>6, <1>8 DEF PageInv, OnlyTiesAreMissed
  <1>10. \A m \in Visible' \cap present' : m \in older(before) => m \in older(before)'
    BY <1>1, <1>6 DEF older
  <1>11. before' = IF shown' = <<>> THEN Unbounded ELSE rows'[shown'[Len(shown')]].created_at
    <2>1. shown # <<>> => Len(shown) \in DOMAIN shown
      BY <1>2
    <2> QED
      BY <1>1, <1>5, <2>1 DEF PageInv
  <1>12. \A m \in present' : m <= Len(rows')
    BY <1>1, <1>2 DEF PageInv
  <1> QED
    BY <1>1, <1>3, <1>4, <1>5, <1>6, <1>7, <1>8, <1>9, <1>10, <1>11, <1>12 DEF PageInv

-----------------------------------------------------------------------------
(* A page.                                                                 *)

LEMMA ListKeeps ==
  ASSUME PageInv, List
  PROVE  PageInv'
  <1> PICK from : from = older(before)
    OBVIOUS
  <1> PICK size : size = page_size(limit)
    OBVIOUS
  <1> PICK page \in UNION {[1..n -> from] : n \in 0..size} :
             /\ IsPage(page, from, size)
             /\ shown' = shown \o page
             /\ done' = (page = <<>>)
             /\ before' = IF page = <<>> THEN before ELSE rows[page[Len(page)]].created_at
    BY DEF List
  <1>1. /\ ~done /\ present' = IF present = NotStarted THEN Visible ELSE present
        /\ clock' = clock /\ rows' = rows /\ writing' = writing /\ limit' = limit
    BY DEF List
  <1>2. size \in Nat \ {0}
    BY PageHasRoom DEF PageInv, TypeOK
  <1>3. /\ rows \in Seq(Row) /\ DOMAIN rows = 1..Len(rows) /\ Len(rows) \in Nat
        /\ \A m \in DOMAIN rows : rows[m].created_at \in Nat
    <2>1. rows \in Seq(Row)
      BY DEF PageInv, TypeOK
    <2>2. \A m \in DOMAIN rows : rows[m] \in Row
      BY <2>1
    <2>3. \A r \in Row : r.created_at \in Nat
      BY DEF Row
    <2> QED
      BY <2>1, <2>2, <2>3
  <1>4. from \subseteq Visible /\ from \subseteq DOMAIN rows /\ Visible \subseteq DOMAIN rows
    BY DEF older, Visible
  <1>5. page \in Seq(from) /\ page \in Seq(DOMAIN rows) /\ page \in Seq(Nat)
    <2>1. PICK n \in 0..size : page \in [1..n -> from]
      OBVIOUS
    <2>2. n \in Nat /\ from \subseteq Nat
      BY <1>2, <1>3, <1>4
    <2> QED
      BY <2>1, <2>2, <1>4
  <1>6. shown \in Seq(Nat) /\ \A i \in DOMAIN shown : shown[i] \in DOMAIN rows
    BY DEF PageInv, TypeOK
  <1>7. /\ shown' \in Seq(Nat) /\ Len(shown') = Len(shown) + Len(page)
        /\ \A i \in DOMAIN shown : shown'[i] = shown[i] /\ i \in DOMAIN shown'
        /\ \A i \in DOMAIN page : shown'[Len(shown) + i] = page[i] /\ Len(shown) + i \in DOMAIN shown'
    BY SMTT(30), <1>5, <1>6
  <1>8. \A k \in DOMAIN shown' : \/ k \in DOMAIN shown
                                  \/ \E i \in DOMAIN page : k = Len(shown) + i
    <2> SUFFICES ASSUME NEW k \in DOMAIN shown', k \notin DOMAIN shown
                 PROVE  \E i \in DOMAIN page : k = Len(shown) + i
      OBVIOUS
    <2>1. k - Len(shown) \in DOMAIN page /\ k = Len(shown) + (k - Len(shown))
      BY <1>5, <1>6, <1>7
    <2> QED
      BY <2>1
  <1>9. \A i \in DOMAIN page : page[i] \in from /\ page[i] \in DOMAIN rows
    BY <1>4, <1>5
  \* Everything shown so far is newer than everything on the page.
  <1>10. \A i \in DOMAIN shown, m \in from : rows[shown[i]].created_at > rows[m].created_at
    <2> SUFFICES ASSUME NEW i \in DOMAIN shown, NEW m \in from
                 PROVE  rows[shown[i]].created_at > rows[m].created_at
      OBVIOUS
    <2>1. shown # <<>> /\ Len(shown) \in DOMAIN shown /\ i <= Len(shown) /\ i \in Nat
      BY <1>6
    <2>2. before = rows[shown[Len(shown)]].created_at /\ before \in Nat /\ before # Unbounded
      BY SMTT(30), <1>3, <1>6, <2>1 DEF PageInv, Unbounded
    <2>3. rows[m].created_at < before
      BY <2>2 DEF older
    <2>4. rows[shown[i]].created_at >= rows[shown[Len(shown)]].created_at
      BY <2>1, <1>3, <1>6 DEF PageInv, NewestFirst
    <2>5. rows[m].created_at \in Nat /\ rows[shown[i]].created_at \in Nat
      BY <1>3, <1>4, <1>6
    <2> QED
      BY <2>2, <2>3, <2>4, <2>5
  <1>11. NewestFirst'
    <2> SUFFICES ASSUME NEW i \in DOMAIN shown', NEW j \in DOMAIN shown', i < j
                 PROVE  shown'[i] # shown'[j] /\ rows[shown'[i]].created_at >= rows[shown'[j]].created_at
      BY <1>1 DEF NewestFirst
    <2>1. CASE j \in DOMAIN shown
      <3>1. i \in DOMAIN shown
        BY <2>1, <1>6, <1>7
      <3> QED
        BY SMTT(30), <2>1, <3>1, <1>7 DEF PageInv, NewestFirst
    <2>2. CASE i \in DOMAIN shown /\ j \notin DOMAIN shown
      <3>1. PICK k \in DOMAIN page : j = Len(shown) + k
        BY <2>2, <1>8
      <3>2. shown'[i] = shown[i] /\ shown'[j] = page[k] /\ page[k] \in from
        BY <2>2, <3>1, <1>7, <1>9
      <3>3. rows[shown[i]].created_at > rows[page[k]].created_at
        BY <2>2, <3>2, <1>10
      <3>4. rows[shown[i]].created_at \in Nat /\ rows[page[k]].created_at \in Nat
        BY <2>2, <1>3, <1>6, <1>9
      <3>5. shown[i] # page[k]
        BY <3>3, <3>4
      <3> QED
        BY <3>2, <3>3, <3>4, <3>5
    <2>3. CASE i \notin DOMAIN shown /\ j \notin DOMAIN shown
      <3>1. PICK k \in DOMAIN page : i = Len(shown) + k
        BY <2>3, <1>8
      <3>2. PICK l \in DOMAIN page : j = Len(shown) + l
        BY <2>3, <1>8
      <3>3. k \in 1..l - 1 /\ shown'[i] = page[k] /\ shown'[j] = page[l]
        BY <3>1, <3>2, <1>5, <1>6, <1>7
      <3> QED
        BY <3>3 DEF IsPage
    <2> QED
      BY <2>1, <2>2, <2>3
  \* What was there from the start is ahead of the cursor or covered already.
  <1>12. \A m \in Visible' \cap present' : m \in Visible /\ (m \in from \/ Covered(m))
    <2>1. Visible' = Visible
      BY <1>1 DEF Visible
    <2>2. CASE present = NotStarted
      <3>1. before = Unbounded
        BY <2>2 DEF PageInv
      <3>2. from = Visible
        BY <3>1 DEF older
      <3> QED
        BY <2>1, <3>2
    <2>3. CASE present # NotStarted
      BY <1>1, <2>1, <2>3 DEF PageInv
    <2> QED
      BY <2>2, <2>3
  <1>13. \A m : Covered(m) => Covered(m)'
    BY <1>1, <1>7 DEF Covered
  <1>14. \A m \in Visible : (\E i \in DOMAIN page : page[i] = m \/ rows[page[i]].created_at = rows[m].created_at)
                              => Covered(m)'
    <2> SUFFICES ASSUME NEW m \in Visible, NEW i \in DOMAIN page,
                        page[i] = m \/ rows[page[i]].created_at = rows[m].created_at
                 PROVE  \E k \in DOMAIN shown' : shown'[k] = m \/ rows[shown'[k]].created_at = rows[m].created_at
      BY <1>1, Zenon DEF Covered
    <2>1. Len(shown) + i \in DOMAIN shown' /\ shown'[Len(shown) + i] = page[i]
      BY <1>7
    <2> QED
      BY <2>1, Zenon
  <1>15. /\ present' # NotStarted /\ present' \subseteq Nat
         /\ \A m \in present' : m <= Len(rows)
    <2>1. 0 \notin Visible /\ Visible \subseteq Nat /\ \A m \in Visible : m <= Len(rows)
      BY <1>3, <1>4
    <2> QED
      BY <1>1, <2>1 DEF PageInv, TypeOK, NotStarted
  <1>16. \A i \in DOMAIN shown' : shown'[i] \in DOMAIN rows
    <2> SUFFICES ASSUME NEW i \in DOMAIN shown' PROVE shown'[i] \in DOMAIN rows
      OBVIOUS
    <2>1. CASE i \in DOMAIN shown
      BY <2>1, <1>6, <1>7
    <2>2. CASE \E k \in DOMAIN page : i = Len(shown) + k
      BY <2>2, <1>7, <1>9
    <2> QED
      BY <2>1, <2>2, <1>8
  <1>17. /\ before' \in Nat \cup {Unbounded}
         /\ before' = IF shown' = <<>> THEN Unbounded ELSE rows[shown'[Len(shown')]].created_at
    <2>1. CASE page = <<>>
      <3>1. shown' = shown /\ before' = before
        BY <2>1, <1>6
      <3> QED
        BY <3>1 DEF PageInv, TypeOK
    <2>2. CASE page # <<>>
      <3>1. Len(page) \in DOMAIN page /\ shown' # <<>>
        BY <2>2, <1>5, <1>7
      <3>2. shown'[Len(shown')] = page[Len(page)]
        BY <3>1, <1>7
      <3>3. before' = rows[page[Len(page)]].created_at /\ before' \in Nat
        BY <2>2, <3>1, <1>3, <1>9
      <3> QED
        BY <3>1, <3>2, <3>3
    <2> QED
      BY <2>1, <2>2
  <1>18. TypeOK'
    BY <1>1, <1>7, <1>15, <1>17 DEF PageInv, TypeOK
  <1>19. /\ done' => \A m \in Visible' \cap present' : Covered(m)'
         /\ \A m \in Visible' \cap present' : m \in older(before)' \/ Covered(m)'
    <2>1. CASE page = <<>>
      <3>1. IsFiniteSet(from)
        BY VisibleIsFinite
      <3>2. from = {}
        BY <1>2, <2>1, <3>1, EmptyPage
      <3> QED
        BY <1>12, <1>13, <3>2
    <2>2. CASE page # <<>>
      <3>1. Len(page) \in DOMAIN page /\ ~done'
        <4>1. Len(page) \in DOMAIN page
          BY <2>2, <1>5
        <4>2. ~done'
          BY <2>2, Zenon
        <4> QED
          BY <4>1, <4>2
      <3> SUFFICES ASSUME NEW m \in Visible' \cap present', ~Covered(m)'
                   PROVE  m \in older(before)'
        BY <3>1
      <3>2. m \in Visible /\ m \in from
        BY <1>12, <1>13
      <3>3. \A i \in DOMAIN page : page[i] # m /\ rows[page[i]].created_at # rows[m].created_at
        BY <3>2, <1>14
      <3>4. ~(rows[m].created_at > rows[page[Len(page)]].created_at)
        BY <3>1, <3>2, <3>3 DEF IsPage
      <3>5. rows[m].created_at \in Nat /\ rows[page[Len(page)]].created_at \in Nat
        BY <3>1, <3>2, <1>3, <1>4, <1>9
      <3>6. rows[m].created_at < before'
        BY <2>2, <3>1, <3>3, <3>4, <3>5
      <3> QED
        BY <1>1, <3>2, <3>6 DEF older, Visible
    <2> QED
      BY <2>1, <2>2
  <1> QED
    BY <1>1, <1>11, <1>15, <1>16, <1>17, <1>18, <1>19 DEF PageInv, OnlyTiesAreMissed

LEMMA WriteKeeps ==
  ASSUME PageInv, NEW w \in Writers, Begin(w) \/ Commit(w)
  PROVE  PageInv'
  <1>1. clock \in Nat /\ rows \in Seq(Row) /\ writing \in [Writers -> Nat \cup {Idle}]
    BY DEF PageInv, TypeOK
  <1>2. CASE Begin(w)
    <2>1. writing' \in [Writers -> Nat \cup {Idle}]
      BY <1>1, <1>2 DEF Begin
    <2> QED
      BY <1>1, <1>2, <2>1, TableKeeps DEF Begin
  <1>3. CASE Commit(w)
    <2>1. PICK new : new = [created_at |-> writing[w], deleted |-> FALSE]
      OBVIOUS
    <2>2. new \in Row
      BY <1>1, <1>3, <2>1 DEF Commit, Row
    <2>3. rows' = Append(rows, new)
      BY <1>3, <2>1 DEF Commit
    <2>4. rows' \in Seq(Row) /\ Len(rows') >= Len(rows) /\ \A m \in DOMAIN rows : rows'[m] = rows[m]
      BY <1>1, <2>2, <2>3
    <2>5. writing' \in [Writers -> Nat \cup {Idle}]
      BY <1>1, <1>3 DEF Commit
    <2> QED
      BY <1>1, <1>3, <2>4, <2>5, TableKeeps DEF Commit
  <1> QED
    BY <1>2, <1>3

LEMMA DeleteKeeps ==
  ASSUME PageInv, NEW d \in DOMAIN rows, DeleteOwned(d)
  PROVE  PageInv'
  <1>1. clock \in Nat /\ rows \in Seq(Row) /\ writing \in [Writers -> Nat \cup {Idle}]
    BY DEF PageInv, TypeOK
  <1>2. rows' = [rows EXCEPT ![d].deleted = TRUE]
    BY DEF DeleteOwned
  <1>3. rows[d] \in Row
    BY <1>1
  <1>4. [rows[d] EXCEPT !.deleted = TRUE] \in Row
    BY <1>3 DEF Row
  <1>5. rows' \in Seq(Row) /\ Len(rows') = Len(rows)
    BY <1>1, <1>2, <1>4
  <1>6. \A m \in DOMAIN rows : rows'[m].created_at = rows[m].created_at /\ (rows[m].deleted => rows'[m].deleted)
    <2>1. \A m \in DOMAIN rows : m # d => rows'[m] = rows[m]
      BY <1>1, <1>2
    <2>2. rows'[d] = [rows[d] EXCEPT !.deleted = TRUE]
      BY <1>1, <1>2
    <2>3. rows'[d].created_at = rows[d].created_at /\ rows'[d].deleted = TRUE
      BY <1>3, <2>2 DEF Row
    <2> QED
      BY <2>1, <2>3
  <1> QED
    BY <1>1, <1>5, <1>6, TableKeeps DEF DeleteOwned

-----------------------------------------------------------------------------
(* The theorems.                                                           *)

\* The cursor of list_for_conversation stands at the last message shown and has
\* everything that was there from the start before it or behind it, whatever is
\* stored and deleted between two pages.
THEOREM PageInvariant == Spec => []PageInv
  <1>1. Init => PageInv
    <2> SUFFICES ASSUME Init PROVE PageInv
      OBVIOUS
    <2>1. TypeOK
      <3>1. writing \in [Writers -> Nat \cup {Idle}] /\ rows \in Seq(Row) /\ shown \in Seq(Nat)
        BY DEF Init
      <3>2. clock \in Nat /\ present \subseteq Nat /\ before \in Nat \cup {Unbounded}
        BY DEF Init, NotStarted
      <3>3. limit \in Limits /\ done \in BOOLEAN
        BY DEF Init
      <3> QED
        BY <3>1, <3>2, <3>3 DEF TypeOK
    <2>2. Visible = {} /\ present = {0} /\ ~done /\ before = Unbounded /\ shown = <<>> /\ Len(rows) = 0
      BY DEF Init, Visible, NotStarted
    <2> QED
      BY <2>1, <2>2 DEF PageInv, NewestFirst, OnlyTiesAreMissed
  <1>2. PageInv /\ [Next]_vars => PageInv'
    <2> SUFFICES ASSUME PageInv, [Next]_vars PROVE PageInv'
      OBVIOUS
    <2>1. clock \in Nat /\ rows \in Seq(Row) /\ writing \in [Writers -> Nat \cup {Idle}]
      BY DEF PageInv, TypeOK
    <2>2. CASE Tick
      BY <2>1, <2>2, TableKeeps DEF Tick
    <2>3. CASE UNCHANGED vars
      BY <2>1, <2>3, TableKeeps DEF vars, client
    <2> QED
      BY <2>2, <2>3, ListKeeps, WriteKeeps, DeleteKeeps DEF Next
  <1> QED
    BY <1>1, <1>2, PTL DEF Spec

\* GET /messages shows messages newest first and none twice, across pages too.
THEOREM AlwaysNewestFirst == Spec => []NewestFirst
  <1>1. PageInv => NewestFirst
    BY DEF PageInv
  <1> QED
    BY <1>1, PageInvariant, PTL

\* A client that pages to the end misses at most messages whose created_at is
\* that of one it was shown.
THEOREM NothingButTies == Spec => []OnlyTiesAreMissed
  <1>1. PageInv => OnlyTiesAreMissed
    BY DEF PageInv
  <1> QED
    BY <1>1, PageInvariant, PTL
=============================================================================
