----------------------------- MODULE ListingsProofs -----------------------------
(***************************************************************************)
(* Theorems about Listings, for any finite set of rows, any clock, any page *)
(* size and any number of writers.                                          *)
(***************************************************************************)
EXTENDS Listings, SequenceLemmas, FiniteSetTheorems

(***************************************************************************)
(* The invariant says where the cursor of an unfinished list stands: it is *)
(* the last of the entries that are listed, and of the rows nobody touched *)
(* all that are not behind it are listed.                                  *)
(***************************************************************************)
CursorIsLast ==
    /\ reader.pc = "idle" => Listed = {} /\ reader.cursor = None
    /\ reader.pc = "reading" =>
          /\ reader.cursor \in Listed
          /\ \A f \in Listed : f = reader.cursor \/ Before(f, reader.cursor)
    /\ reader.admitted => reader.pc \in {"idle", "reading"}

Wanted(i) == EntryOf(i).key >= list.from

NothingLeftBehind ==
    reader.pc = "reading" =>
        \A i \in steady :
            Wanted(i) /\ ~Past(reader.cursor, EntryOf(i)) => EntryOf(i) \in Listed

SteadyIsLive == \A i \in steady : Live(i)

IInv ==
    /\ TypeOK /\ CursorIsLast /\ PagesAreInOrder
    /\ SteadyIsLive /\ NothingLeftBehind /\ NoGap

-----------------------------------------------------------------------------
(* The order and the LIMIT.                                                *)

Rank(rows, e) == Cardinality({f \in rows : Before(f, e)})

LEMMA BeforeIsStrict == \A e \in Entry : ~Before(e, e)
  BY DEF Before, Entry

LEMMA BeforeIsTransitive ==
    \A e, f, g \in Entry : Before(e, f) /\ Before(f, g) => Before(e, g)
  BY DEF Before, Entry

LEMMA BeforeIsTotal == \A e, f \in Entry : e = f \/ Before(e, f) \/ Before(f, e)
  BY DEF Before, Entry

\* A row has more rows before it than any of those.
LEMMA RankGrows ==
    ASSUME NEW rows \in SUBSET Entry, IsFiniteSet(rows),
           NEW e \in rows, NEW f \in rows, Before(f, e)
    PROVE  Rank(rows, f) \in Nat /\ Rank(rows, e) \in Nat /\ Rank(rows, f) < Rank(rows, e)
<1> DEFINE A == {g \in rows : Before(g, f)}
           B == {g \in rows : Before(g, e)}
<1>1. A \in SUBSET B
  BY BeforeIsTransitive
<1>2. f \in B /\ f \notin A
  BY BeforeIsStrict
<1>3. IsFiniteSet(B) /\ IsFiniteSet(A)
  BY FS_Subset
<1> HIDE DEF A, B
<1>4. Cardinality(A) \in Nat /\ Cardinality(B) \in Nat
  BY <1>3, FS_CardinalityType
<1>5. Cardinality(A) <= Cardinality(B) /\ Cardinality(A) # Cardinality(B)
  BY <1>1, <1>2, <1>3, FS_Subset
<1> QED
  BY <1>4, <1>5 DEF Rank, A, B

\* A page is closed under the order.
LEMMA PageIsInitial ==
    ASSUME NEW rows \in SUBSET Entry, IsFiniteSet(rows), NEW n \in Nat,
           NEW e \in rows, NEW f \in FirstOf(rows, n), Before(e, f)
    PROVE  e \in FirstOf(rows, n)
<1>1. f \in rows /\ Rank(rows, f) < n
  BY DEF FirstOf, Rank
<1>2. Rank(rows, e) < n
  BY <1>1, RankGrows
<1> QED
  BY <1>2 DEF FirstOf, Rank

\* A row that is not on a page has at least n + 1 rows before it, or is the first
\* behind the page: if LIMIT n + 1 returns no more than LIMIT n, then nothing is
\* left.
LEMMA ShortPageIsAll ==
    ASSUME NEW rows \in SUBSET Entry, IsFiniteSet(rows), NEW n \in Nat \ {0},
           FirstOf(rows, n + 1) = FirstOf(rows, n)
    PROVE  rows \subseteq FirstOf(rows, n)
<1> DEFINE page == FirstOf(rows, n)
           left == rows \ page
<1> SUFFICES ASSUME left # {} PROVE FALSE
  OBVIOUS
<1>0. \A e \in rows : Rank(rows, e) \in Nat
  <2> TAKE e \in rows
  <2>1. {f \in rows : Before(f, e)} \in SUBSET rows
    OBVIOUS
  <2>2. IsFiniteSet({f \in rows : Before(f, e)})
    BY <2>1, FS_Subset
  <2> QED
    BY <2>2, FS_CardinalityType DEF Rank
<1>1. \A e \in rows : e \in page <=> Rank(rows, e) < n
  BY DEF FirstOf, Rank
<1>2. \A e \in left : ~(Rank(rows, e) < n + 1)
  BY <1>1 DEF FirstOf, Rank
<1>3. PICK e \in left : \A f \in left : Rank(rows, e) <= Rank(rows, f)
  <2> DEFINE S == {Rank(rows, f) : f \in left}
  <2>1. S \in SUBSET Nat /\ S # {}
    BY <1>0
  <2> HIDE DEF S
  <2>2. PICK x \in S : \A y \in S : x <= y
    BY <2>1, LeastNatural
  <2> QED
    BY <2>2 DEF S
<1> DEFINE B == {f \in rows : Before(f, e)}
<1>4. B \subseteq page
  <2> SUFFICES ASSUME NEW f \in B, f \notin page PROVE FALSE
    OBVIOUS
  <2>1. f \in left /\ Rank(rows, f) < Rank(rows, e)
    BY RankGrows
  <2> QED
    BY <2>1, <1>3, <1>0
<1>5. IsFiniteSet(B) /\ Cardinality(B) \in Nat /\ Cardinality(B) = Rank(rows, e)
  <2>1. B \in SUBSET rows
    OBVIOUS
  <2> QED
    BY <2>1, FS_Subset, <1>0 DEF Rank
<1>6. B # {}
  BY <1>5, <1>2, FS_EmptySet
<1>7. PICK m \in B : \A f \in B : Rank(rows, f) <= Rank(rows, m)
  <2> DEFINE S == {n - Rank(rows, f) : f \in B}
  <2>1. \A f \in B : n - Rank(rows, f) \in Nat
    BY <1>0, <1>1, <1>4
  <2>2. S \in SUBSET Nat /\ S # {}
    BY <2>1, <1>6
  <2>3. PICK x \in S : \A y \in S : x <= y
    <3> HIDE DEF S
    <3> QED
      BY <2>2, LeastNatural
  <2>4. PICK m \in B : x = n - Rank(rows, m)
    BY <2>3
  <2>5. \A f \in B : n - Rank(rows, m) <= n - Rank(rows, f)
    BY <2>3, <2>4
  <2> QED
    BY <2>5, <1>0
<1> DEFINE M == {f \in rows : Before(f, m)}
<1>8. B \subseteq M \cup {m}
  <2> SUFFICES ASSUME NEW f \in B, f # m PROVE Before(f, m)
    OBVIOUS
  <2>1. ~Before(m, f)
    BY RankGrows, <1>7, <1>0
  <2> QED
    BY <2>1, BeforeIsTotal
<1>9. IsFiniteSet(M) /\ Cardinality(M) = Rank(rows, m) /\ Rank(rows, m) \in Nat
      /\ Rank(rows, m) < n
  <2>1. M \in SUBSET rows
    OBVIOUS
  <2> QED
    BY <2>1, FS_Subset, <1>0, <1>1, <1>4 DEF Rank
<1>10. Cardinality(B) <= Rank(rows, m) + 1
  <2> HIDE DEF M, B
  <2>1. IsFiniteSet(M \cup {m})
        /\ Cardinality(M \cup {m}) = IF m \in M THEN Cardinality(M) ELSE Cardinality(M) + 1
    BY <1>9, FS_AddElement
  <2>2. Cardinality(B) <= Cardinality(M \cup {m})
    BY <2>1, <1>8, FS_Subset
  <2> QED
    BY <2>1, <2>2, <1>5, <1>9
<1> QED
  BY <1>2, <1>3, <1>5, <1>9, <1>10, <1>0

-----------------------------------------------------------------------------
(* What a request reads.                                                   *)

LEMMA EntriesAreFinite == TypeOK => IsFiniteSet({EntryOf(i) : i \in {j \in Ids : Live(j)}})
<1> SUFFICES ASSUME TypeOK PROVE IsFiniteSet({EntryOf(i) : i \in {j \in Ids : Live(j)}})
  OBVIOUS
<1> DEFINE L == {j \in Ids : Live(j)}
           E == {EntryOf(i) : i \in L}
           f == [i \in L |-> EntryOf(i)]
<1>1. IsFiniteSet(L)
  <2>1. L \in SUBSET Ids
    OBVIOUS
  <2> QED
    BY <2>1, IdsAssumption, FS_Subset
<1>2. f \in Surjection(L, E)
  BY DEF Surjection
<1> QED
  <2> HIDE DEF L, E, f
  <2>1. IsFiniteSet(E)
    BY <1>1, <1>2, FS_Surjection
  <2> QED
    BY <2>1 DEF E, L

LEMMA SelectedRows ==
    ASSUME TypeOK, NEW cursor
    PROVE  Selected(cursor) \in SUBSET Entry /\ IsFiniteSet(Selected(cursor))
<1>1. Selected(cursor) \in SUBSET {EntryOf(i) : i \in {j \in Ids : Live(j)}}
  BY DEF Selected
<1>2. \A i \in Ids : Live(i) => EntryOf(i) \in Entry
  BY IdsAssumption DEF EntryOf, Entry, Live, TypeOK
<1>3. Selected(cursor) \in SUBSET Entry
  BY <1>1, <1>2
<1> QED
  BY <1>1, <1>3, EntriesAreFinite, FS_Subset

LEMMA LimitIsPositive ==
    ASSUME NEW limit \in Nat PROVE ClampLimit(limit) \in Nat \ {0}
  BY BoundsAssumption DEF ClampLimit

-----------------------------------------------------------------------------
LEMMA InitIInv == Init => IInv
<1> SUFFICES ASSUME Init PROVE IInv
  OBVIOUS
<1>1. reader = NewReader /\ steady = {}
  BY DEF Init
<1>2. TypeOK
  <2>1. reader \in Reader
    BY <1>1 DEF NewReader, Reader
  <2>2. 0 \in Times
    BY BoundsAssumption DEF Times
  <2> QED
    BY <1>1, <2>1, <2>2 DEF Init, TypeOK
<1> QED
  BY <1>1, <1>2 DEF IInv, NewReader, CursorIsLast, PagesAreInOrder, Listed, SteadyIsLive,
     NothingLeftBehind, NoGap

\* The writers move nothing that is steady.
LEMMA WriterStep ==
    ASSUME IInv, TypeOK', UNCHANGED <<list, reader>>, steady' \subseteq steady,
           \A i \in steady' : table'[i] = table[i]
    PROVE  IInv'
<1> USE DEF IInv
<1>1. CursorIsLast' /\ PagesAreInOrder'
  BY DEF CursorIsLast, PagesAreInOrder, Listed, Before
<1>2. SteadyIsLive'
  BY DEF SteadyIsLive, Live
<1>3. \A i \in steady' : EntryOf(i)' = EntryOf(i)
  BY DEF EntryOf
<1>4. NothingLeftBehind'
  BY <1>3 DEF NothingLeftBehind, Listed, Wanted, Past, Before
<1>5. NoGap'
  BY <1>3 DEF NoGap, Listed, Before
<1> QED
  BY <1>1, <1>2, <1>4, <1>5

LEMMA WritersKeepTypes ==
    ASSUME TypeOK
    PROVE  /\ \A i \in Ids, t \in Times : WriteMemory(i, t) => TypeOK'
           /\ \A i \in Ids : DeleteRow(i) \/ TakeTime(i) => TypeOK'
           /\ \A w \in stamps : CommitTime(w) => TypeOK'
           /\ CloseSession \/ Tick => TypeOK'
<1> USE DEF TypeOK
<1>1. ASSUME NEW i \in Ids, NEW t \in Times, WriteMemory(i, t) PROVE TypeOK'
  BY <1>1 DEF WriteMemory, Write
<1>2. ASSUME NEW i \in Ids, DeleteRow(i) PROVE TypeOK'
  BY <1>2 DEF DeleteRow, Write
<1>3. ASSUME NEW i \in Ids, TakeTime(i) PROVE TypeOK'
  BY <1>3 DEF TakeTime, Stamp
<1>4. ASSUME NEW w \in stamps, CommitTime(w) PROVE TypeOK'
  BY <1>4 DEF CommitTime, Write
<1>5. ASSUME CloseSession PROVE TypeOK'
  BY <1>5 DEF CloseSession
<1>6. ASSUME Tick PROVE TypeOK'
  BY <1>6, BoundsAssumption DEF Tick, Times
<1> QED
  BY <1>1, <1>2, <1>3, <1>4, <1>5, <1>6

LEMMA WritersKeepSteady ==
    ASSUME TypeOK
    PROVE  /\ \A i \in Ids, t \in Times : WriteMemory(i, t) =>
                  UNCHANGED <<list, reader>> /\ steady' \subseteq steady
                  /\ \A j \in steady' : table'[j] = table[j]
           /\ \A i \in Ids : DeleteRow(i) \/ TakeTime(i) =>
                  UNCHANGED <<list, reader>> /\ steady' \subseteq steady
                  /\ \A j \in steady' : table'[j] = table[j]
           /\ \A w \in stamps : CommitTime(w) =>
                  UNCHANGED <<list, reader>> /\ steady' \subseteq steady
                  /\ \A j \in steady' : table'[j] = table[j]
           /\ CloseSession \/ Tick =>
                  UNCHANGED <<list, reader>> /\ steady' \subseteq steady
                  /\ \A j \in steady' : table'[j] = table[j]
  BY DEF TypeOK, WriteMemory, DeleteRow, TakeTime, CommitTime, CloseSession, Tick, Write

LEMMA OpenStep == ASSUME IInv, OpenSession PROVE IInv'
<1> USE DEF IInv
<1>1. /\ reader'.shown = reader.shown /\ reader'.page = reader.page
      /\ \/ reader'.pc = reader.pc /\ reader'.cursor = reader.cursor /\ reader.pc \in {"idle", "reading"}
         \/ reader'.pc = "failed" /\ ~reader'.admitted
      /\ UNCHANGED <<list, table, steady>>
  BY DEF OpenSession, writers, Asks, TypeOK, Reader
<1>2. TypeOK'
  BY DEF OpenSession, writers, Asks, TypeOK, Reader
<1>3. Listed' = Listed
  BY <1>1 DEF Listed
<1>4. CursorIsLast' /\ PagesAreInOrder'
  BY <1>1, <1>3 DEF CursorIsLast, PagesAreInOrder, Before
<1>5. SteadyIsLive'
  BY <1>1 DEF SteadyIsLive, Live
<1>6. \A i \in steady : EntryOf(i)' = EntryOf(i)
  BY <1>1 DEF EntryOf
<1>7. NothingLeftBehind' /\ NoGap'
  BY <1>1, <1>3, <1>6 DEF NothingLeftBehind, NoGap, Wanted, Past, Before
<1> QED
  BY <1>2, <1>4, <1>5, <1>7

LEMMA RestartStep == ASSUME IInv, Restart PROVE IInv'
  BY NullsAssumption DEF IInv, Restart, writers, TypeOK, Reader, NewReader, CursorIsLast,
     PagesAreInOrder, Listed, SteadyIsLive, NothingLeftBehind, NoGap

\* A page from the place of the cursor: everything on it is behind all that is
\* listed, it has everything up to its last entry, and all if nothing is left.
LEMMA PageStep == ASSUME IInv, NEW limit \in Nat, ReadPage(limit) PROVE IInv'
<1> DEFINE n == ClampLimit(limit)
           rows == Selected(reader.cursor)
           page == FirstOf(rows, n)
<1> USE DEF IInv
<1>1. n \in Nat \ {0} /\ rows \in SUBSET Entry /\ IsFiniteSet(rows) /\ page \subseteq rows
  BY LimitIsPositive, SelectedRows DEF FirstOf
<1>2. /\ reader' \in [pc : {"done", "reading"}, admitted : {FALSE}, cursor : page \cup {None},
                      shown : {Listed}, page : {page}]
      /\ \/ reader'.pc = "done" /\ FirstOf(rows, n + 1) = page
         \/ /\ reader'.pc = "reading" /\ reader'.cursor \in page
            /\ \A f \in page : f = reader'.cursor \/ Before(f, reader'.cursor)
      /\ steady' = IF reader.pc = "idle" THEN {i \in Ids : Live(i)} ELSE steady
      /\ UNCHANGED <<list, closed, now, table, stamps>>
  <2> HIDE DEF rows, n
  <2>1. \/ /\ FirstOf(rows, n + 1) = FirstOf(rows, n)
           /\ reader' = [pc |-> "done", admitted |-> FALSE, cursor |-> None,
                         shown |-> Listed, page |-> FirstOf(rows, n)]
        \/ \E e \in FirstOf(rows, n) :
              /\ \A f \in FirstOf(rows, n) : f = e \/ Before(f, e)
              /\ reader' = [pc |-> "reading", admitted |-> FALSE, cursor |-> e,
                            shown |-> Listed, page |-> FirstOf(rows, n)]
    BY Zenon DEF ReadPage, LastOf, CursorOf, Listed, rows, n
  <2>2. /\ steady' = IF reader.pc = "idle" THEN {i \in Ids : Live(i)} ELSE steady
        /\ UNCHANGED <<list, closed, now, table, stamps>>
    BY DEF ReadPage, writers
  <2>3. CASE reader'.pc = "done"
    <3>1. /\ FirstOf(rows, n + 1) = page
          /\ reader' = [pc |-> "done", admitted |-> FALSE, cursor |-> None,
                        shown |-> Listed, page |-> page]
      BY <2>1, <2>3
    <3> QED
      BY <3>1, <2>2
  <2>4. CASE reader'.pc # "done"
    <3>1. PICK e \in page :
              /\ \A f \in page : f = e \/ Before(f, e)
              /\ reader' = [pc |-> "reading", admitted |-> FALSE, cursor |-> e,
                            shown |-> Listed, page |-> page]
      BY <2>1, <2>4
    <3> QED
      BY <3>1, <2>2
  <2> QED
    BY <2>3, <2>4
<1>3. reader.pc \in {"idle", "reading"}
  BY DEF ReadPage, Asks, CursorIsLast
<1>4. Listed \subseteq Entry /\ Listed' = Listed \cup page
  BY <1>2 DEF Listed, TypeOK, Reader
<1> HIDE DEF page, n
<1>5. \A e \in Listed, f \in page : Before(e, f)
  <2> SUFFICES ASSUME NEW e \in Listed, NEW f \in page PROVE Before(e, f)
    OBVIOUS
  <2>1. reader.pc = "reading" /\ reader.cursor \in Listed
        /\ (e = reader.cursor \/ Before(e, reader.cursor))
    BY <1>3 DEF CursorIsLast
  <2>2. Before(reader.cursor, f)
    BY <1>1, <1>4, <2>1, NullsAssumption DEF Selected, Past
  <2> QED
    BY <2>1, <2>2, <1>1, <1>4, BeforeIsTransitive
<1>6. TypeOK'
  <2>1. steady' \subseteq Ids
    BY <1>2 DEF TypeOK
  <2>2. reader' \in Reader
    BY <1>2, <1>1, <1>4 DEF Reader
  <2> QED
    BY <1>2, <2>1, <2>2 DEF TypeOK
<1>7. PagesAreInOrder'
  BY <1>2, <1>5 DEF PagesAreInOrder, Before
<1>8. CursorIsLast'
  <2>1. reader'.pc = "reading" =>
            reader'.cursor \in page
            /\ \A f \in Listed \cup page : f = reader'.cursor \/ Before(f, reader'.cursor)
    BY <1>2, <1>5
  <2> QED
    BY <1>2, <1>4, <2>1 DEF CursorIsLast, Before
<1>9. SteadyIsLive'
  BY <1>2 DEF SteadyIsLive, Live
<1>10. \A i \in steady' : EntryOf(i)' = EntryOf(i) /\ i \in Ids /\ Live(i)
  BY <1>2 DEF EntryOf, TypeOK, SteadyIsLive
<1>11. ASSUME NEW i \in steady', Wanted(i), ~Past(reader.cursor, EntryOf(i))
       PROVE  EntryOf(i) \in Listed
  BY <1>2, <1>3, <1>11 DEF NothingLeftBehind, CursorIsLast, Past
<1>12. ASSUME NEW i \in steady', Wanted(i), Past(reader.cursor, EntryOf(i))
       PROVE  EntryOf(i) \in rows
  BY <1>10, <1>12 DEF Selected, Wanted
<1>13. ASSUME NEW i \in steady', Wanted(i), reader'.pc = "done"
       PROVE  EntryOf(i) \in Listed \cup page
  <2>1. rows \subseteq page
    BY <1>1, <1>2, <1>13, ShortPageIsAll DEF page
  <2> QED
    BY <2>1, <1>11, <1>12, <1>13
<1>14. ASSUME NEW i \in steady', Wanted(i), NEW f \in Listed \cup page,
              EntryOf(i) = f \/ Before(EntryOf(i), f)
       PROVE  EntryOf(i) \in Listed \cup page
  <2>1. CASE Past(reader.cursor, EntryOf(i))
    <3>1. EntryOf(i) \in rows
      BY <1>12, <1>14, <2>1
    <3>2. CASE f \in page
      BY <1>1, <1>14, <3>1, <3>2, PageIsInitial DEF page
    <3>3. CASE f \in Listed
      <4>1. reader.pc = "reading" /\ reader.cursor \in Listed
            /\ (f = reader.cursor \/ Before(f, reader.cursor))
        BY <1>3, <3>3 DEF CursorIsLast
      <4>2. Before(reader.cursor, EntryOf(i))
        BY <2>1, <4>1, <1>4, NullsAssumption DEF Past
      <4>3. f = EntryOf(i) \/ Before(reader.cursor, f)
        BY <4>1, <4>2, <1>14, <1>4, <1>1, <3>1, <3>3, BeforeIsTransitive
      <4> QED
        BY <4>1, <4>3, <3>3, <1>4, BeforeIsTransitive, BeforeIsStrict
    <3> QED
      BY <3>2, <3>3
  <2>2. CASE ~Past(reader.cursor, EntryOf(i))
    BY <1>11, <1>14, <2>2
  <2> QED
    BY <2>1, <2>2
<1>15. NothingLeftBehind'
  <2>1. ASSUME reader'.pc = "reading", NEW i \in steady', Wanted(i),
               ~Before(reader'.cursor, EntryOf(i))
        PROVE  EntryOf(i) \in Listed \cup page
    <3>1. reader'.cursor \in page
      BY <1>2, <2>1
    <3>2. EntryOf(i) \in Entry
      BY <1>10, IdsAssumption DEF EntryOf, Entry, TypeOK, Live
    <3>3. EntryOf(i) = reader'.cursor \/ Before(EntryOf(i), reader'.cursor)
      BY <2>1, <3>1, <3>2, <1>1, BeforeIsTotal
    <3> QED
      BY <2>1, <3>1, <3>3, <1>14
  <2> QED
    BY <2>1, <1>2, <1>4, <1>10 DEF NothingLeftBehind, Past, Before, EntryOf, Wanted
<1>16. NoGap'
  <2> SUFFICES ASSUME NEW i \in steady', Wanted(i),
                      reader'.pc = "done" \/ \E f \in Listed \cup page : Before(EntryOf(i), f)
               PROVE  EntryOf(i) \in Listed \cup page
    BY <1>2, <1>4, <1>10 DEF NoGap, Wanted, Before
  <2> QED
    BY <1>13, <1>14
<1> QED
  BY <1>6, <1>7, <1>8, <1>9, <1>15, <1>16

LEMMA NextIInv == IInv /\ [Next]_vars => IInv'
<1> SUFFICES ASSUME IInv, [Next]_vars PROVE IInv'
  OBVIOUS
<1>0. TypeOK
  BY DEF IInv
<1>1. ASSUME NEW i \in Ids, NEW t \in Times, WriteMemory(i, t) PROVE IInv'
  BY <1>0, <1>1, WritersKeepTypes, WritersKeepSteady, WriterStep
<1>2. ASSUME NEW i \in Ids, DeleteRow(i) \/ TakeTime(i) PROVE IInv'
  BY <1>0, <1>2, WritersKeepTypes, WritersKeepSteady, WriterStep
<1>3. ASSUME NEW w \in stamps, CommitTime(w) PROVE IInv'
  BY <1>0, <1>3, WritersKeepTypes, WritersKeepSteady, WriterStep
<1>4. CASE CloseSession \/ Tick
  BY <1>0, <1>4, WritersKeepTypes, WritersKeepSteady, WriterStep
<1>5. ASSUME NEW limit \in 0..(MaxLimit + 1), ReadPage(limit) PROVE IInv'
  BY <1>5, PageStep
<1>6. CASE OpenSession
  BY <1>6, OpenStep
<1>7. CASE Restart
  BY <1>7, RestartStep
<1>8. CASE UNCHANGED vars
  <2>1. TypeOK'
    BY <1>0, <1>8 DEF TypeOK, vars
  <2> QED
    BY <1>8, <2>1, WriterStep DEF vars
<1> QED
  BY <1>1, <1>2, <1>3, <1>4, <1>5, <1>6, <1>7, <1>8 DEF Next

LEMMA IInvAlways == Spec => []IInv
  BY InitIInv, NextIInv, PTL DEF Spec

\* The table and the reader's pages are well formed, for all three lists.
THEOREM TypeCorrect == Spec => []TypeOK
<1>1. IInv => TypeOK
  BY DEF IInv
<1> QED
  BY <1>1, IInvAlways, PTL

\* Whatever is written between two requests, each page of list_memories,
\* list_sessions and list_session_messages lies strictly behind all pages before it.
THEOREM PagesInOrder == Spec => []PagesAreInOrder
<1>1. IInv => PagesAreInOrder
  BY DEF IInv
<1> QED
  BY <1>1, IInvAlways, PTL

\* A row nobody touched since the first page is never skipped by the pages, for any
\* number of rows and writers and any limit.
THEOREM NothingSkipped == Spec => []NoGap
<1>1. IInv => NoGap
  BY DEF IInv
<1> QED
  BY <1>1, IInvAlways, PTL
=============================================================================
