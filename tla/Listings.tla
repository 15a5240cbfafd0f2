------------------------------- MODULE Listings -------------------------------
(***************************************************************************)
(* The three keyset lists: list_memories (app/services/memory.py), and     *)
(* list_sessions and list_session_messages (app/services/sessions.py).  A  *)
(* reader asks for page after page with the cursor of the page before,     *)
(* each page a statement over the rows that are live and committed by      *)
(* then, while other requests write the table.                             *)
(*                                                                         *)
(* The lists differ in the column they order by and in who changes it.  A  *)
(* memory's event_date is what a user says.  A session's last_message_at is *)
(* a clock reading a request takes before its commit.  A message's         *)
(* created_at is the start of the transaction that inserts it, which for a *)
(* reply is as old as the run of the agent or its last tool.               *)
(***************************************************************************)
EXTENDS Naturals, FiniteSets

CONSTANTS
    Ids,        \* primary keys; uuids are ordered, and so are these
    MaxTime,    \* bound of the clock and of the dates
    MaxLimit,   \* MAX_PAGE_LIMIT
    Writers,    \* bound of the rows being written at a time
    None, Gone  \* a row that is not there yet, or has its deleted_at

ASSUME IdsAssumption == Ids \subseteq Nat /\ IsFiniteSet(Ids)
ASSUME BoundsAssumption == MaxTime \in Nat /\ MaxLimit \in Nat \ {0} /\ Writers \in Nat

Times == 0..MaxTime

\* What a list shows of a row, and its cursor.
Entry == [key : Nat, id : Nat]

ASSUME NullsAssumption ==
    None \notin Nat \cup Entry /\ Gone \notin Nat /\ None # Gone

VARIABLES
    list,    \* the list that is read, and its direction
    closed,  \* the session of a list of messages is deleted
    now,     \* the clock
    table,   \* the committed rows, by id: the ordering column
    stamps,  \* rows being written: an id and the time its request took
    reader,  \* the pages the reader has
    steady   \* history: the rows untouched since the reader's first page

writers == <<closed, now, table, stamps>>
vars == <<list, closed, now, table, stamps, reader, steady>>

Kinds == {"memories", "sessions", "messages"}

\* page is the page that came last, shown the ones before it; admitted is set
\* between the two statements of a request for messages.
Reader == [pc : {"idle", "reading", "done", "failed"}, admitted : BOOLEAN,
           cursor : Entry \cup {None}, shown : SUBSET Entry, page : SUBSET Entry]

NewReader == [pc |-> "idle", admitted |-> FALSE, cursor |-> None,
              shown |-> {}, page |-> {}]

Init ==
    /\ list \in [kind : Kinds, newestFirst : BOOLEAN, from : Times]
    /\ list.kind # "messages" => list.newestFirst
    /\ list.kind # "memories" => list.from = 0
    /\ closed = FALSE /\ now = 0
    /\ table = [i \in Ids |-> None]
    /\ stamps = {}
    /\ reader = NewReader /\ steady = {}

Live(i) == table[i] \in Nat

-----------------------------------------------------------------------------
(* The writers.                                                            *)

\* Row i is written with key t; the reader's history forgets a row that moves.
Write(i, t) ==
    /\ table' = [table EXCEPT ![i] = t]
    /\ steady' = steady \ {i}

\* create_memory, and update_memory with a new event_date.
WriteMemory(i, date) ==
    /\ list.kind = "memories" /\ table[i] # Gone
    /\ Write(i, date)
    /\ UNCHANGED <<list, closed, now, stamps, reader>>

\* delete_memory, and delete_session where the sessions are listed.
DeleteRow(i) ==
    /\ list.kind # "messages" /\ Live(i)
    /\ Write(i, Gone)
    /\ UNCHANGED <<list, closed, now, stamps, reader>>

\* Mutant: a session is created without its last_message_at.
NoStamp == None

Stamp == now

\* create_session and the per-turn writes of a live session take the time, and
\* so does the transaction that will insert a message; messages are kept for a
\* session that was live when its request began.  A row is inserted once.
TakeTime(i) ==
    /\ \/ list.kind = "sessions" /\ table[i] # Gone
       \/ list.kind = "messages" /\ table[i] = None /\ ~closed
    /\ table[i] = None => \A w \in stamps : w.id # i
    /\ Cardinality(stamps) < Writers
    /\ stamps' = stamps \cup {[id |-> i, key |-> Stamp]}
    /\ UNCHANGED <<list, closed, now, table, reader, steady>>

\* The commit: in any order, so that a session's last_message_at may go back and
\* a message may appear behind younger ones.  A deleted row stays deleted.
CommitTime(w) ==
    /\ w \in stamps
    /\ stamps' = stamps \ {w}
    /\ IF table[w.id] = Gone THEN UNCHANGED <<table, steady>> ELSE Write(w.id, w.key)
    /\ UNCHANGED <<list, closed, now, reader>>

\* delete_session where its messages are listed.
CloseSession ==
    /\ list.kind = "messages" /\ ~closed
    /\ closed' = TRUE
    /\ table' = [i \in Ids |-> IF Live(i) THEN Gone ELSE table[i]]
    /\ steady' = {i \in steady : ~Live(i)}
    /\ UNCHANGED <<list, now, stamps, reader>>

Tick ==
    /\ now < MaxTime
    /\ now' = now + 1
    /\ UNCHANGED <<list, closed, table, stamps, reader, steady>>

-----------------------------------------------------------------------------
(* The reader.                                                             *)

\* ORDER BY key, id in the list's direction.
Before(e, f) ==
    IF list.newestFirst THEN \/ e.key > f.key
                             \/ e.key = f.key /\ e.id > f.id
    ELSE \/ e.key < f.key
         \/ e.key = f.key /\ e.id < f.id

EntryOf(i) == [key |-> table[i], id |-> i]

\* Mutants: the comparison of the key alone, once strict and once not.
PastByKey(cursor, e) == cursor = None \/ (Before(cursor, e) /\ cursor.key # e.key)
PastOrAt(cursor, e) == cursor = None \/ Before(cursor, e) \/ cursor.key = e.key

\* The keyset comparison with the decoded cursor.
Past(cursor, e) == cursor = None \/ Before(cursor, e)

\* The WHERE clause; list.from is from_date.
Selected(cursor) ==
    {e \in {EntryOf(i) : i \in {j \in Ids : Live(j)}} :
        e.key >= list.from /\ Past(cursor, e)}

ClampLimit(limit) ==
    IF limit < 1 THEN 1 ELSE IF limit > MaxLimit THEN MaxLimit ELSE limit

\* LIMIT n: the rows with fewer than n before them.
FirstOf(rows, n) == {e \in rows : Cardinality({f \in rows : Before(f, e)}) < n}

\* Mutant: the cursor is taken from the row that was fetched to look ahead.
FromLookahead(rows, n, e) == e \in FirstOf(rows, n + 1) \ FirstOf(rows, n)

\* rows[limit - 1], the last row of a full page.
LastOf(rows, n, e) ==
    e \in FirstOf(rows, n) /\ \A f \in FirstOf(rows, n) : f = e \/ Before(f, e)

\* Mutant: the cursor's time is written with less precision than the column has.
CoarseCursor(e) == [e EXCEPT !.key = 2 * (e.key \div 2)]

\* The cursor carries the time to the microsecond, as the column does, and the id.
CursorOf(e) == e

Asks == reader.pc \in {"idle", "reading"} /\ ~reader.admitted

\* get_session: the messages of a deleted session are a 404.
OpenSession ==
    /\ Asks /\ list.kind = "messages"
    /\ reader' = IF closed THEN [reader EXCEPT !.pc = "failed", !.cursor = None]
                 ELSE [reader EXCEPT !.admitted = TRUE]
    /\ UNCHANGED <<list, writers, steady>>

\* A page: limit + 1 rows are fetched; the one too many says that there are more.
\* (The endpoints let no limit through that is clamped.)
ReadPage(limit) ==
    LET n == ClampLimit(limit)
        rows == Selected(reader.cursor)
        page == FirstOf(rows, n)
        turned(pc, cursor) ==
            [pc |-> pc, admitted |-> FALSE, cursor |-> cursor,
             shown |-> reader.shown \cup reader.page, page |-> page]
    IN  /\ IF list.kind = "messages" THEN reader.admitted ELSE Asks
        /\ \/ FirstOf(rows, n + 1) = page /\ reader' = turned("done", None)
           \/ /\ FirstOf(rows, n + 1) # page
              /\ \E e \in FirstOf(rows, n + 1) :
                    LastOf(rows, n, e) /\ reader' = turned("reading", CursorOf(e))
        /\ steady' = IF reader.pc = "idle" THEN {i \in Ids : Live(i)} ELSE steady
        /\ UNCHANGED <<list, writers>>

\* useInfiniteQuery fetches again from the first page, with new cursors.
Restart ==
    /\ reader.pc # "idle"
    /\ reader' = NewReader /\ steady' = {}
    /\ UNCHANGED <<list, writers>>

Next ==
    \/ \E i \in Ids : (\E t \in Times : WriteMemory(i, t)) \/ DeleteRow(i) \/ TakeTime(i)
    \/ \E w \in stamps : CommitTime(w)
    \/ CloseSession \/ Tick
    \/ \E limit \in 0..(MaxLimit + 1) : ReadPage(limit)
    \/ OpenSession \/ Restart

Spec == Init /\ [][Next]_vars

-----------------------------------------------------------------------------
\* The table, the writers' stamps and the reader's pages are well formed.
TypeOK ==
    /\ list \in [kind : Kinds, newestFirst : BOOLEAN, from : Times]
    /\ closed \in BOOLEAN /\ now \in Times
    /\ table \in [Ids -> Times \cup {None, Gone}]
    /\ stamps \subseteq [id : Ids, key : Times]
    /\ reader \in Reader
    /\ steady \subseteq Ids

\* Whatever is written between two pages, a page lies strictly behind all the
\* pages before it: a list put together from pages is in order, and a row is in
\* it twice only if its key changed in between, which a message's never does.
PagesAreInOrder == \A e \in reader.shown, f \in reader.page : Before(e, f)

Listed == reader.shown \cup reader.page

\* A row that nobody touched since the first page is never skipped: it is listed
\* as soon as any row behind it is, and when the list has ended, although rows
\* come, go and move around it.
NoGap ==
    \A i \in steady :
        LET e == EntryOf(i) IN
        /\ e.key >= list.from
        /\ reader.pc = "done" \/ \E f \in Listed : Before(e, f)
        => e \in Listed
=============================================================================
