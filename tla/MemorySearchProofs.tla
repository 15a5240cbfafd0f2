-------------------------- MODULE MemorySearchProofs --------------------------
(***************************************************************************)
(* Theorems about the mirror of the memories in the index: for requests    *)
(* that do not overlap and are not cut off, what the table says of the     *)
(* index is true, and for any requests, what a search returns.             *)
(***************************************************************************)
EXTENDS MemorySearch, MemoryServiceProofs

(***************************************************************************)
(* Requests that do not overlap.  Each one's snapshot is then the committed *)
(* row until its own commit, so the ORM object is what it commits, and the *)
(* document is as the call left it.  The invariant follows one memory      *)
(* through a request: what the row says of the document, except between    *)
(* the answer of the index and the commit, when the ORM object says it.    *)
(***************************************************************************)
OneAtATime == ~Crashes /\ \A q, r \in Requests : q = r

HashOfText(row) == row.content_hash = Canon[row.text]

\* What a live row that knows its document says of it.
Indexed(row, doc) ==
    ~row.deleted /\ row.external_id =>
        /\ doc # NoDoc
        /\ row.external_status = "synced" => doc.meta = row.meta

NotRepatched(row) == row.deleted /\ row.external_id => row.external_status # "unsynced"

\* What a request that is about to commit knows of the document.
Done(q, doc) ==
    /\ Indexed(q.cur, doc) /\ NotRepatched(q.cur)
    /\ q.op = "sync" /\ ~q.cur.deleted /\ q.cur.external_status = "synced" =>
          doc = DocOf(q.cur)
    /\ /\ q.op # "create" /\ q.base.external_id
       /\ q.cur.deleted /\ q.cur.external_status = "synced"
       => doc = NoDoc

\* A request q on a row, before and after its call.
Alone(q, row, doc) ==
    /\ HashOfText(q.cur)
    /\ q.op = "create" /\ q.pc # "commit" => ~q.cur.external_id
    /\ q.op # "create" => q.base = row
    /\ q.op # "create" /\ q.pc # "commit" => q.cur.external_id = q.base.external_id
    /\ q.op \in {"update", "delete"} => ~q.base.deleted
    /\ q.op = "sync" => q.base.external_status # "synced"
    /\ q.pc = "commit" => Done(q, doc)

RequestsAlone ==
    \A r \in Requests : req[r] # Idle => Alone(req[r], rows[req[r].id], docs[req[r].id])

\* A request has had the index's answer for i and not yet committed it.
Answering(i) == \E r \in Requests : req[r].pc = "commit" /\ req[r].id = i

RowsIndexed ==
    \A i \in Ids : rows[i] # NoRow =>
        /\ HashOfText(rows[i]) /\ NotRepatched(rows[i])
        /\ ~Answering(i) => Indexed(rows[i], docs[i])

DocsOwned == \A i \in Ids : docs[i] # NoDoc => rows[i] # NoRow \/ Answering(i)

SInv == RequestsAlone /\ RowsIndexed /\ DocsOwned

\* A row that calls itself synced knows its document.
Known(row) == row.external_status = "synced" /\ ~row.deleted => row.external_id

RowsKnown == \A i \in Ids : rows[i] # NoRow => Known(rows[i])

RequestsKnown == \A r \in Requests : req[r] # Idle => Known(req[r].cur)

KInv == RowsKnown /\ RequestsKnown

-----------------------------------------------------------------------------
(* One request moves.                                                      *)

\* A request that has not called the index yet gets the record new, and the
\* document of its memory changes only with the answer.
LEMMA AloneMoves ==
    ASSUME OneAtATime, IInv, SInv, NEW r \in Requests, req[r].pc # "commit",
           NEW new, req' = [req EXCEPT ![r] = new], rows' = rows,
           \A i \in Ids : docs'[i] = docs[i] \/ (new.pc = "commit" /\ new.id = i),
           new # Idle => Alone(new, rows[new.id], docs'[new.id])
    PROVE  SInv'
<1>1. req'[r] = new /\ \A q \in Requests : q = r
    BY DEF IInv, TypeOK, OneAtATime
<1>2. RequestsAlone'
    BY <1>1 DEF RequestsAlone
<1>3. \A i \in Ids : ~Answering(i) /\ (Answering(i)' <=> new.pc = "commit" /\ new.id = i)
    BY <1>1 DEF Answering
<1>4. RowsIndexed'
    BY <1>3 DEF SInv, RowsIndexed
<1>5. DocsOwned'
    BY <1>3 DEF SInv, DocsOwned
<1> QED BY <1>2, <1>4, <1>5 DEF SInv

LEMMA AloneEnds ==
    ASSUME OneAtATime, IInv, SInv, NEW r \in Requests, req[r].pc # "commit",
           Finish(r), UNCHANGED <<rows, docs>>
    PROVE  SInv'
BY AloneMoves DEF Finish

LEMMA AloneGoes ==
    ASSUME OneAtATime, IInv, SInv, NEW r \in Requests,
           req[r].pc \in {"insert", "flush", "index"},
           NEW pc \in {"refetch", "index", "call"}, Goto(r, pc), UNCHANGED <<rows, docs>>
    PROVE  SInv'
<1>1. PICK new : new = [req[r] EXCEPT !.pc = pc]
    OBVIOUS
<1>2. /\ req[r] \in Request /\ req[r] # Idle
      /\ new.pc = pc /\ new.op = req[r].op /\ new.id = req[r].id
      /\ new.base = req[r].base /\ new.cur = req[r].cur
    BY <1>1, IdleType DEF IInv, TypeOK, Request
<1>3. Alone(new, rows[new.id], docs'[new.id])
    BY <1>2 DEF SInv, RequestsAlone, Alone
<1>4. req' = [req EXCEPT ![r] = new]
    BY <1>1 DEF Goto
<1> QED BY <1>3, <1>4, AloneMoves

LEMMA AloneBegins ==
    ASSUME OneAtATime, IInv, SInv, NEW r \in Requests, req[r].pc # "commit",
           NEW pc, NEW op, NEW i \in Ids, NEW base, NEW cur,
           Begin(r, pc, op, i, base, cur), UNCHANGED <<rows, docs>>,
           Alone([pc |-> pc, op |-> op, id |-> i, base |-> base, cur |-> cur],
                 rows[i], docs[i])
    PROVE  SInv'
<1>1. PICK new : new = [pc |-> pc, op |-> op, id |-> i, base |-> base, cur |-> cur]
    OBVIOUS
<1>2. req' = [req EXCEPT ![r] = new] /\ new.id = i
    BY <1>1 DEF Begin
<1> QED BY <1>1, <1>2, AloneMoves

\* What a committed row is known to be while no request has called for it.
LEMMA RowAtRest ==
    ASSUME OneAtATime, IInv, SInv, NEW r \in Requests, req[r].pc # "commit",
           NEW i \in Ids, rows[i] # NoRow
    PROVE  /\ rows[i] \in Row /\ HashOfText(rows[i]) /\ NotRepatched(rows[i])
           /\ Indexed(rows[i], docs[i]) /\ Purging(rows[i])
BY DEF OneAtATime, SInv, RowsIndexed, Answering, IInv, TypeOK, RowsPurging

-----------------------------------------------------------------------------
(* The actions before the call.                                            *)

LEMMA StartCreateAlone ==
    ASSUME OneAtATime, IInv, SInv, NEW r \in Requests, NEW i \in Ids,
           NEW t \in Texts, NEW m \in Metas, StartCreate(r, i, t, m)
    PROVE  SInv'
<1>1. CASE Begin(r, "insert", "create", i, NoRow, NewRow(t, m))
    <2>1. Alone([pc |-> "insert", op |-> "create", id |-> i, base |-> NoRow,
                 cur |-> NewRow(t, m)], rows[i], docs[i])
        BY DEF Alone, HashOfText, NewRow
    <2> QED BY <1>1, <2>1, AloneBegins DEF StartCreate
<1>2. CASE Finish(r)
    BY <1>2, AloneEnds DEF StartCreate
<1> QED BY <1>1, <1>2 DEF StartCreate

LEMMA InsertMemoryAlone ==
    ASSUME OneAtATime, IInv, SInv, NEW r \in Requests, InsertMemory(r)
    PROVE  SInv'
<1> DEFINE new == req[r].cur
<1>1. req[r].pc = "insert" /\ UNCHANGED <<rows, docs>>
    BY DEF InsertMemory
<1>2. CASE Goto(r, "refetch")
    BY <1>1, <1>2, AloneGoes
<1>3. CASE Begin(r, "call", "create", req[r].id, new, new)
    <2>1. Creating(req[r], rows[req[r].id])
        BY <1>1, IdleType DEF IInv, RequestsInShape, Shape, Changing
    <2>2. HashOfText(new) /\ ~new.external_id /\ req[r].id \in Ids
        BY <1>1, <2>1, IdleType DEF Creating, SInv, RequestsAlone, Alone
    <2>3. Alone([pc |-> "call", op |-> "create", id |-> req[r].id, base |-> new,
                 cur |-> new], rows[req[r].id], docs[req[r].id])
        BY <2>2 DEF Alone
    <2> HIDE DEF new
    <2> QED BY <1>1, <1>3, <2>2, <2>3, AloneBegins
<1>4. CASE Finish(r)
    BY <1>1, <1>4, AloneEnds
<1> QED BY <1>2, <1>3, <1>4 DEF InsertMemory

LEMMA StartUpdateAlone ==
    ASSUME OneAtATime, IInv, SInv, NEW r \in Requests, NEW i \in Ids,
           NEW t \in Texts, NEW m \in Metas, StartUpdate(r, i, t, m)
    PROVE  SInv'
<1> DEFINE row == rows[i]
           edited == [row EXCEPT !.text = t, !.content_hash = HashAfter(row, t),
                                 !.meta = m]
<1>1. CASE Finish(r)
    BY <1>1, AloneEnds DEF StartUpdate
<1>2. ASSUME Live(i), NEW pc \in {"flush", "call"}, Begin(r, pc, "update", i, row, edited)
      PROVE  SInv'
    <2>1. row \in Row /\ HashOfText(row) /\ ~row.deleted
        BY <1>2, RowAtRest DEF Live, StartUpdate
    <2>2. HashOfText(edited) /\ edited.external_id = row.external_id
        BY <2>1 DEF HashOfText, HashAfter, Row
    <2>3. Alone([pc |-> pc, op |-> "update", id |-> i, base |-> row, cur |-> edited],
                row, docs[i])
        BY <2>1, <2>2 DEF Alone
    <2> HIDE DEF edited
    <2> QED BY <1>2, <2>3, AloneBegins DEF StartUpdate
<1> QED BY <1>1, <1>2 DEF StartUpdate

LEMMA StartDeleteAlone ==
    ASSUME OneAtATime, IInv, SInv, NEW r \in Requests, NEW i \in Ids, StartDelete(r, i)
    PROVE  SInv'
<1> DEFINE row == rows[i]
           tomb == [row EXCEPT !.deleted = TRUE]
<1>1. CASE Finish(r)
    BY <1>1, AloneEnds DEF StartDelete
<1>2. ASSUME Live(i), NEW pc \in {"call", "commit"}, Begin(r, pc, "delete", i, row, tomb),
             pc = "commit" => ~row.external_id
      PROVE  SInv'
    <2>1. row \in Row /\ HashOfText(row) /\ ~row.deleted
        BY <1>2, RowAtRest DEF Live, StartDelete
    <2>2. /\ HashOfText(tomb) /\ tomb.deleted
          /\ tomb.external_id = row.external_id
        BY <2>1 DEF HashOfText, Row
    <2>3. Alone([pc |-> pc, op |-> "delete", id |-> i, base |-> row, cur |-> tomb],
                row, docs[i])
        BY <1>2, <2>1, <2>2 DEF Alone, Done, Indexed, NotRepatched
    <2> HIDE DEF tomb
    <2> QED BY <1>2, <2>3, AloneBegins DEF StartDelete
<1> QED BY <1>1, <1>2 DEF StartDelete

\* The branch for a purge without a document is never taken.
LEMMA StartSyncAlone ==
    ASSUME OneAtATime, IInv, SInv, NEW r \in Requests, NEW i \in Ids, StartSync(r, i)
    PROVE  SInv'
<1> DEFINE row == rows[i]
<1>1. CASE Finish(r)
    BY <1>1, AloneEnds DEF StartSync
<1>2. CASE ~Finish(r)
    <2>1. /\ row \in Row /\ HashOfText(row) /\ Purging(row)
          /\ row.external_status # "synced"
        BY <1>2, RowAtRest DEF StartSync
    <2>2. Begin(r, "call", "sync", i, row, row)
        BY <1>2, <2>1 DEF StartSync, Purging
    <2>3. Alone([pc |-> "call", op |-> "sync", id |-> i, base |-> row, cur |-> row],
                row, docs[i])
        BY <2>1 DEF Alone
    <2> HIDE DEF row
    <2> QED BY <2>2, <2>3, AloneBegins DEF StartSync, row
<1> QED BY <1>1, <1>2
-----------------------------------------------------------------------------
(* The call.                                                               *)

\* What a request that calls the index knows, alone: it will not patch a
\* tombstone, and a live row it patches has its document.
LEMMA CallingAlone ==
    ASSUME OneAtATime, IInv, SInv, NEW r \in Requests, req[r].pc = "call"
    PROVE  LET q == req[r] IN
           /\ q \in Request /\ q.id \in Ids /\ q.cur \in Row /\ q # Idle
           /\ Alone(q, rows[q.id], docs[q.id])
           /\ q.op = "create" \/ (/\ q.op \in {"update", "delete", "sync"}
                                  /\ Changing(q, rows[q.id])
                                  /\ NotRepatched(q.base) /\ Indexed(q.base, docs[q.id]))
<1>1. /\ req[r] \in Request /\ req[r].id \in Ids /\ req[r].cur \in Row
      /\ \/ Creating(req[r], rows[req[r].id])
         \/ Changing(req[r], rows[req[r].id])
    BY CallingShape
<1>2. req[r] # Idle /\ Alone(req[r], rows[req[r].id], docs[req[r].id])
    BY IdleType DEF SInv, RequestsAlone
<1>3. CASE Changing(req[r], rows[req[r].id])
    <2>1. req[r].op \in {"update", "delete", "sync"} /\ rows[req[r].id] \in Row
        BY <1>3 DEF Changing
    <2>2. rows[req[r].id] # NoRow /\ req[r].base = rows[req[r].id]
        BY <1>2, <2>1, NoRowIsNoRow DEF Alone
    <2>3. NotRepatched(rows[req[r].id]) /\ Indexed(rows[req[r].id], docs[req[r].id])
        BY <1>1, <2>2, RowAtRest
    <2> QED BY <1>1, <1>2, <1>3, <2>1, <2>2, <2>3
<1> QED BY <1>1, <1>2, <1>3 DEF Creating

\* The answer to any call: the request goes on to its commit with the row.
LEMMA AloneAnswered ==
    ASSUME OneAtATime, IInv, SInv, NEW r \in Requests, req[r].pc = "call",
           NEW row, Answered(r, row), rows' = rows,
           \A i \in Ids \ {req[r].id} : docs'[i] = docs[i],
           row.text = req[r].cur.text, row.content_hash = req[r].cur.content_hash,
           Indexed(row, docs'[req[r].id]), NotRepatched(row),
           req[r].op = "sync" /\ ~row.deleted /\ row.external_status = "synced" =>
               docs'[req[r].id] = DocOf(row),
           /\ req[r].op # "create" /\ req[r].base.external_id
           /\ row.deleted /\ row.external_status = "synced"
           => docs'[req[r].id] = NoDoc
    PROVE  SInv'
<1>1. PICK new : new = [req[r] EXCEPT !.pc = "commit", !.cur = row]
    OBVIOUS
<1>2. /\ new.pc = "commit" /\ new.op = req[r].op /\ new.id = req[r].id
      /\ new.base = req[r].base /\ new.cur = row
    BY <1>1, CallingAlone DEF Request
<1>3. Alone(req[r], rows[req[r].id], docs[req[r].id])
    BY CallingAlone
<1>4. HashOfText(row)
    BY <1>3 DEF Alone, HashOfText
<1>5. Done(new, docs'[req[r].id])
    BY <1>2 DEF Done
<1>6. Alone(new, rows[new.id], docs'[new.id])
    BY <1>2, <1>3, <1>4, <1>5 DEF Alone
<1>7. req' = [req EXCEPT ![r] = new]
    BY <1>1 DEF Answered
<1> QED BY <1>2, <1>6, <1>7, AloneMoves

LEMMA CallAddAlone ==
    ASSUME OneAtATime, IInv, SInv, NEW r \in Requests, NEW reply \in Replies,
           CallAdd(r, reply)
    PROVE  SInv'
<1> DEFINE i == req[r].id
           cur == req[r].cur
<1>1. req[r].pc = "call" /\ ~WantsDelete(r) /\ ~cur.external_id /\ rows' = rows
    BY DEF CallAdd
<1>2. /\ req[r] \in Request /\ i \in Ids /\ cur \in Row
      /\ req[r].op \in {"create", "update", "delete", "sync"}
      /\ req[r].op # "create" => Changing(req[r], rows[i])
    BY <1>1, CallingAlone
<1>3. PICK row : row = [cur EXCEPT !.external_id = reply = "ok",
                                   !.external_status = AfterPush(reply)]
    OBVIOUS
<1>4. /\ row.text = cur.text /\ row.content_hash = cur.content_hash
      /\ row.meta = cur.meta /\ row.deleted = cur.deleted
      /\ row.external_id <=> reply = "ok"
      /\ row.external_status = "synced" <=> reply = "ok"
      /\ row.external_status \in {"synced", "unsynced"}
    BY <1>2, <1>3 DEF Row, AfterPush
<1>5. DocOf(row) = DocOf(cur) /\ DocOf(cur) \in Doc /\ DocOf(cur).meta = row.meta
    BY <1>2, <1>4 DEF DocOf, Doc, Row
<1>6. /\ \A j \in Ids \ {i} : docs'[j] = docs[j]
      /\ reply = "ok" => docs'[i] = DocOf(cur)
    BY <1>2 DEF CallAdd, IInv, TypeOK
<1>7. Answered(r, row)
    BY <1>3 DEF CallAdd
<1>8. req[r].op # "create" => ~req[r].base.external_id
    BY <1>1, <1>2 DEF Changing, Follows
<1> HIDE DEF i, cur
<1>9. Indexed(row, docs'[i]) /\ NotRepatched(row)
    BY <1>4, <1>5, <1>6, NoRowIsNoRow DEF Indexed, NotRepatched
<1> QED BY <1>1, <1>4, <1>5, <1>6, <1>7, <1>8, <1>9, AloneAnswered DEF i, cur

LEMMA CallPatchAlone ==
    ASSUME OneAtATime, IInv, SInv, NEW r \in Requests, NEW reply \in Replies,
           CallPatch(r, reply)
    PROVE  SInv'
<1> DEFINE i == req[r].id
           cur == req[r].cur
<1>1. req[r].pc = "call" /\ ~WantsDelete(r) /\ cur.external_id /\ rows' = rows
    BY DEF CallPatch
<1>2. /\ req[r] \in Request /\ i \in Ids /\ cur \in Row
      /\ Alone(req[r], rows[i], docs[i])
    BY <1>1, CallingAlone
<1>3. /\ req[r].op \in {"update", "sync"} /\ Changing(req[r], rows[i])
      /\ NotRepatched(req[r].base) /\ Indexed(req[r].base, docs[i])
    BY <1>1, CallingAlone DEF Alone, WantsDelete
<1>4. ~cur.deleted /\ ~req[r].base.deleted /\ docs[i] # NoDoc
    <2>1. req[r].op = "sync" => req[r].cur = req[r].base
        BY <1>1, <1>3 DEF Changing
    <2>2. ~req[r].base.deleted
        BY <1>1, <1>2, <1>3, <2>1 DEF Alone, NotRepatched, WantsDelete, Changing, Row, Statuses
    <2>3. cur.deleted = req[r].base.deleted
        BY <1>3 DEF Changing
    <2>4. req[r].base.external_id => docs[i] # NoDoc
        BY <1>3, <2>2 DEF Indexed
    <2>5. cur.external_id = req[r].base.external_id
        BY <1>1, <1>2, <1>3 DEF Alone
    <2> QED BY <1>1, <2>2, <2>3, <2>4, <2>5
<1>5. PICK row : row = [cur EXCEPT !.external_status = AfterPush(reply)]
    OBVIOUS
<1>6. /\ row.text = cur.text /\ row.content_hash = cur.content_hash
      /\ row.meta = cur.meta /\ row.deleted = cur.deleted
      /\ row.external_status = "synced" <=> reply = "ok"
    BY <1>2, <1>5 DEF Row, AfterPush
<1>7. /\ \A j \in Ids \ {i} : docs'[j] = docs[j]
      /\ docs'[i] \in Doc /\ docs'[i] # NoDoc
      /\ reply = "ok" => docs'[i].meta = row.meta
      /\ reply = "ok" /\ req[r].op = "sync" => docs'[i] = DocOf(row)
    <2>1. PICK doc : doc = [text |-> IF SendsContent(r) THEN cur.text ELSE docs[i].text,
                            meta |-> cur.meta]
        OBVIOUS
    <2>2. docs[i] \in Doc
        BY <1>2, <1>4 DEF IInv, TypeOK
    <2>3. /\ doc \in Doc /\ doc.meta = row.meta
          /\ req[r].op = "sync" => doc = DocOf(row)
        BY <1>2, <1>6, <2>1, <2>2 DEF Doc, Row, DocOf, SendsContent
    <2>4. docs' = IF reply = "refused" THEN docs ELSE [docs EXCEPT ![i] = doc]
        BY <1>4, <2>1 DEF CallPatch
    <2> HIDE DEF i, cur
    <2>5. docs'[i] = IF reply = "refused" THEN docs[i] ELSE doc
        BY <1>2, <2>4 DEF IInv, TypeOK
    <2>6. \A j \in Ids \ {i} : docs'[j] = docs[j]
        BY <1>2, <2>4 DEF IInv, TypeOK
    <2> QED BY <2>2, <2>3, <2>5, <2>6, NoRowIsNoRow
<1>8. Answered(r, row)
    BY <1>4, <1>5 DEF CallPatch
<1> HIDE DEF i, cur
<1>9. Indexed(row, docs'[i]) /\ NotRepatched(row)
    BY <1>4, <1>6, <1>7 DEF Indexed, NotRepatched
<1> QED BY <1>1, <1>4, <1>6, <1>7, <1>8, <1>9, AloneAnswered DEF i, cur

LEMMA CallDeleteAlone ==
    ASSUME OneAtATime, IInv, SInv, NEW r \in Requests, NEW reply \in Replies,
           CallDelete(r, reply)
    PROVE  SInv'
<1> DEFINE i == req[r].id
           cur == req[r].cur
<1>1. req[r].pc = "call" /\ WantsDelete(r) /\ rows' = rows
    BY DEF CallDelete
<1>2. req[r] \in Request /\ i \in Ids /\ cur \in Row /\ Changing(req[r], rows[i])
    BY <1>1, CallingAlone DEF WantsDelete
<1>3. cur.deleted
    BY <1>1, <1>2 DEF Changing, WantsDelete, Purging
<1>4. PICK row : row = [cur EXCEPT !.external_status = AfterPurge(cur, reply)]
    OBVIOUS
<1>5. /\ row.text = cur.text /\ row.content_hash = cur.content_hash
      /\ row.deleted = cur.deleted /\ row.external_status # "unsynced"
      /\ row.external_status = "synced" => reply = "ok"
    BY <1>2, <1>4 DEF Row, AfterPurge
<1>6. /\ \A j \in Ids \ {i} : docs'[j] = docs[j]
      /\ reply = "ok" => docs'[i] = NoDoc
    BY <1>2 DEF CallDelete, IInv, TypeOK
<1>7. Answered(r, row)
    BY <1>4 DEF CallDelete
<1> HIDE DEF i, cur
<1>8. Indexed(row, docs'[i]) /\ NotRepatched(row)
    BY <1>3, <1>5 DEF Indexed, NotRepatched
<1> QED BY <1>1, <1>3, <1>5, <1>6, <1>7, <1>8, AloneAnswered DEF i, cur

-----------------------------------------------------------------------------
(* The commit.                                                             *)

LEMMA MergeAlone ==
    ASSUME NEW base \in Row, NEW cur \in Row
    PROVE  Merge(base, base, cur) = cur
BY DEF Merge, Column, Row

LEMMA CommitsWhatItHas ==
    ASSUME OneAtATime, IInv, SInv, NEW r \in Requests, req[r].pc = "commit"
    PROVE  LET q == req[r] IN
           /\ q.id \in Ids /\ q # Idle /\ Version(r) = q.cur
           /\ Alone(q, rows[q.id], docs[q.id])
           /\ \/ Creating(q, rows[q.id])
              \/ Changing(q, rows[q.id]) /\ q.op # "create"
<1>1. req[r] # Idle /\ req[r].id \in Ids /\ Alone(req[r], rows[req[r].id], docs[req[r].id])
    BY CommitShape, IdleType DEF SInv, RequestsAlone
<1>2. CASE Creating(req[r], rows[req[r].id])
    BY <1>1, <1>2 DEF Creating, Version
<1>3. CASE Changing(req[r], rows[req[r].id])
    <2>1. /\ req[r].op # "create" /\ req[r].base = rows[req[r].id]
          /\ req[r].base \in Row /\ req[r].cur \in Row
        BY <1>1, <1>3 DEF Changing, Alone
    <2> QED BY <1>1, <1>3, <2>1, MergeAlone DEF Version
<1> QED BY <1>2, <1>3, CommitShape

LEMMA CommitMemoryAlone ==
    ASSUME OneAtATime, IInv, SInv, NEW r \in Requests, CommitMemory(r)
    PROVE  SInv'
<1> DEFINE i == req[r].id
           cur == req[r].cur
<1>1. req[r].pc = "commit" /\ docs' = docs
    BY DEF CommitMemory
<1>2. /\ i \in Ids /\ req[r] # Idle /\ Version(r) = cur
      /\ Alone(req[r], rows[i], docs[i])
    BY <1>1, CommitsWhatItHas
<1>3. /\ rows'[i] = cur /\ \A j \in Ids \ {i} : rows'[j] = rows[j]
      /\ req'[r] = Idle
    BY <1>2 DEF CommitMemory, Finish, IInv, TypeOK
<1>4. \A q \in Requests : q = r
    BY DEF OneAtATime
<1>5. HashOfText(cur) /\ NotRepatched(cur) /\ Indexed(cur, docs[i])
    BY <1>1, <1>2 DEF Alone, Done
<1>6. \A j \in Ids : ~Answering(j)' /\ (Answering(j) <=> j = i)
    BY <1>1, <1>3, <1>4, IdleType DEF Answering
<1>7. RequestsAlone'
    BY <1>3, <1>4 DEF RequestsAlone
<1>8. cur \in Row /\ cur # NoRow
    BY <1>1, <1>2, CommitShape, NoRowIsNoRow
<1> HIDE DEF i, cur
<1>9. RowsIndexed'
    BY <1>1, <1>3, <1>5, <1>6 DEF SInv, RowsIndexed
<1>10. DocsOwned'
    BY <1>1, <1>3, <1>6, <1>8 DEF SInv, DocsOwned
<1> QED BY <1>7, <1>9, <1>10 DEF SInv

-----------------------------------------------------------------------------
(* Any step.                                                               *)

LEMMA InitAlone == Init => SInv
<1> SUFFICES ASSUME Init PROVE SInv
    OBVIOUS
<1>1. RequestsAlone /\ RowsIndexed /\ DocsOwned
    BY DEF Init, RequestsAlone, RowsIndexed, DocsOwned
<1> QED BY <1>1 DEF SInv

\* Nobody waits for a transaction, so there is no deadlock, and no crash.
LEMMA NothingIsCutOff ==
    ASSUME OneAtATime, NEW r \in Requests
    PROVE  ~DeadlockAbort(r) /\ ~Crash(r)
<1>1. \A q \in Requests : Blockers(q) = {}
    BY DEF OneAtATime, Blockers
<1>2. \A C \in SUBSET Requests : ~WaitsOnItself(C)
    BY <1>1 DEF WaitsOnItself
<1> QED BY <1>2 DEF DeadlockAbort, Deadlocked, Crash, OneAtATime

LEMMA NextAlone == OneAtATime /\ IInv /\ SInv /\ [Next]_vars => SInv'
<1> SUFFICES ASSUME OneAtATime, IInv, SInv, [Next]_vars PROVE SInv'
    OBVIOUS
<1>1. CASE UNCHANGED vars
    BY <1>1 DEF vars, SInv, RequestsAlone, RowsIndexed, DocsOwned, Answering
<1>2. ASSUME NEW r \in Requests, NEW i \in Ids, Start(r, i) PROVE SInv'
    BY <1>2, StartCreateAlone, StartUpdateAlone, StartDeleteAlone, StartSyncAlone DEF Start
<1>3. ASSUME NEW r \in Requests, Call(r) PROVE SInv'
    BY <1>3, CallAddAlone, CallPatchAlone, CallDeleteAlone DEF Call
<1>4. ASSUME NEW r \in Requests, Advance(r) PROVE SInv'
    <2>1. CASE RefetchTwin(r)
        BY <2>1, AloneEnds DEF RefetchTwin
    <2>2. CASE FlushUpdate(r)
        <3>1. PICK pc \in {"index", "call"} : Goto(r, pc)
            BY <2>2 DEF FlushUpdate
        <3> QED BY <2>2, <3>1, AloneGoes DEF FlushUpdate
    <2>3. CASE IndexUpdate(r)
        BY <2>3, AloneGoes, AloneEnds DEF IndexUpdate
    <2> QED BY <1>3, <1>4, <2>1, <2>2, <2>3, InsertMemoryAlone, CommitMemoryAlone,
               NothingIsCutOff DEF Advance
<1> QED BY <1>1, <1>2, <1>4, NothingIsCutOff DEF Next

THEOREM AloneInvariance == ASSUME OneAtATime PROVE Spec => [](IInv /\ SInv)
<1>1. Init => IInv /\ SInv
    BY InitIInv, InitAlone
<1>2. IInv /\ SInv /\ [Next]_vars => (IInv /\ SInv)'
    BY NextIInv, NextAlone
<1> QED BY <1>1, <1>2, PTL DEF Spec

-----------------------------------------------------------------------------
\* The stored digest is that of the stored text: an update recomputes it from
\* the text it writes, and what it leaves alone was right before.
THEOREM HashesMatch == ASSUME OneAtATime PROVE Spec => []HashMatchesText
<1>1. SInv => HashMatchesText
    BY DEF SInv, RowsIndexed, HashOfText, HashMatchesText, Live
<1> QED BY <1>1, AloneInvariance, PTL

\* A live memory with a document id has a document, with the row's metadata if
\* the row says synced, through any failed, lost and repeated calls.
THEOREM LiveIsIndexed == ASSUME OneAtATime PROVE Spec => []IndexHasLiveMemory
<1>1. SInv => IndexHasLiveMemory
    BY DEF SInv, RowsIndexed, Indexed, Answering, IndexHasLiveMemory, Settled, Live
<1> QED BY <1>1, AloneInvariance, PTL

\* A document is a committed memory's or that of one whose create is about to
\* commit: create_memory calls the index last, when its INSERT has passed.
THEOREM DocumentsHaveOwners == ASSUME OneAtATime PROVE Spec => []NoOrphanDocument
<1>1. ASSUME IInv, SInv PROVE NoOrphanDocument
    <2> SUFFICES ASSUME NEW i \in Ids, docs[i] # NoDoc, rows[i] = NoRow
                 PROVE  \E r \in Requests : req[r].op = "create" /\ req[r].id = i
        BY DEF NoOrphanDocument
    <2>1. PICK r \in Requests : req[r].pc = "commit" /\ req[r].id = i
        BY <1>1 DEF SInv, DocsOwned, Answering
    <2>2. Creating(req[r], rows[i])
        BY <1>1, <2>1, CommitShape, NoRowIsNoRow
    <2> QED BY <2>1, <2>2 DEF Creating
<1> QED BY <1>1, AloneInvariance, PTL

\* A tombstone that knows its document is never unsynced, so sync_memory takes
\* the branch that deletes and cannot patch it back.
THEOREM TombstonesStayPurged == ASSUME OneAtATime PROVE Spec => []TombstoneIsNotRepatched
<1>1. SInv => TombstoneIsNotRepatched
    BY DEF SInv, RowsIndexed, NotRepatched, TombstoneIsNotRepatched, Settled
<1> QED BY <1>1, AloneInvariance, PTL

\* A sync that reports a live row synced has made its document equal to it,
\* whether it added or patched: sync_memory always sends the content.
THEOREM SyncsRepair == ASSUME OneAtATime PROVE Spec => SyncRepairs
<1> DEFINE Repairs ==
        \A r \in Requests :
            LET i == req[r].id IN
            /\ req[r].op = "sync" /\ CommitMemory(r) /\ Live(i)
            /\ rows'[i].external_status = "synced"
            => docs'[i] = DocOf(rows'[i])
<1>1. ASSUME IInv, SInv, NEW r \in Requests, req[r].op = "sync", CommitMemory(r),
             Live(req[r].id), rows'[req[r].id].external_status = "synced"
      PROVE  docs'[req[r].id] = DocOf(rows'[req[r].id])
    <2>1. /\ req[r].id \in Ids /\ Version(r) = req[r].cur
          /\ Alone(req[r], rows[req[r].id], docs[req[r].id])
          /\ Changing(req[r], rows[req[r].id])
        BY <1>1, CommitsWhatItHas DEF CommitMemory, Creating
    <2>2. rows'[req[r].id] = req[r].cur /\ docs' = docs
        BY <1>1, <2>1 DEF CommitMemory, IInv, TypeOK
    <2>3. ~req[r].cur.deleted
        BY <1>1, <2>1 DEF Changing, Alone, Live
    <2> QED BY <1>1, <2>1, <2>2, <2>3 DEF Alone, Done, CommitMemory
<1>2. IInv /\ SInv /\ [Next]_vars => [Repairs]_vars
    BY <1>1
<1> QED BY <1>2, AloneInvariance, PTL DEF Spec, SyncRepairs

\* The deletion of an indexed memory is recorded as done only when its document
\* is gone, by the delete itself or by a later sync.
THEOREM PurgesAreReal == ASSUME OneAtATime PROVE Spec => PurgeIsReal
<1> DEFINE Purges ==
        \A i \in Ids :
            /\ rows[i] # NoRow /\ rows[i] # rows'[i] /\ rows[i].external_id
            /\ rows'[i].deleted /\ rows'[i].external_status = "synced"
            => docs'[i] = NoDoc
<1>1. ASSUME IInv, SInv, NEW r \in Requests, CommitMemory(r) PROVE Purges
    <2> SUFFICES ASSUME NEW i \in Ids, rows[i] # NoRow, rows[i] # rows'[i],
                        rows[i].external_id, rows'[i].deleted,
                        rows'[i].external_status = "synced"
                 PROVE  docs'[i] = NoDoc
        OBVIOUS
    <2>1. /\ req[r].id \in Ids /\ Version(r) = req[r].cur
          /\ Alone(req[r], rows[req[r].id], docs[req[r].id])
          /\ \/ Creating(req[r], rows[req[r].id])
             \/ req[r].op # "create"
        BY <1>1, CommitsWhatItHas DEF CommitMemory
    <2>2. i = req[r].id /\ rows'[i] = req[r].cur /\ docs' = docs
        BY <1>1, <2>1 DEF CommitMemory, IInv, TypeOK
    <2>3. req[r].op # "create" /\ req[r].base = rows[i]
        BY <1>1, <2>1, <2>2 DEF Creating, CommitMemory, Alone
    <2> QED BY <1>1, <2>1, <2>2, <2>3 DEF Alone, Done, CommitMemory
<1>2. ASSUME rows' = rows PROVE Purges
    BY <1>2
<1>3. IInv /\ SInv /\ [Next]_vars => [Purges]_vars
    BY <1>1, <1>2, OnlyCommitsWriteRows
<1> QED BY <1>3, AloneInvariance, PTL DEF Spec, PurgeIsReal

-----------------------------------------------------------------------------
(***************************************************************************)
(* Searches, next to any number of requests that overlap, crash and fail.  *)
(* A row that calls itself synced knows its document, because an UPDATE    *)
(* that sets the status of a live row sets the id too, or finds it set.    *)
(***************************************************************************)
LEMMA KnownMoves ==
    ASSUME IInv, KInv, NEW r \in Requests, NEW new, req' = [req EXCEPT ![r] = new],
           rows' = rows, new # Idle => Known(new.cur)
    PROVE  KInv'
<1>1. req'[r] = new /\ \A q \in Requests \ {r} : req'[q] = req[q]
    BY DEF IInv, TypeOK
<1> QED BY <1>1 DEF KInv, RowsKnown, RequestsKnown

LEMMA KnownEnds ==
    ASSUME IInv, KInv, NEW r \in Requests, Finish(r), UNCHANGED <<rows, docs>>
    PROVE  KInv'
BY KnownMoves DEF Finish

LEMMA KnownGoes ==
    ASSUME IInv, KInv, NEW r \in Requests, req[r].pc # "idle",
           NEW pc, Goto(r, pc), UNCHANGED <<rows, docs>>
    PROVE  KInv'
<1>1. PICK new : new = [req[r] EXCEPT !.pc = pc]
    OBVIOUS
<1>2. new.cur = req[r].cur /\ req[r] # Idle
    BY <1>1, IdleType DEF IInv, TypeOK, Request
<1>3. Known(new.cur)
    BY <1>2 DEF KInv, RequestsKnown
<1>4. req' = [req EXCEPT ![r] = new]
    BY <1>1 DEF Goto
<1> QED BY <1>3, <1>4, KnownMoves

LEMMA KnownBegins ==
    ASSUME IInv, KInv, NEW r \in Requests, NEW pc, NEW op, NEW i, NEW base, NEW cur,
           Begin(r, pc, op, i, base, cur), UNCHANGED <<rows, docs>>, Known(cur)
    PROVE  KInv'
<1>1. PICK new : new = [pc |-> pc, op |-> op, id |-> i, base |-> base, cur |-> cur]
    OBVIOUS
<1>2. req' = [req EXCEPT ![r] = new] /\ new.cur = cur
    BY <1>1 DEF Begin
<1> QED BY <1>2, KnownMoves

LEMMA StartsKnown ==
    ASSUME IInv, KInv, NEW r \in Requests, NEW i \in Ids, Start(r, i)
    PROVE  KInv'
<1>1. rows[i] # NoRow => rows[i] \in Row /\ Known(rows[i]) /\ Purging(rows[i])
    BY DEF KInv, RowsKnown, IInv, TypeOK, RowsPurging
<1>2. ASSUME NEW t \in Texts, NEW m \in Metas, StartCreate(r, i, t, m) PROVE KInv'
    <2>1. Known(NewRow(t, m))
        BY NewRowType DEF Known
    <2> QED BY <1>2, <2>1, KnownBegins, KnownEnds DEF StartCreate
<1>3. ASSUME NEW t \in Texts, NEW m \in Metas, StartUpdate(r, i, t, m) PROVE KInv'
    <2>1. PICK edited : edited = [rows[i] EXCEPT !.text = t,
                                      !.content_hash = HashAfter(rows[i], t), !.meta = m]
        OBVIOUS
    <2>2. Live(i) => Known(edited)
        BY <1>1, <2>1 DEF Live, Known, Row
    <2> QED BY <1>3, <2>1, <2>2, KnownBegins, KnownEnds DEF StartUpdate
<1>4. ASSUME StartDelete(r, i) PROVE KInv'
    <2>1. PICK tomb : tomb = [rows[i] EXCEPT !.deleted = TRUE]
        OBVIOUS
    <2>2. Live(i) => Known(tomb)
        BY <1>1, <2>1 DEF Live, Known, Row
    <2> QED BY <1>4, <2>1, <2>2, KnownBegins, KnownEnds DEF StartDelete
<1>5. ASSUME StartSync(r, i) PROVE KInv'
    BY <1>1, <1>5, KnownBegins, KnownEnds DEF StartSync, Purging
<1> QED BY <1>2, <1>3, <1>4, <1>5 DEF Start

LEMMA AnswersKnown ==
    ASSUME IInv, KInv, NEW r \in Requests, NEW row, Answered(r, row), rows' = rows,
           req[r].pc = "call", Known(row)
    PROVE  KInv'
<1>1. PICK new : new = [req[r] EXCEPT !.pc = "commit", !.cur = row]
    OBVIOUS
<1>2. req' = [req EXCEPT ![r] = new] /\ new.cur = row
    BY <1>1, CallingShape DEF Answered, Request
<1> QED BY <1>2, KnownMoves

LEMMA CallsKnown ==
    ASSUME IInv, KInv, NEW r \in Requests, Call(r)
    PROVE  KInv'
<1> DEFINE cur == req[r].cur
<1>1. ASSUME NEW reply \in Replies, CallAdd(r, reply) PROVE KInv'
    <2>1. PICK row : row = [cur EXCEPT !.external_id = reply = "ok",
                                       !.external_status = AfterPush(reply)]
        OBVIOUS
    <2>2. req[r].pc = "call" /\ cur \in Row
        BY <1>1, CallingShape DEF CallAdd
    <2>3. Known(row)
        BY <2>1, <2>2 DEF Known, Row, AfterPush
    <2>4. Answered(r, row) /\ rows' = rows
        BY <1>1, <2>1 DEF CallAdd
    <2> QED BY <2>2, <2>3, <2>4, AnswersKnown
<1>2. ASSUME NEW reply \in Replies, CallPatch(r, reply) PROVE KInv'
    <2>1. PICK answer : answer = IF docs[req[r].id] = NoDoc THEN "refused" ELSE reply
        OBVIOUS
    <2>2. PICK row : row = [cur EXCEPT !.external_status = AfterPush(answer)]
        OBVIOUS
    <2>3. req[r].pc = "call" /\ cur \in Row /\ cur.external_id
        BY <1>2, CallingShape DEF CallPatch
    <2>4. Known(row)
        BY <2>2, <2>3 DEF Known, Row
    <2>5. Answered(r, row) /\ rows' = rows
        BY <1>2, <2>1, <2>2 DEF CallPatch
    <2> QED BY <2>3, <2>4, <2>5, AnswersKnown
<1>3. ASSUME NEW reply \in Replies, CallDelete(r, reply) PROVE KInv'
    <2>1. PICK row : row = [cur EXCEPT !.external_status = AfterPurge(cur, reply)]
        OBVIOUS
    <2>2. req[r].pc = "call" /\ cur \in Row /\ WantsDelete(r)
        BY <1>3, CallingShape DEF CallDelete
    <2>3. Changing(req[r], rows[req[r].id])
        BY <2>2, CallingShape DEF Creating, WantsDelete
    <2>4. cur.deleted
        BY <2>2, <2>3 DEF Changing, WantsDelete, Purging
    <2>5. Known(row)
        BY <2>1, <2>2, <2>4 DEF Known, Row
    <2>6. Answered(r, row) /\ rows' = rows
        BY <1>3, <2>1 DEF CallDelete
    <2> QED BY <2>2, <2>5, <2>6, AnswersKnown
<1> QED BY <1>1, <1>2, <1>3 DEF Call

\* A merge that leaves a live row synced has the id from one of the two.
LEMMA MergeKnown ==
    ASSUME NEW now \in Row, NEW base \in Row, NEW cur \in Row,
           Follows(base, now), Follows(base, cur), Known(now), Known(cur)
    PROVE  Known(Merge(now, base, cur))
BY MergeType DEF Known, Follows, Column, Row

LEMMA CommitKnown ==
    ASSUME IInv, KInv, NEW r \in Requests, CommitMemory(r)
    PROVE  KInv'
<1> DEFINE i == req[r].id
<1>1. req[r].pc = "commit" /\ req[r] # Idle /\ Known(req[r].cur)
    BY IdleType DEF CommitMemory, KInv, RequestsKnown
<1>2. /\ i \in Ids /\ Version(r) \in Row
      /\ \/ Creating(req[r], rows[i])
         \/ Changing(req[r], rows[i]) /\ rows[i] \in Row
    BY <1>1, CommitShape
<1>3. Known(Version(r))
    <2>1. CASE Creating(req[r], rows[i])
        BY <1>1, <2>1 DEF Creating, Version
    <2>2. CASE Changing(req[r], rows[i]) /\ rows[i] \in Row
        <3>1. Known(rows[i])
            BY <1>2, <2>2, NoRowIsNoRow DEF KInv, RowsKnown
        <3> QED BY <1>1, <2>2, <3>1, MergeKnown DEF Changing, Version
    <2> QED BY <1>2, <2>1, <2>2
<1>4. /\ rows'[i] = Version(r) /\ \A j \in Ids \ {i} : rows'[j] = rows[j]
      /\ req'[r] = Idle /\ \A q \in Requests \ {r} : req'[q] = req[q]
    BY <1>2 DEF CommitMemory, Finish, IInv, TypeOK
<1> HIDE DEF i
<1> QED BY <1>3, <1>4 DEF KInv, RowsKnown, RequestsKnown

LEMMA NextKnown == IInv /\ KInv /\ [Next]_vars => KInv'
<1> SUFFICES ASSUME IInv, KInv, [Next]_vars PROVE KInv'
    OBVIOUS
<1>1. CASE UNCHANGED vars
    BY <1>1 DEF vars, KInv, RowsKnown, RequestsKnown
<1>2. ASSUME NEW r \in Requests, Advance(r) PROVE KInv'
    <2>1. CASE InsertMemory(r)
        <3>1. Known(req[r].cur)
            BY <2>1, IdleType DEF InsertMemory, KInv, RequestsKnown
        <3> QED BY <2>1, <3>1, KnownGoes, KnownBegins, KnownEnds DEF InsertMemory
    <2>2. CASE FlushUpdate(r)
        BY <2>2, KnownGoes DEF FlushUpdate
    <2>3. CASE IndexUpdate(r)
        BY <2>3, KnownGoes, KnownEnds DEF IndexUpdate
    <2>4. CASE RefetchTwin(r) \/ DeadlockAbort(r)
        BY <2>4, KnownEnds DEF RefetchTwin, DeadlockAbort
    <2> QED BY <1>2, <2>1, <2>2, <2>3, <2>4, CallsKnown, CommitKnown DEF Advance
<1>3. ASSUME NEW r \in Requests, Crash(r) PROVE KInv'
    BY <1>3, KnownEnds DEF Crash
<1> QED BY <1>1, <1>2, <1>3, StartsKnown DEF Next

\* A search is beside the requests and writes nothing of theirs.
THEOREM SearchIsBeside == SearchSpec => Spec
<1>1. [ServeStep \/ SearchStep]_searchVars => [Next]_vars
    BY DEF ServeStep, SearchStep, searchVars, vars
<1> QED BY <1>1, PTL DEF SearchSpec, Spec

(***************************************************************************)
(* What a search reads when it returns.  A memory whose delete was answered *)
(* is a tombstone for good: the UPDATE of the delete writes the column, or *)
(* finds it written, and no UPDATE of a request that read the row before   *)
(* writes it back.                                                         *)
(***************************************************************************)
GoneAreTombstones == \A i \in gone : i \in Ids /\ rows[i] # NoRow /\ rows[i].deleted

\* A delete that commits leaves a tombstone, whatever committed since its SELECT.
LEMMA DeleteLeavesTombstone ==
    ASSUME IInv, NEW r \in Requests, DeleteAnswered(r)
    PROVE  LET i == req[r].id IN i \in Ids /\ rows'[i] # NoRow /\ rows'[i].deleted
<1> DEFINE now == rows[req[r].id]
           base == req[r].base
           cur == req[r].cur
<1>1. Changing(req[r], now)
    BY CommitShape DEF DeleteAnswered, CommitMemory, Creating
<1>2. /\ now \in Row /\ base \in Row /\ cur \in Row
      /\ base.deleted => now.deleted
      /\ cur.deleted /\ Version(r) = Merge(now, base, cur)
    BY <1>1 DEF Changing, Follows, Version, DeleteAnswered
<1>3. Version(r).deleted
    BY <1>2, MergeType DEF Column, Row
<1> QED BY <1>3, CommitEffect, NoRowIsNoRow DEF DeleteAnswered

LEMMA NextGone ==
    ASSUME IInv, GoneAreTombstones, [ServeStep \/ SearchStep]_searchVars
    PROVE  GoneAreTombstones'
<1>1. CASE ServeStep
    <2>1. Forward
        BY <1>1, NextForward DEF ServeStep
    <2>2. \A i \in gone : i \in Ids /\ rows'[i] # NoRow /\ rows'[i].deleted
        BY <2>1 DEF Forward, GoneAreTombstones
    <2>3. \A r \in Requests : DeleteAnswered(r) =>
              req[r].id \in Ids /\ rows'[req[r].id] # NoRow /\ rows'[req[r].id].deleted
        BY DeleteLeavesTombstone
    <2> QED BY <1>1, <2>2, <2>3 DEF ServeStep, GoneAreTombstones
<1>2. CASE SearchStep \/ UNCHANGED searchVars
    BY <1>2 DEF SearchStep, searchVars, vars, GoneAreTombstones
<1> QED BY <1>1, <1>2

THEOREM SearchInvariance ==
    SearchSpec => [](IInv /\ KInv /\ GoneAreTombstones /\ search \in Search)
<1>1. Init => KInv
    BY DEF Init, KInv, RowsKnown, RequestsKnown
<1>2. InitSearch => search \in Search /\ GoneAreTombstones
    BY DEF InitSearch, Search, GoneAreTombstones
<1>3. search \in Search /\ [ServeStep \/ SearchStep]_searchVars => (search \in Search)'
    BY DEF Search, ServeStep, SearchStep, SearchNext, SearchIndex, HydrateHits,
        SearchLocal, Returned, searchVars
<1>4. SearchSpec => [](IInv /\ KInv)
    BY <1>1, InitIInv, NextIInv, NextKnown, SearchIsBeside, PTL DEF Spec
<1>5. IInv /\ GoneAreTombstones /\ [ServeStep \/ SearchStep]_searchVars
          => GoneAreTombstones'
    BY NextGone
<1> QED BY <1>2, <1>3, <1>4, <1>5, PTL DEF SearchSpec

\* A memory whose delete was answered is in the result of no search that returns
\* afterwards, whether the index or the table's own search answered, and
\* whatever requests read the row before the delete and commit after it.
THEOREM DeletedStaysUnfound == SearchSpec => DeletedIsNotFound
<1>1. ASSUME GoneAreTombstones, [ServeStep \/ SearchStep]_searchVars, Returns
      PROVE  search'.result \cap gone = {}
    <2>1. \A i \in gone : ~Live(i)
        BY <1>1 DEF GoneAreTombstones, Live
    <2>2. SearchIndex \/ HydrateHits \/ \E q, n : SearchLocal(q, n)
        BY <1>1 DEF Returns, SearchNext
    <2>3. CASE SearchIndex
        BY <1>1, <2>3 DEF SearchIndex, Returned, Returns
    <2>4. CASE HydrateHits
        BY <2>1, <2>4 DEF HydrateHits, Returned, Hydrated
    <2>5. CASE \E q, n : SearchLocal(q, n)
        BY <2>1, <2>5 DEF SearchLocal, Returned
    <2> QED BY <2>2, <2>3, <2>4, <2>5
<1> QED BY <1>1, SearchInvariance, PTL DEF SearchSpec, DeletedIsNotFound

\* A hit for a live memory that the table calls synced is returned, whatever
\* overlapped, failed or was cut off before: what is dropped is not synced.
THEOREM SyncedStaysFound == SearchSpec => SyncedIsFound
<1>1. ASSUME KInv, search \in Search, [ServeStep \/ SearchStep]_searchVars, Answers
      PROVE  \A i \in search.hits :
                 Live(i) /\ rows[i].external_status = "synced" => i \in search'.result
    <2>1. HydrateHits
        BY <1>1 DEF searchVars, ServeStep, SearchStep, Answers, SearchNext, SearchIndex,
            SearchLocal
    <2>2. \A i \in search.hits :
              Live(i) /\ rows[i].external_status = "synced" => Hydrated(i)
        BY <1>1 DEF Search, Hydrated, KnownDocument, Live, KInv, RowsKnown, Known
    <2> QED BY <2>1, <2>2 DEF HydrateHits, Returned
<1> QED BY <1>1, SearchInvariance, PTL DEF SearchSpec, SyncedIsFound

===============================================================================
