------------------------- MODULE MemoryServiceProofs -------------------------
(***************************************************************************)
(* Theorems about MemoryService, for any ids, texts, metadata, digests,    *)
(* number of concurrent requests, replies of the index and crashes.        *)
(***************************************************************************)
EXTENDS MemoryService, TLAPS

(***************************************************************************)
(* The inductive invariant of single requests.  Shape(q, row) relates a    *)
(* request record q to the committed row of its id: what the snapshot and  *)
(* the ORM object may differ in, and what of the snapshot is still true of *)
(* a row others have committed to since.                                   *)
(***************************************************************************)
Creating(q, row) ==
    /\ q.op = "create"
    /\ q.id \in Ids /\ q.cur \in Row
    /\ q.cur.content_hash = Canon[q.cur.text] /\ ~q.cur.deleted
    /\ q.cur.external_status # "pending_delete"
    /\ \/ q.pc \in {"insert", "refetch"} /\ q.base = NoRow
       \/ q.pc \in {"call", "commit"} /\ q.base \in Row /\ row = NoRow

\* The ORM object cur and the committed row both come after the snapshot base.
Follows(base, later) ==
    /\ base.deleted => later.deleted
    /\ base.external_id => later.external_id

Purging(row) ==
    row.external_status = "pending_delete" => row.deleted /\ row.external_id

Changing(q, row) ==
    /\ q.op \in {"update", "delete", "sync"}
    /\ q.pc \in {"flush", "index", "call", "commit"}
    /\ q.pc \in {"flush", "index"} => q.op = "update"
    /\ q.id \in Ids /\ q.base \in Row /\ q.cur \in Row /\ row \in Row
    /\ Follows(q.base, q.cur) /\ Follows(q.base, row)
    /\ Purging(q.base) /\ Purging(q.cur)
    /\ q.op = "delete" => q.cur.deleted
    /\ q.op = "delete" /\ q.pc = "call" => q.cur.external_id
    /\ q.op = "sync" /\ q.pc = "call" => q.cur = q.base
    /\ q.op # "update" =>
          /\ q.cur.text = q.base.text /\ q.cur.meta = q.base.meta
          /\ q.cur.content_hash = q.base.content_hash
    /\ q.op # "delete" => q.cur.deleted = q.base.deleted

Shape(q, row) == q = Idle \/ Creating(q, row) \/ Changing(q, row)

RequestsInShape == \A r \in Requests : Shape(req[r], rows[req[r].id])

RowsPurging == \A i \in Ids : rows[i] # NoRow => Purging(rows[i])

\* A row has at most one uncommitted writer.
RowLocksExclusive ==
    \A q, r \in Requests :
        HoldsRow(q) /\ HoldsRow(r) /\ req[q].id = req[r].id => q = r

IInv == TypeOK /\ RequestsInShape /\ RowsPurging /\ RowLocksExclusive

-----------------------------------------------------------------------------
(* The records the actions build.                                          *)

LEMMA NewRowType ==
    ASSUME NEW t \in Texts, NEW m \in Metas
    PROVE  /\ NewRow(t, m) \in Row
           /\ NewRow(t, m).text = t
           /\ NewRow(t, m).content_hash = Canon[t]
           /\ NewRow(t, m).deleted = FALSE
           /\ NewRow(t, m).external_status = "unsynced"
BY CanonAssumption DEF NewRow, Row, Statuses

\* What Merge writes, column by column.
LEMMA MergeType ==
    ASSUME NEW now \in Row, NEW base \in Row, NEW cur \in Row
    PROVE  /\ Merge(now, base, cur) \in Row
           /\ Merge(now, base, cur).content_hash =
                Column(base.content_hash, cur.content_hash, now.content_hash)
           /\ Merge(now, base, cur).deleted = Column(base.deleted, cur.deleted, now.deleted)
           /\ Merge(now, base, cur).external_id =
                Column(base.external_id, cur.external_id, now.external_id)
           /\ Merge(now, base, cur).external_status =
                Column(base.external_status, cur.external_status, now.external_status)
BY DEF Merge, Column, Row

\* A merge over a row that came after the snapshot only moves it forward, and
\* leaves it waiting for its purge only with a document and a tombstone.
LEMMA MergeForward ==
    ASSUME NEW now \in Row, NEW base \in Row, NEW cur \in Row,
           Follows(base, now), Follows(base, cur), Purging(now), Purging(cur)
    PROVE  Follows(now, Merge(now, base, cur)) /\ Purging(Merge(now, base, cur))
BY MergeType DEF Follows, Purging, Column, Row

LEMMA NoRowIsNoRow == NoRow \notin Row /\ NoDoc \notin Doc /\ NoId \notin Ids
BY NullsAssumption

LEMMA IdleType == Idle \in Request /\ Idle.pc = "idle" /\ Idle.op = "none"
BY DEF Idle, Request, Pcs, Ops

LEMMA InitIInv == Init => IInv
<1> SUFFICES ASSUME Init PROVE IInv
    OBVIOUS
<1>1. TypeOK
    BY IdleType DEF Init, TypeOK
<1>2. RequestsInShape /\ RowsPurging
    BY DEF Init, RequestsInShape, Shape, RowsPurging
<1>3. RowLocksExclusive
    BY IdleType DEF Init, RowLocksExclusive, HoldsRow
<1> QED BY <1>1, <1>2, <1>3 DEF IInv

\* A step that replaces the record of one request and no row keeps the
\* invariant if the new record is in shape and takes no row another holds.
LEMMA RequestStep ==
    ASSUME IInv, NEW r \in Requests, NEW new \in Request,
           req' = [req EXCEPT ![r] = new], rows' = rows,
           docs' \in [Ids -> Doc \cup {NoDoc}],
           Shape(new, rows[new.id]),
           \A q \in Requests \ {r} : HoldsRow(r)' /\ HoldsRow(q) => req[q].id # new.id
    PROVE  IInv'
<1>1. TypeOK'
    BY DEF IInv, TypeOK
<1>2. req'[r] = new /\ \A q \in Requests \ {r} : req'[q] = req[q]
    BY DEF IInv, TypeOK
<1>3. RequestsInShape'
    BY <1>2 DEF IInv, RequestsInShape
<1>4. RowsPurging'
    BY DEF IInv, RowsPurging
<1>5. \A q \in Requests \ {r} : HoldsRow(q)' = HoldsRow(q)
    BY <1>2 DEF HoldsRow, Dirty
<1>6. RowLocksExclusive'
    BY <1>2, <1>5 DEF IInv, RowLocksExclusive
<1> QED BY <1>1, <1>3, <1>4, <1>6 DEF IInv

\* A request that ends without a commit leaves nothing behind.
LEMMA FinishStep ==
    ASSUME IInv, NEW r \in Requests, Finish(r), UNCHANGED <<rows, docs>>
    PROVE  IInv'
<1>1. req'[r] = Idle
    BY DEF IInv, TypeOK, Finish
<1>2. ~HoldsRow(r)'
    BY <1>1, IdleType DEF HoldsRow
<1>3. Shape(Idle, rows[Idle.id]) /\ docs' \in [Ids -> Doc \cup {NoDoc}]
    BY DEF Shape, IInv, TypeOK
<1> QED BY <1>2, <1>3, IdleType, RequestStep DEF Finish

\* A record a request begins or continues with, field by field.
LEMMA RecordType ==
    ASSUME NEW pc \in Pcs, NEW op \in Ops, NEW i \in Ids \cup {NoId},
           NEW base \in Row \cup {NoRow}, NEW cur \in Row \cup {NoRow}
    PROVE  [pc |-> pc, op |-> op, id |-> i, base |-> base, cur |-> cur] \in Request
BY DEF Request

LEMMA BeginStep ==
    ASSUME IInv, NEW r \in Requests, UNCHANGED <<rows, docs>>,
           NEW pc \in Pcs, NEW op \in Ops, NEW i \in Ids,
           NEW base \in Row \cup {NoRow}, NEW cur \in Row,
           Begin(r, pc, op, i, base, cur),
           Shape([pc |-> pc, op |-> op, id |-> i, base |-> base, cur |-> cur], rows[i]),
           \A q \in Requests \ {r} : HoldsRow(r)' /\ HoldsRow(q) => req[q].id # i
    PROVE  IInv'
<1> DEFINE new == [pc |-> pc, op |-> op, id |-> i, base |-> base, cur |-> cur]
<1>1. new \in Request /\ new.id = i
    BY RecordType
<1>2. req' = [req EXCEPT ![r] = new] /\ docs' \in [Ids -> Doc \cup {NoDoc}]
    BY DEF Begin, IInv, TypeOK
<1>3. Shape(new, rows[new.id])
    BY <1>1
<1> HIDE DEF new
<1> QED BY <1>1, <1>2, <1>3, RequestStep

LEMMA GotoStep ==
    ASSUME IInv, NEW r \in Requests, UNCHANGED <<rows, docs>>,
           NEW pc \in Pcs, Goto(r, pc),
           Shape([req[r] EXCEPT !.pc = pc], rows[req[r].id]),
           \A q \in Requests \ {r} : HoldsRow(r)' /\ HoldsRow(q) => req[q].id # req[r].id
    PROVE  IInv'
<1> DEFINE new == [req[r] EXCEPT !.pc = pc]
<1>1. new \in Request /\ new.id = req[r].id
    BY DEF IInv, TypeOK, Request
<1>2. req' = [req EXCEPT ![r] = new] /\ docs' \in [Ids -> Doc \cup {NoDoc}]
    BY DEF Goto, IInv, TypeOK
<1>3. Shape(new, rows[new.id])
    BY <1>1
<1>4. \A q \in Requests \ {r} : HoldsRow(r)' /\ HoldsRow(q) => req[q].id # new.id
    BY <1>1
<1>5. rows' = rows
    OBVIOUS
<1> HIDE DEF new
<1> QED BY <1>1, <1>2, <1>3, <1>4, <1>5, RequestStep

-----------------------------------------------------------------------------
(* One lemma per action.                                                   *)

LEMMA StartCreateStep ==
    ASSUME IInv, NEW r \in Requests, NEW i \in Ids, NEW t \in Texts, NEW m \in Metas,
           StartCreate(r, i, t, m)
    PROVE  IInv'
<1>1. CASE rows[i] = NoRow /\ Begin(r, "insert", "create", i, NoRow, NewRow(t, m))
    <2>1. Shape([pc |-> "insert", op |-> "create", id |-> i, base |-> NoRow,
                 cur |-> NewRow(t, m)], rows[i])
        BY NewRowType DEF Shape, Creating, NewRow
    <2>2. req'[r].pc = "insert"
        BY <1>1 DEF Begin, IInv, TypeOK
    <2>3. ~HoldsRow(r)'
        BY <2>2 DEF HoldsRow
    <2>4. UNCHANGED <<rows, docs>> /\ "insert" \in Pcs /\ "create" \in Ops
        BY DEF StartCreate, Pcs, Ops
    <2> QED BY <1>1, <2>1, <2>3, <2>4, NewRowType, BeginStep
<1>2. CASE Finish(r)
    BY <1>2, FinishStep DEF StartCreate
<1> QED BY <1>1, <1>2 DEF StartCreate

LEMMA InsertMemoryStep ==
    ASSUME IInv, NEW r \in Requests, InsertMemory(r)
    PROVE  IInv'
<1> DEFINE new == req[r].cur
           twins == LiveWithHash(new.content_hash)
<1>1. Creating(req[r], rows[req[r].id]) /\ req[r] \in Request
    BY IdleType DEF InsertMemory, IInv, TypeOK, RequestsInShape, Shape, Changing
<1>2. CASE Goto(r, "refetch")
    <2>1. Shape([req[r] EXCEPT !.pc = "refetch"], rows[req[r].id])
        BY <1>1 DEF Shape, Creating, Request, InsertMemory
    <2>2. req'[r].pc = "refetch"
        BY <1>1, <1>2 DEF Goto, IInv, TypeOK, Request
    <2>3. ~HoldsRow(r)'
        BY <2>2 DEF HoldsRow
    <2> QED BY <1>2, <2>1, <2>3, GotoStep DEF InsertMemory, Pcs
<1>3. CASE /\ twins = {} /\ rows[req[r].id] = NoRow
           /\ Begin(r, "call", "create", req[r].id, new, new)
    <2>1. new \in Row /\ req[r].id \in Ids
        BY <1>1 DEF Creating
    <2>2. Shape([pc |-> "call", op |-> "create", id |-> req[r].id, base |-> new,
                 cur |-> new], rows[req[r].id])
        BY <1>1, <1>3 DEF Shape, Creating
    <2>3. \A q \in Requests \ {r} : HoldsRow(q) => req[q].id # req[r].id
        BY <1>3 DEF InsertMemory, Blockers
    <2>4. UNCHANGED <<rows, docs>> /\ "call" \in Pcs /\ "create" \in Ops
        BY DEF InsertMemory, Pcs, Ops
    <2> HIDE DEF new
    <2> QED BY <1>3, <2>1, <2>2, <2>3, <2>4, BeginStep
<1>4. CASE Finish(r)
    BY <1>4, FinishStep DEF InsertMemory
<1> QED BY <1>2, <1>3, <1>4 DEF InsertMemory

LEMMA StartUpdateStep ==
    ASSUME IInv, NEW r \in Requests, NEW i \in Ids, NEW t \in Texts, NEW m \in Metas,
           StartUpdate(r, i, t, m)
    PROVE  IInv'
<1> DEFINE row == rows[i]
           edited == [row EXCEPT !.text = t, !.content_hash = HashAfter(row, t),
                                 !.meta = m]
<1>1. CASE Finish(r)
    BY <1>1, FinishStep DEF StartUpdate
<1>2. ASSUME Live(i), NEW pc \in {"flush", "call"}, Begin(r, pc, "update", i, row, edited),
             pc = "call" => edited = row
      PROVE  IInv'
    <2>1. row \in Row /\ ~row.deleted /\ Purging(row)
        BY <1>2 DEF Live, IInv, TypeOK, RowsPurging
    <2>2. /\ edited \in Row /\ edited.deleted = row.deleted
          /\ edited.external_id = row.external_id
          /\ edited.external_status = row.external_status
        BY <2>1, CanonAssumption DEF Row, HashAfter
    <2>3. Shape([pc |-> pc, op |-> "update", id |-> i, base |-> row, cur |-> edited], rows[i])
        BY <1>2, <2>1, <2>2 DEF Shape, Changing, Follows, Purging
    <2>4. req'[r] = [pc |-> pc, op |-> "update", id |-> i, base |-> row, cur |-> edited]
        BY <1>2 DEF Begin, IInv, TypeOK
    <2>5. ~HoldsRow(r)'
        BY <1>2, <2>4 DEF HoldsRow, Dirty
    <2>6. UNCHANGED <<rows, docs>> /\ pc \in Pcs /\ "update" \in Ops
        BY DEF StartUpdate, Pcs, Ops
    <2> HIDE DEF edited
    <2> QED BY <1>2, <2>1, <2>2, <2>3, <2>5, <2>6, BeginStep
<1> QED BY <1>1, <1>2 DEF StartUpdate

\* What an update in flight looks like, and what its flush or index check leads to.
LEMMA UpdateOnward ==
    ASSUME IInv, NEW r \in Requests, req[r].pc \in {"flush", "index"},
           NEW pc \in {"index", "call"}
    PROVE  /\ Changing(req[r], rows[req[r].id]) /\ req[r].op = "update"
           /\ req[r] \in Request
           /\ Shape([req[r] EXCEPT !.pc = pc], rows[req[r].id])
<1>1. Changing(req[r], rows[req[r].id]) /\ req[r] \in Request
    BY IdleType DEF IInv, TypeOK, RequestsInShape, Shape, Creating
<1>2. req[r].op = "update"
    BY <1>1 DEF Changing
<1>3. Changing([req[r] EXCEPT !.pc = pc], rows[req[r].id])
    BY <1>1, <1>2 DEF Changing, Request
<1> QED BY <1>1, <1>2, <1>3 DEF Shape

LEMMA FlushUpdateStep ==
    ASSUME IInv, NEW r \in Requests, FlushUpdate(r)
    PROVE  IInv'
<1>1. PICK pc \in {"index", "call"} : Goto(r, pc)
    BY DEF FlushUpdate
<1>2. Shape([req[r] EXCEPT !.pc = pc], rows[req[r].id])
    BY UpdateOnward DEF FlushUpdate
<1>3. \A q \in Requests \ {r} : HoldsRow(q) => req[q].id # req[r].id
    BY DEF FlushUpdate, Blockers
<1>4. UNCHANGED <<rows, docs>> /\ pc \in Pcs
    BY DEF FlushUpdate, Pcs
<1> QED BY <1>1, <1>2, <1>3, <1>4, GotoStep

LEMMA IndexUpdateStep ==
    ASSUME IInv, NEW r \in Requests, IndexUpdate(r)
    PROVE  IInv'
<1>1. CASE Goto(r, "call")
    <2>1. Shape([req[r] EXCEPT !.pc = "call"], rows[req[r].id])
        BY UpdateOnward DEF IndexUpdate
    <2>2. req[r] \in Request /\ req[r].op = "update"
        BY UpdateOnward DEF IndexUpdate
    <2>3. req'[r] = [req[r] EXCEPT !.pc = "call"]
        BY <1>1 DEF Goto, IInv, TypeOK
    <2>4. HoldsRow(r)' => HoldsRow(r)
        BY <2>2, <2>3 DEF HoldsRow, Dirty, IndexUpdate, Request
    <2>5. \A q \in Requests \ {r} : HoldsRow(r)' /\ HoldsRow(q) => req[q].id # req[r].id
        BY <2>4 DEF IInv, RowLocksExclusive
    <2>6. UNCHANGED <<rows, docs>> /\ "call" \in Pcs
        BY DEF IndexUpdate, Pcs
    <2> QED BY <1>1, <2>1, <2>5, <2>6, GotoStep
<1>2. CASE Finish(r)
    BY <1>2, FinishStep DEF IndexUpdate
<1> QED BY <1>1, <1>2 DEF IndexUpdate

LEMMA StartDeleteStep ==
    ASSUME IInv, NEW r \in Requests, NEW i \in Ids, StartDelete(r, i)
    PROVE  IInv'
<1> DEFINE row == rows[i]
           tomb == [row EXCEPT !.deleted = TRUE]
<1>1. CASE Finish(r)
    BY <1>1, FinishStep DEF StartDelete
<1>2. ASSUME Live(i), NEW pc \in {"call", "commit"}, Begin(r, pc, "delete", i, row, tomb),
             pc = "call" => row.external_id
      PROVE  IInv'
    <2>1. row \in Row /\ ~row.deleted /\ Purging(row)
        BY <1>2 DEF Live, IInv, TypeOK, RowsPurging
    <2>2. /\ tomb \in Row /\ tomb.deleted
          /\ tomb.text = row.text /\ tomb.meta = row.meta
          /\ tomb.content_hash = row.content_hash
          /\ tomb.external_id = row.external_id
          /\ tomb.external_status = row.external_status
        BY <2>1 DEF Row
    <2>3. Shape([pc |-> pc, op |-> "delete", id |-> i, base |-> row, cur |-> tomb], rows[i])
        BY <1>2, <2>1, <2>2 DEF Shape, Changing, Follows, Purging
    <2>4. req'[r].op = "delete"
        BY <1>2 DEF Begin, IInv, TypeOK
    <2>5. ~HoldsRow(r)'
        BY <2>4 DEF HoldsRow
    <2>6. UNCHANGED <<rows, docs>> /\ pc \in Pcs /\ "delete" \in Ops
        BY DEF StartDelete, Pcs, Ops
    <2> HIDE DEF tomb
    <2> QED BY <1>2, <2>1, <2>2, <2>3, <2>5, <2>6, BeginStep
<1> QED BY <1>1, <1>2 DEF StartDelete

LEMMA StartSyncStep ==
    ASSUME IInv, NEW r \in Requests, NEW i \in Ids, StartSync(r, i)
    PROVE  IInv'
<1> DEFINE row == rows[i]
           settled == [row EXCEPT !.external_status = "synced"]
<1>1. CASE Finish(r)
    BY <1>1, FinishStep DEF StartSync
<1>2. ASSUME rows[i] # NoRow, NEW pc \in {"call", "commit"}, NEW cur \in {row, settled},
             Begin(r, pc, "sync", i, row, cur), pc = "call" => cur = row
      PROVE  IInv'
    <2>1. row \in Row /\ Purging(row)
        BY <1>2 DEF IInv, TypeOK, RowsPurging
    <2>2. /\ cur \in Row /\ cur.deleted = row.deleted
          /\ cur.text = row.text /\ cur.meta = row.meta
          /\ cur.content_hash = row.content_hash
          /\ cur.external_id = row.external_id
          /\ cur.external_status \in {row.external_status, "synced"}
        BY <2>1 DEF Row, Statuses
    <2>3. Shape([pc |-> pc, op |-> "sync", id |-> i, base |-> row, cur |-> cur], rows[i])
        BY <1>2, <2>1, <2>2 DEF Shape, Changing, Follows, Purging
    <2>4. req'[r].op = "sync"
        BY <1>2 DEF Begin, IInv, TypeOK
    <2>5. ~HoldsRow(r)'
        BY <2>4 DEF HoldsRow
    <2>6. UNCHANGED <<rows, docs>> /\ pc \in Pcs /\ "sync" \in Ops
        BY DEF StartSync, Pcs, Ops
    <2> QED BY <1>2, <2>1, <2>2, <2>3, <2>5, <2>6, BeginStep
<1> QED BY <1>1, <1>2 DEF StartSync

\* The answer of the index changes the external columns of the ORM object only.
LEMMA AnswerStep ==
    ASSUME IInv, NEW r \in Requests, req[r].pc = "call",
           NEW row \in Row, Answered(r, row),
           rows' = rows, docs' \in [Ids -> Doc \cup {NoDoc}],
           row.text = req[r].cur.text, row.content_hash = req[r].cur.content_hash,
           row.meta = req[r].cur.meta,
           Shape([req[r] EXCEPT !.pc = "commit", !.cur = row], rows[req[r].id])
    PROVE  IInv'
<1> DEFINE new == [req[r] EXCEPT !.pc = "commit", !.cur = row]
<1>1. /\ new \in Request /\ new.id = req[r].id /\ new.op = req[r].op
      /\ new.base = req[r].base /\ new.cur = row /\ new.pc = "commit"
    BY DEF IInv, TypeOK, Request, Pcs
<1>2. req' = [req EXCEPT ![r] = new] /\ req'[r] = new
    BY DEF Answered, IInv, TypeOK
<1>3. Shape(new, rows[new.id])
    BY <1>1
<1> HIDE DEF new
<1>4. HoldsRow(r)' => HoldsRow(r)
    BY <1>1, <1>2 DEF HoldsRow, Dirty
<1>5. \A q \in Requests \ {r} : HoldsRow(r)' /\ HoldsRow(q) => req[q].id # new.id
    BY <1>1, <1>4 DEF IInv, RowLocksExclusive
<1> QED BY <1>1, <1>2, <1>3, <1>5, RequestStep

\* A request waiting for its call has a row to send.
LEMMA CallingShape ==
    ASSUME IInv, NEW r \in Requests, req[r].pc = "call"
    PROVE  /\ req[r] \in Request /\ req[r].id \in Ids /\ req[r].cur \in Row
           /\ \/ Creating(req[r], rows[req[r].id])
              \/ Changing(req[r], rows[req[r].id])
BY IdleType DEF IInv, TypeOK, RequestsInShape, Shape, Creating, Changing

\* The row it sends is a row of the table's type.
LEMMA CallingRow ==
    ASSUME IInv, NEW r \in Requests, req[r].pc = "call" PROVE req[r].cur \in Row
BY CallingShape

\* The answer to an add or a patch: no such row waits for its purge afterwards.
LEMMA PushShape ==
    ASSUME IInv, NEW r \in Requests, req[r].pc = "call", ~WantsDelete(r),
           NEW row \in Row, row.external_status # "pending_delete",
           row.text = req[r].cur.text, row.meta = req[r].cur.meta,
           row.content_hash = req[r].cur.content_hash,
           row.deleted = req[r].cur.deleted,
           req[r].cur.external_id => row.external_id
    PROVE  Shape([req[r] EXCEPT !.pc = "commit", !.cur = row], rows[req[r].id])
<1> DEFINE new == [req[r] EXCEPT !.pc = "commit", !.cur = row]
<1>1. /\ new.pc = "commit" /\ new.op = req[r].op /\ new.id = req[r].id
      /\ new.base = req[r].base /\ new.cur = row
    BY CallingShape DEF Request
<1> HIDE DEF new
<1>2. ASSUME Creating(req[r], rows[req[r].id]) PROVE Shape(new, rows[req[r].id])
    BY <1>1, <1>2 DEF Shape, Creating
<1>3. ASSUME Changing(req[r], rows[req[r].id]) PROVE Shape(new, rows[req[r].id])
    BY <1>1, <1>3 DEF Shape, Changing, WantsDelete, Follows, Purging
<1>4. Shape(new, rows[req[r].id])
    BY <1>2, <1>3, CallingShape
<1> QED BY <1>4 DEF new

LEMMA CallAddStep ==
    ASSUME IInv, NEW r \in Requests, NEW reply \in Replies, CallAdd(r, reply)
    PROVE  IInv'
<1>1. req[r].pc = "call" /\ ~WantsDelete(r) /\ ~req[r].cur.external_id
    BY DEF CallAdd
<1>2. PICK row : row = [req[r].cur EXCEPT !.external_id = reply = "ok",
                                          !.external_status = AfterPush(reply)]
    OBVIOUS
<1>3. /\ row \in Row /\ row.external_status # "pending_delete"
      /\ row.text = req[r].cur.text /\ row.meta = req[r].cur.meta
      /\ row.content_hash = req[r].cur.content_hash /\ row.deleted = req[r].cur.deleted
    BY <1>1, <1>2, CallingShape DEF Row, Statuses, AfterPush
<1>4. Shape([req[r] EXCEPT !.pc = "commit", !.cur = row], rows[req[r].id])
    BY <1>1, <1>3, PushShape
<1>5. docs' \in [Ids -> Doc \cup {NoDoc}]
    BY <1>1, CallingShape DEF CallAdd, IInv, TypeOK, DocOf, Doc, Row
<1>6. Answered(r, row) /\ rows' = rows
    BY <1>2 DEF CallAdd
<1> QED BY <1>1, <1>3, <1>4, <1>5, <1>6, AnswerStep

LEMMA CallPatchStep ==
    ASSUME IInv, NEW r \in Requests, NEW reply \in Replies, CallPatch(r, reply)
    PROVE  IInv'
<1>1. req[r].pc = "call" /\ ~WantsDelete(r) /\ req[r].cur.external_id
    BY DEF CallPatch
<1>2. PICK answer : answer = IF docs[req[r].id] = NoDoc THEN "refused" ELSE reply
    OBVIOUS
<1>3. PICK row : row = [req[r].cur EXCEPT !.external_status = AfterPush(answer)]
    OBVIOUS
<1>4. /\ row \in Row /\ row.external_status # "pending_delete"
      /\ row.text = req[r].cur.text /\ row.meta = req[r].cur.meta
      /\ row.content_hash = req[r].cur.content_hash /\ row.deleted = req[r].cur.deleted
      /\ row.external_id = req[r].cur.external_id
    BY <1>1, <1>3, CallingShape DEF Row, Statuses, AfterPush
<1>5. Shape([req[r] EXCEPT !.pc = "commit", !.cur = row], rows[req[r].id])
    BY <1>1, <1>4, PushShape
<1>6. docs' \in [Ids -> Doc \cup {NoDoc}]
    <2>1. CASE docs' = docs
        BY <2>1 DEF IInv, TypeOK
    <2>2. CASE answer # "refused"
        BY <1>1, <1>2, <2>2, CallingShape DEF CallPatch, IInv, TypeOK, Doc, Row
    <2> QED BY <1>2, <2>1, <2>2 DEF CallPatch
<1>7. Answered(r, row) /\ rows' = rows
    BY <1>2, <1>3 DEF CallPatch
<1> QED BY <1>1, <1>4, <1>5, <1>6, <1>7, AnswerStep

LEMMA CallDeleteStep ==
    ASSUME IInv, NEW r \in Requests, NEW reply \in Replies, CallDelete(r, reply)
    PROVE  IInv'
<1> DEFINE cur == req[r].cur
           row == [cur EXCEPT !.external_status = AfterPurge(cur, reply)]
           new == [req[r] EXCEPT !.pc = "commit", !.cur = row]
<1>1. req[r].pc = "call" /\ WantsDelete(r)
    BY DEF CallDelete
<1>2. Changing(req[r], rows[req[r].id])
    BY <1>1, CallingShape DEF Creating, WantsDelete
<1>3. AfterPurge(cur, reply) \in {"synced", "pending_delete"}
    BY DEF AfterPurge
<1>4. /\ row \in Row
      /\ row.text = cur.text /\ row.meta = cur.meta /\ row.content_hash = cur.content_hash
      /\ row.deleted = cur.deleted /\ row.external_id = cur.external_id
    BY <1>1, <1>3, CallingShape DEF Row, Statuses
<1>5. /\ new.pc = "commit" /\ new.op = req[r].op /\ new.id = req[r].id
      /\ new.base = req[r].base /\ new.cur = row
    BY <1>1, CallingShape DEF Request
<1>6. cur.deleted /\ cur.external_id
    BY <1>1, <1>2 DEF Changing, WantsDelete, Purging
<1>7. docs' \in [Ids -> Doc \cup {NoDoc}] /\ rows' = rows /\ Answered(r, row)
    BY <1>1, CallingShape DEF CallDelete, IInv, TypeOK
<1> HIDE DEF row, new
<1>8. Shape(new, rows[req[r].id])
    BY <1>1, <1>2, <1>4, <1>5, <1>6 DEF Shape, Changing, Follows, Purging
<1> QED BY <1>1, <1>4, <1>7, <1>8, AnswerStep DEF new

-----------------------------------------------------------------------------
(* The commit, the only action that changes a row.                         *)

\* A committing request leaves a well formed version, which came after what it
\* replaces; a row is created only where there is none.
LEMMA CommitShape ==
    ASSUME IInv, NEW r \in Requests, req[r].pc = "commit"
    PROVE  LET i == req[r].id IN
           /\ req[r] \in Request /\ i \in Ids
           /\ Version(r) \in Row /\ Purging(Version(r))
           /\ \/ Creating(req[r], rows[i]) /\ rows[i] = NoRow
              \/ Changing(req[r], rows[i]) /\ rows[i] \in Row /\ Follows(rows[i], Version(r))
<1>1. req[r] \in Request
    BY DEF IInv, TypeOK
<1>2. CASE Creating(req[r], rows[req[r].id])
    BY <1>1, <1>2 DEF Creating, Version, Purging
<1>3. CASE Changing(req[r], rows[req[r].id])
    <2> DEFINE now == rows[req[r].id]
               base == req[r].base
               cur == req[r].cur
    <2>1. /\ now \in Row /\ base \in Row /\ cur \in Row
          /\ Follows(base, now) /\ Follows(base, cur) /\ Purging(cur)
          /\ Version(r) = Merge(now, base, cur) /\ req[r].id \in Ids
        BY <1>3 DEF Changing, Version
    <2>2. Purging(now)
        BY <2>1, NoRowIsNoRow DEF IInv, RowsPurging
    <2>3. Version(r) \in Row /\ Follows(now, Version(r)) /\ Purging(Version(r))
        <3> HIDE DEF now, base, cur
        <3> QED BY <2>1, <2>2, MergeType, MergeForward
    <2> QED BY <1>1, <1>3, <2>1, <2>3
<1> QED BY <1>2, <1>3, IdleType DEF IInv, RequestsInShape, Shape

LEMMA CommitStep ==
    ASSUME IInv, NEW r \in Requests, CommitMemory(r)
    PROVE  IInv'
<1> DEFINE i == req[r].id
<1>1. /\ req[r].pc = "commit" /\ Blockers(r) = {}
      /\ rows' = [rows EXCEPT ![i] = Version(r)] /\ docs' = docs
      /\ req' = [req EXCEPT ![r] = Idle]
    BY DEF CommitMemory, Finish
<1>2. /\ i \in Ids /\ Version(r) \in Row /\ Purging(Version(r))
      /\ \/ rows[i] = NoRow
         \/ rows[i] \in Row /\ Follows(rows[i], Version(r))
    BY <1>1, CommitShape
<1>3. /\ rows'[i] = Version(r) /\ \A j \in Ids \ {i} : rows'[j] = rows[j]
      /\ req'[r] = Idle /\ \A q \in Requests \ {r} : req'[q] = req[q]
    BY <1>1, <1>2 DEF IInv, TypeOK
<1>4. TypeOK'
    BY <1>1, <1>2, IdleType DEF IInv, TypeOK
<1>5. RequestsInShape'
    <2> SUFFICES ASSUME NEW q \in Requests PROVE Shape(req'[q], rows'[req'[q].id])
        BY DEF RequestsInShape
    <2>1. CASE q = r
        BY <1>3, <2>1 DEF Shape
    <2>2. CASE q # r /\ req[q].id # i
        <3>1. Shape(req[q], rows[req[q].id]) /\ req'[q] = req[q]
            BY <1>3, <2>2 DEF IInv, RequestsInShape
        <3>2. req[q] = Idle \/ rows'[req[q].id] = rows[req[q].id]
            BY <1>3, <2>2, <3>1 DEF Shape, Creating, Changing
        <3> QED BY <3>1, <3>2 DEF Shape
    <2>3. CASE q # r /\ req[q].id = i
        <3>1. Shape(req[q], rows[i]) /\ req'[q] = req[q] /\ rows'[i] = Version(r)
            BY <1>3, <2>3 DEF IInv, RequestsInShape
        <3>2. ~HoldsRow(q)
            BY <1>1, <2>3 DEF Blockers
        <3>3. ASSUME Creating(req[q], rows[i]) PROVE Creating(req[q], Version(r))
            BY <3>2, <3>3 DEF Creating, HoldsRow
        <3>4. ASSUME Changing(req[q], rows[i]) PROVE Changing(req[q], Version(r))
            BY <1>2, <3>4, NoRowIsNoRow DEF Changing, Follows
        <3> QED BY <2>3, <3>1, <3>3, <3>4 DEF Shape
    <2> QED BY <2>1, <2>2, <2>3
<1>6. RowsPurging'
    BY <1>2, <1>3 DEF IInv, RowsPurging
<1>7. ~HoldsRow(r)' /\ \A q \in Requests \ {r} : HoldsRow(q)' = HoldsRow(q)
    BY <1>3, IdleType DEF HoldsRow, Dirty
<1>8. RowLocksExclusive'
    BY <1>3, <1>7 DEF IInv, RowLocksExclusive
<1> QED BY <1>4, <1>5, <1>6, <1>8 DEF IInv

LEMMA StutterStep == IInv /\ UNCHANGED vars => IInv'
BY DEF vars, IInv, TypeOK, RequestsInShape, RowsPurging, RowLocksExclusive, HoldsRow, Dirty

LEMMA NextIInv == IInv /\ [Next]_vars => IInv'
<1> SUFFICES ASSUME IInv, [Next]_vars PROVE IInv'
    OBVIOUS
<1>1. CASE UNCHANGED vars
    BY <1>1, StutterStep
<1>2. ASSUME NEW r \in Requests, NEW i \in Ids, Start(r, i) PROVE IInv'
    BY <1>2, StartCreateStep, StartUpdateStep, StartDeleteStep, StartSyncStep DEF Start
<1>3. ASSUME NEW r \in Requests, Call(r) PROVE IInv'
    BY <1>3, CallAddStep, CallPatchStep, CallDeleteStep DEF Call
<1>4. ASSUME NEW r \in Requests, Advance(r) PROVE IInv'
    <2>1. CASE RefetchTwin(r) \/ DeadlockAbort(r)
        BY <2>1, FinishStep DEF RefetchTwin, DeadlockAbort
    <2> QED BY <1>3, <1>4, <2>1, InsertMemoryStep, FlushUpdateStep, IndexUpdateStep,
               CommitStep DEF Advance
<1>5. ASSUME NEW r \in Requests, Crash(r) PROVE IInv'
    BY <1>5, FinishStep DEF Crash
<1> QED BY <1>1, <1>2, <1>4, <1>5 DEF Next

THEOREM Invariance == Spec => []IInv
BY InitIInv, NextIInv, PTL DEF Spec

-----------------------------------------------------------------------------
\* Rows, documents and request records are well formed in every reachable
\* state: no handler writes a status, a digest or a snapshot it should not.
THEOREM TypeCorrect == Spec => []TypeOK
<1>1. IInv => TypeOK
    BY DEF IInv
<1> QED BY <1>1, Invariance, PTL

\* A row that waits for its remote deletion is a tombstone with a document,
\* whatever requests overlap, crash or fail: delete_memory is the only writer
\* of that status, and no stale commit separates it from the tombstone.
THEOREM PurgesAreTombstones == Spec => []PendingDeleteIsTombstone
<1>1. IInv => PendingDeleteIsTombstone
    BY DEF IInv, RowsPurging, Purging, PendingDeleteIsTombstone
<1> QED BY <1>1, Invariance, PTL

LEMMA OnlyCommitsWriteRows ==
    ASSUME [Next]_vars
    PROVE  rows' = rows \/ \E r \in Requests : CommitMemory(r)
<1>1. ASSUME UNCHANGED vars PROVE rows' = rows
    BY <1>1 DEF vars
<1>2. ASSUME NEW r \in Requests, NEW i \in Ids, Start(r, i) PROVE rows' = rows
    BY <1>2 DEF Start, StartCreate, StartUpdate, StartDelete, StartSync
<1>3. ASSUME NEW r \in Requests, Call(r) PROVE rows' = rows
    BY <1>3 DEF Call, CallAdd, CallPatch, CallDelete
<1>4. ASSUME NEW r \in Requests, Advance(r) PROVE rows' = rows \/ CommitMemory(r)
    BY <1>3, <1>4 DEF Advance, InsertMemory, RefetchTwin, FlushUpdate, IndexUpdate,
        DeadlockAbort
<1>5. ASSUME NEW r \in Requests, Crash(r) PROVE rows' = rows
    BY <1>5 DEF Crash
<1> QED BY <1>1, <1>2, <1>4, <1>5 DEF Next

\* No committed row goes away, comes alive again or loses its document id.
Forward ==
    \A i \in Ids : rows[i] # NoRow =>
        /\ rows'[i] # NoRow
        /\ rows[i].deleted => rows'[i].deleted
        /\ rows[i].external_id => rows'[i].external_id

LEMMA NextForward == IInv /\ [Next]_vars => Forward
<1>1. ASSUME IInv, NEW r \in Requests, CommitMemory(r) PROVE Forward
    <2>1. /\ req[r].id \in Ids /\ Version(r) \in Row
          /\ rows[req[r].id] = NoRow \/ Follows(rows[req[r].id], Version(r))
        BY <1>1, CommitShape DEF CommitMemory
    <2>2. rows' = [rows EXCEPT ![req[r].id] = Version(r)]
        BY <1>1 DEF CommitMemory
    <2> QED BY <1>1, <2>1, <2>2, NoRowIsNoRow DEF Forward, Follows, IInv, TypeOK
<1>2. ASSUME rows' = rows PROVE Forward
    BY <1>2 DEF Forward
<1> QED BY <1>1, <1>2, OnlyCommitsWriteRows

\* No commit revives a tombstone, removes a row or forgets a document id: an
\* UPDATE of changed columns cannot undo what committed after its snapshot.
THEOREM RowsMoveForward == Spec => RowsOnlyMoveForward
BY NextForward, Invariance, PTL DEF Spec, RowsOnlyMoveForward, Forward

-----------------------------------------------------------------------------
(***************************************************************************)
(* The unique index of live hashes under concurrent transactions, and what *)
(* it is for: the memories table implements the abstract journal.          *)
(*                                                                         *)
(* UniqueLiveHash alone is not inductive: a commit is only as good as the  *)
(* check its transaction made before.  What keeps the check true until the *)
(* commit is that every open transaction past it owns its hash: no         *)
(* committed live row but its own has it, and no other such transaction    *)
(* does.                                                                   *)
(***************************************************************************)
Owns(r) == HoldsRow(r) /\ req[r].pc \in {"call", "commit"} /\ ~Version(r).deleted

OwnedHashIsFree ==
    \A r \in Requests :
        Owns(r) => LiveWithHash(Version(r).content_hash) \subseteq {req[r].id}

OwnersApart ==
    \A q, r \in Requests :
        Owns(q) /\ Owns(r) /\ Version(q).content_hash = Version(r).content_hash => q = r

UInv == UniqueLiveHash /\ OwnedHashIsFree /\ OwnersApart

LEMMA InitUInv == Init => UInv
<1> SUFFICES ASSUME Init PROVE UInv
    OBVIOUS
<1>1. UniqueLiveHash
    BY DEF Init, UniqueLiveHash, Live
<1>2. \A r \in Requests : ~Owns(r)
    BY IdleType DEF Init, Owns
<1> QED BY <1>1, <1>2 DEF UInv, OwnedHashIsFree, OwnersApart

\* A step that commits nothing keeps the invariant if the request that takes it
\* owns no hash afterwards, or one that nobody else has.
LEMMA OwnStep ==
    ASSUME IInv, UInv, NEW r \in Requests, rows' = rows,
           \A q \in Requests \ {r} : req'[q] = req[q],
           Owns(r)' =>
             /\ LiveWithHash(Version(r)'.content_hash) \subseteq {req'[r].id}
             /\ \A q \in Requests \ {r} :
                    Owns(q) => Version(q).content_hash # Version(r)'.content_hash
    PROVE  UInv'
<1>1. UniqueLiveHash'
    BY DEF UInv, UniqueLiveHash, Live
<1>2. \A h : LiveWithHash(h)' = LiveWithHash(h)
    BY DEF LiveWithHash, Live
<1>3. \A q \in Requests \ {r} :
          Owns(q)' = Owns(q) /\ Version(q)' = Version(q) /\ req'[q].id = req[q].id
    BY DEF Owns, HoldsRow, Dirty, Version
<1>4. OwnedHashIsFree'
    BY <1>2, <1>3 DEF UInv, OwnedHashIsFree
<1>5. OwnersApart'
    BY <1>3 DEF UInv, OwnersApart
<1> QED BY <1>1, <1>4, <1>5 DEF UInv

\* In particular if it owns no hash, or still owns the hash it owned.
LEMMA KeepStep ==
    ASSUME IInv, UInv, NEW r \in Requests, rows' = rows,
           \A q \in Requests \ {r} : req'[q] = req[q],
           Owns(r)' => /\ Owns(r) /\ req'[r].id = req[r].id
                       /\ Version(r)'.content_hash = Version(r).content_hash
    PROVE  UInv'
BY OwnStep DEF UInv, OwnedHashIsFree, OwnersApart

\* The records of the other requests stay as they are.
LEMMA OthersKept ==
    ASSUME IInv, NEW r \in Requests, NEW new, req' = [req EXCEPT ![r] = new]
    PROVE  req'[r] = new /\ \A q \in Requests \ {r} : req'[q] = req[q]
BY DEF IInv, TypeOK

LEMMA FinishKeeps ==
    ASSUME IInv, UInv, NEW r \in Requests, Finish(r), rows' = rows
    PROVE  UInv'
<1>1. req'[r] = Idle /\ \A q \in Requests \ {r} : req'[q] = req[q]
    BY OthersKept DEF Finish
<1>2. ~Owns(r)'
    BY <1>1, IdleType DEF Owns, HoldsRow
<1> QED BY <1>1, <1>2, KeepStep

\* So does beginning a request that writes nothing yet.
LEMMA BeginKeeps ==
    ASSUME IInv, UInv, NEW r \in Requests, rows' = rows,
           NEW pc, NEW op, NEW i, NEW base, NEW cur, Begin(r, pc, op, i, base, cur),
           \/ pc \notin {"call", "commit"}
           \/ op \notin {"create", "update"}
           \/ op = "update" /\ base = cur
    PROVE  UInv'
<1>1. /\ req'[r] = [pc |-> pc, op |-> op, id |-> i, base |-> base, cur |-> cur]
      /\ \A q \in Requests \ {r} : req'[q] = req[q]
    BY OthersKept DEF Begin
<1>2. ~Owns(r)'
    BY <1>1 DEF Owns, HoldsRow, Dirty
<1> QED BY <1>1, <1>2, KeepStep

LEMMA StartKeeps ==
    ASSUME IInv, UInv, NEW r \in Requests, NEW i \in Ids, Start(r, i)
    PROVE  UInv'
<1>1. rows' = rows
    BY DEF Start, StartCreate, StartUpdate, StartDelete, StartSync
<1>2. ASSUME NEW t \in Texts, NEW m \in Metas, StartCreate(r, i, t, m) PROVE UInv'
    BY <1>1, <1>2, FinishKeeps, BeginKeeps DEF StartCreate
<1>3. ASSUME NEW t \in Texts, NEW m \in Metas, StartUpdate(r, i, t, m) PROVE UInv'
    BY <1>1, <1>3, FinishKeeps, BeginKeeps DEF StartUpdate
<1>4. ASSUME StartDelete(r, i) PROVE UInv'
    BY <1>1, <1>4, FinishKeeps, BeginKeeps DEF StartDelete
<1>5. ASSUME StartSync(r, i) PROVE UInv'
    BY <1>1, <1>5, FinishKeeps, BeginKeeps DEF StartSync
<1> QED BY <1>2, <1>3, <1>4, <1>5 DEF Start

\* The INSERT goes through only if nobody has the hash, committed or not.
LEMMA InsertKeeps ==
    ASSUME IInv, UInv, NEW r \in Requests, InsertMemory(r)
    PROVE  UInv'
<1> DEFINE new == req[r].cur
           i == req[r].id
<1>1. rows' = rows
    BY DEF InsertMemory
<1>2. CASE Goto(r, "refetch")
    <2>1. /\ req'[r] = [req[r] EXCEPT !.pc = "refetch"] /\ req[r] \in Request
          /\ \A q \in Requests \ {r} : req'[q] = req[q]
        BY <1>2, OthersKept DEF Goto, IInv, TypeOK
    <2>2. ~Owns(r)'
        BY <2>1 DEF Owns, Request
    <2> QED BY <1>1, <2>1, <2>2, KeepStep
<1>3. CASE LiveWithHash(new.content_hash) = {} /\ Begin(r, "call", "create", i, new, new)
    <2>1. /\ req'[r] = [pc |-> "call", op |-> "create", id |-> i, base |-> new, cur |-> new]
          /\ \A q \in Requests \ {r} : req'[q] = req[q]
        BY <1>3, OthersKept DEF Begin
    <2>2. Version(r)' = new
        BY <2>1 DEF Version
    <2>3. \A q \in Requests \ {r} : ~HoldsHash(q, new.content_hash)
        BY DEF InsertMemory, Blockers
    <2>4. \A q \in Requests \ {r} : Owns(q) => Version(q).content_hash # new.content_hash
        BY <2>3 DEF HoldsHash, Owns
    <2> HIDE DEF new
    <2> QED BY <1>1, <1>3, <2>1, <2>2, <2>4, OwnStep
<1>4. CASE Finish(r)
    BY <1>1, <1>4, FinishKeeps
<1> QED BY <1>2, <1>3, <1>4 DEF InsertMemory

\* Moving an update on leaves the version it will commit as it is.
LEMMA GotoVersion ==
    ASSUME IInv, NEW r \in Requests, req[r].pc \in {"flush", "index"},
           NEW pc \in {"index", "call"}, Goto(r, pc), rows' = rows
    PROVE  /\ req'[r].pc = pc /\ req'[r].id = req[r].id
           /\ Version(r)' = Version(r)
           /\ \A q \in Requests \ {r} : req'[q] = req[q]
<1>1. req'[r] = [req[r] EXCEPT !.pc = pc] /\ \A q \in Requests \ {r} : req'[q] = req[q]
    BY OthersKept DEF Goto
<1>2. req[r] \in Request
    BY DEF IInv, TypeOK
<1> QED BY <1>1, <1>2 DEF Version, Request

\* An update that keeps its live row's hash owns it with the row; one that lands
\* on a tombstone owns none.
LEMMA FlushKeeps ==
    ASSUME IInv, UInv, NEW r \in Requests, FlushUpdate(r)
    PROVE  UInv'
<1> DEFINE i == req[r].id
           h == Version(r).content_hash
<1>1. rows' = rows /\ req[r].pc = "flush"
    BY DEF FlushUpdate
<1>2. CASE Goto(r, "index")
    <2>1. ~Owns(r)' /\ \A q \in Requests \ {r} : req'[q] = req[q]
        BY <1>1, <1>2, GotoVersion DEF Owns
    <2> QED BY <1>1, <2>1, KeepStep
<1>3. CASE Goto(r, "call") /\ (Version(r).deleted \/ h = rows[i].content_hash)
    <2>1. /\ Version(r)' = Version(r) /\ req'[r].id = i
          /\ \A q \in Requests \ {r} : req'[q] = req[q]
        BY <1>1, <1>3, GotoVersion
    <2>2. /\ i \in Ids /\ rows[i] \in Row /\ Version(r).deleted = rows[i].deleted
        <3>1. Changing(req[r], rows[i]) /\ req[r].op = "update"
            BY <1>1, UpdateOnward
        <3>2. req[r].base \in Row /\ req[r].cur \in Row /\ rows[i] \in Row /\ i \in Ids
              /\ req[r].cur.deleted = req[r].base.deleted
            BY <3>1 DEF Changing
        <3>3. Version(r) = Merge(rows[i], req[r].base, req[r].cur)
            BY <3>1 DEF Version
        <3> QED BY <3>2, <3>3, MergeType DEF Column
    <2>3. ASSUME ~Version(r).deleted
          PROVE  /\ LiveWithHash(h) \subseteq {i}
                 /\ \A q \in Requests \ {r} : Owns(q) => Version(q).content_hash # h
        <3>1. i \in LiveWithHash(h)
            BY <1>3, <2>2, <2>3, NoRowIsNoRow DEF LiveWithHash, Live
        <3>2. LiveWithHash(h) \subseteq {i}
            BY <3>1 DEF UInv, UniqueLiveHash, LiveWithHash
        <3>3. \A q \in Requests \ {r} : HoldsRow(q) => req[q].id # i
            BY <1>1 DEF FlushUpdate, Blockers
        <3>4. \A q \in Requests \ {r} : Owns(q) => Version(q).content_hash # h
            BY <3>1, <3>3 DEF UInv, OwnedHashIsFree, Owns
        <3> QED BY <3>2, <3>4
    <2>4. Owns(r)' => ~Version(r).deleted
        BY <2>1 DEF Owns
    <2> QED BY <1>1, <2>1, <2>3, <2>4, OwnStep
<1> QED BY <1>2, <1>3 DEF FlushUpdate

LEMMA IndexKeeps ==
    ASSUME IInv, UInv, NEW r \in Requests, IndexUpdate(r)
    PROVE  UInv'
<1> DEFINE h == Version(r).content_hash
<1>1. rows' = rows /\ req[r].pc = "index" /\ Blockers(r) = {}
    BY DEF IndexUpdate
<1>2. CASE LiveWithHash(h) \ {req[r].id} = {} /\ Goto(r, "call")
    <2>1. /\ Version(r)' = Version(r) /\ req'[r].id = req[r].id
          /\ \A q \in Requests \ {r} : req'[q] = req[q]
        BY <1>1, <1>2, GotoVersion
    <2>2. \A q \in Requests \ {r} : ~HoldsHash(q, h)
        BY <1>1 DEF Blockers
    <2>3. \A q \in Requests \ {r} : Owns(q) => Version(q).content_hash # h
        BY <2>2 DEF HoldsHash, Owns
    <2> QED BY <1>1, <1>2, <2>1, <2>3, OwnStep
<1>3. CASE Finish(r)
    BY <1>1, <1>3, FinishKeeps
<1> QED BY <1>2, <1>3 DEF IndexUpdate

\* The answer of the index touches neither the hash nor the tombstone.
LEMMA AnswerKeeps ==
    ASSUME IInv, UInv, NEW r \in Requests, req[r].pc = "call", rows' = rows,
           NEW row \in Row, Answered(r, row),
           row.text = req[r].cur.text, row.content_hash = req[r].cur.content_hash,
           row.meta = req[r].cur.meta, row.deleted = req[r].cur.deleted
    PROVE  UInv'
<1>1. /\ req'[r] = [req[r] EXCEPT !.pc = "commit", !.cur = row]
      /\ \A q \in Requests \ {r} : req'[q] = req[q]
    BY DEF Answered, IInv, TypeOK
<1>2. /\ req'[r].pc = "commit" /\ req'[r].op = req[r].op /\ req'[r].id = req[r].id
      /\ req'[r].base = req[r].base /\ req'[r].cur = row
    BY <1>1, CallingShape DEF Request
<1>3. HoldsRow(r)' = HoldsRow(r)
    BY <1>2 DEF HoldsRow, Dirty
<1>4. CASE Creating(req[r], rows[req[r].id])
    <2>1. Version(r)' = row /\ Version(r) = req[r].cur
        BY <1>2, <1>4 DEF Version, Creating
    <2>2. Owns(r)' => Owns(r)
        BY <1>3, <2>1 DEF Owns
    <2> QED BY <1>1, <1>2, <2>1, <2>2, KeepStep
<1>5. CASE Changing(req[r], rows[req[r].id])
    <2> DEFINE now == rows[req[r].id]
    <2>1. now \in Row /\ req[r].base \in Row /\ req[r].cur \in Row /\ req[r].op # "create"
        BY <1>5 DEF Changing
    <2>2. /\ Version(r) = Merge(now, req[r].base, req[r].cur)
          /\ Version(r)' = Merge(now, req[r].base, row)
        BY <1>2, <2>1 DEF Version
    <2>3. /\ Version(r)'.content_hash = Version(r).content_hash
          /\ Version(r)'.deleted = Version(r).deleted
        BY <2>1, <2>2, MergeType
    <2>4. Owns(r)' => Owns(r)
        BY <1>3, <2>3 DEF Owns
    <2> QED BY <1>1, <1>2, <2>3, <2>4, KeepStep
<1> QED BY <1>4, <1>5, CallingShape

LEMMA CallKeeps ==
    ASSUME IInv, UInv, NEW r \in Requests, Call(r)
    PROVE  UInv'
<1>1. PICK reply \in Replies : CallAdd(r, reply) \/ CallPatch(r, reply) \/ CallDelete(r, reply)
    BY DEF Call
<1>2. req[r].pc = "call" /\ rows' = rows
    BY <1>1 DEF CallAdd, CallPatch, CallDelete
<1>3. PICK id \in BOOLEAN, status \in Statuses :
          Answered(r, [req[r].cur EXCEPT !.external_id = id, !.external_status = status])
    <2>1. req[r].cur \in Row
        BY <1>2, CallingRow, Zenon
    <2>2. CASE CallAdd(r, reply)
        BY <2>2 DEF CallAdd, AfterPush, Statuses
    <2>3. CASE CallPatch(r, reply)
        BY <2>1, <2>3 DEF CallPatch, AfterPush, Statuses, Row
    <2>4. CASE CallDelete(r, reply)
        BY <2>1, <2>4 DEF CallDelete, AfterPurge, Statuses, Row
    <2> QED BY <1>1, <2>2, <2>3, <2>4
<1>4. PICK row : row = [req[r].cur EXCEPT !.external_id = id, !.external_status = status]
    OBVIOUS
<1>5. /\ row \in Row
      /\ row.text = req[r].cur.text /\ row.meta = req[r].cur.meta
      /\ row.content_hash = req[r].cur.content_hash /\ row.deleted = req[r].cur.deleted
    BY <1>2, <1>4, CallingShape DEF Row
<1> QED BY <1>2, <1>3, <1>4, <1>5, AnswerKeeps

\* The version a commit leaves live has a hash the request owns or the one its
\* live row already has.
LEMMA CommitLive ==
    ASSUME IInv, NEW r \in Requests, req[r].pc = "commit", ~Version(r).deleted
    PROVE  Owns(r) \/ req[r].id \in LiveWithHash(Version(r).content_hash)
<1> DEFINE now == rows[req[r].id]
           base == req[r].base
           cur == req[r].cur
<1>1. CASE HoldsRow(r)
    BY <1>1 DEF Owns
<1>2. CASE ~HoldsRow(r)
    <2>1. Changing(req[r], now) /\ now \in Row /\ Follows(now, Version(r)) /\ req[r].id \in Ids
        BY <1>2, CommitShape DEF Creating, HoldsRow
    <2>2. cur.content_hash = base.content_hash /\ cur \in Row /\ base \in Row
          /\ req[r].op # "create"
        BY <1>2, <2>1 DEF Changing, HoldsRow, Dirty
    <2>3. Version(r).content_hash = now.content_hash
        BY <2>1, <2>2, MergeType DEF Version, Column
    <2>4. ~now.deleted
        BY <2>1 DEF Follows
    <2> QED BY <2>1, <2>3, <2>4, NoRowIsNoRow DEF LiveWithHash, Live
<1> QED BY <1>1, <1>2

\* Nobody else has the hash of a version that commits live.
LEMMA CommitAlone ==
    ASSUME IInv, UInv, NEW r \in Requests, CommitMemory(r), ~Version(r).deleted
    PROVE  /\ LiveWithHash(Version(r).content_hash) \subseteq {req[r].id}
           /\ \A q \in Requests \ {r} :
                  Owns(q) => Version(q).content_hash # Version(r).content_hash
<1> DEFINE i == req[r].id
           h == Version(r).content_hash
<1>1. CASE Owns(r)
    BY <1>1 DEF UInv, OwnedHashIsFree, OwnersApart
<1>2. CASE i \in LiveWithHash(h)
    <2>1. LiveWithHash(h) \subseteq {i}
        BY <1>2 DEF UInv, UniqueLiveHash, LiveWithHash
    <2>2. \A q \in Requests \ {r} : HoldsRow(q) => req[q].id # i
        BY DEF CommitMemory, Blockers
    <2>3. \A q \in Requests \ {r} : Owns(q) => Version(q).content_hash # h
        BY <1>2, <2>2 DEF UInv, OwnedHashIsFree, Owns
    <2> QED BY <2>1, <2>3
<1> QED BY <1>1, <1>2, CommitLive DEF CommitMemory

\* What a commit does to the committed rows and to the other requests.
LEMMA CommitEffect ==
    ASSUME IInv, NEW r \in Requests, CommitMemory(r)
    PROVE  /\ req[r].id \in Ids /\ Version(r) \in Row
           /\ rows'[req[r].id] = Version(r)
           /\ \A j \in Ids \ {req[r].id} : rows'[j] = rows[j]
           /\ req'[r] = Idle /\ \A q \in Requests \ {r} : req'[q] = req[q]
BY CommitShape DEF CommitMemory, Finish, IInv, TypeOK

LEMMA CommitKeeps ==
    ASSUME IInv, UInv, NEW r \in Requests, CommitMemory(r)
    PROVE  UInv'
<1> PICK i : i = req[r].id
    OBVIOUS
<1> PICK v : v = Version(r)
    OBVIOUS
<1>1. /\ i \in Ids /\ v \in Row /\ rows'[i] = v
      /\ \A j \in Ids \ {i} : rows'[j] = rows[j]
      /\ req'[r] = Idle /\ \A q \in Requests \ {r} : req'[q] = req[q]
    BY CommitEffect
<1>2. \A j \in Ids \ {i} : Live(j)' = Live(j)
    BY <1>1 DEF Live
<1>3. Live(i)' => ~v.deleted
    BY <1>1 DEF Live, Row
<1>4. ~v.deleted =>
          /\ LiveWithHash(v.content_hash) \subseteq {i}
          /\ \A q \in Requests \ {r} : Owns(q) => Version(q).content_hash # v.content_hash
    BY CommitAlone
<1>5. \A q \in Requests \ {r} :
          Owns(q)' => /\ Owns(q) /\ req'[q].id = req[q].id
                      /\ Version(q)' = Version(q)
    <2> SUFFICES ASSUME NEW q \in Requests \ {r}, Owns(q)'
                 PROVE  Owns(q) /\ req'[q].id = req[q].id /\ Version(q)' = Version(q)
        OBVIOUS
    <2>1. req'[q] = req[q] /\ HoldsRow(q)
        BY <1>1 DEF Owns, HoldsRow, Dirty
    <2>2. req[q].id # i
        BY <2>1 DEF CommitMemory, Blockers
    <2>3. req[q].op = "create" \/ req[q].id \in Ids
        BY <2>1, IdleType DEF HoldsRow, IInv, RequestsInShape, Shape, Changing, Creating
    <2>4. Version(q)' = Version(q)
        BY <1>1, <2>1, <2>2, <2>3 DEF Version
    <2> QED BY <2>1, <2>4 DEF Owns
<1>6. ~Owns(r)'
    BY <1>1, IdleType DEF Owns, HoldsRow
<1>7. UniqueLiveHash'
    <2> SUFFICES ASSUME NEW a \in Ids, NEW b \in Ids, Live(a)', Live(b)',
                        rows'[a].content_hash = rows'[b].content_hash, a # b
                 PROVE  FALSE
        BY DEF UniqueLiveHash
    <2>1. CASE a # i /\ b # i
        BY <1>1, <1>2, <2>1 DEF UInv, UniqueLiveHash
    <2>2. ASSUME NEW c \in Ids, NEW d \in Ids, c = i, d # i, Live(c)', Live(d)',
                 rows'[c].content_hash = rows'[d].content_hash
          PROVE  FALSE
        <3>1. ~v.deleted /\ rows'[d] = rows[d] /\ Live(d) /\ rows'[c] = v
            BY <1>1, <1>2, <1>3, <2>2
        <3>2. d \in LiveWithHash(v.content_hash)
            BY <2>2, <3>1 DEF LiveWithHash
        <3> QED BY <1>4, <2>2, <3>1, <3>2
    <2>3. CASE a = i \/ b = i
        BY <2>2, <2>3
    <2> QED BY <2>1, <2>3
<1>8. OwnedHashIsFree'
    <2> SUFFICES ASSUME NEW q \in Requests, Owns(q)',
                        NEW j \in LiveWithHash(Version(q).content_hash)'
                 PROVE  j = req'[q].id
        BY DEF OwnedHashIsFree
    <2>1. /\ q # r /\ Owns(q) /\ req'[q].id = req[q].id /\ Version(q)' = Version(q)
        BY <1>5, <1>6
    <2>2. j \in Ids /\ Live(j)' /\ rows'[j].content_hash = Version(q).content_hash
        BY <2>1 DEF LiveWithHash
    <2>3. ASSUME j = i PROVE FALSE
        <3>1. ~v.deleted /\ v.content_hash = Version(q).content_hash
            BY <1>1, <1>3, <2>2, <2>3
        <3> QED BY <1>4, <2>1, <3>1
    <2>4. j \in LiveWithHash(Version(q).content_hash)
        BY <1>1, <1>2, <2>2, <2>3 DEF LiveWithHash
    <2> QED BY <2>1, <2>4 DEF UInv, OwnedHashIsFree
<1>9. OwnersApart'
    BY <1>5, <1>6 DEF UInv, OwnersApart
<1> QED BY <1>7, <1>8, <1>9 DEF UInv

LEMMA NextUInv == IInv /\ UInv /\ [Next]_vars => UInv'
<1> SUFFICES ASSUME IInv, UInv, [Next]_vars PROVE UInv'
    OBVIOUS
<1>1. CASE UNCHANGED vars
    BY <1>1 DEF vars, UInv, UniqueLiveHash, OwnedHashIsFree, OwnersApart, Live, LiveWithHash,
        Owns, HoldsRow, Dirty, Version
<1>2. ASSUME NEW r \in Requests, NEW i \in Ids, Start(r, i) PROVE UInv'
    BY <1>2, StartKeeps
<1>3. ASSUME NEW r \in Requests, RefetchTwin(r) \/ DeadlockAbort(r) \/ Crash(r) PROVE UInv'
    BY <1>3, FinishKeeps DEF RefetchTwin, DeadlockAbort, Crash
<1>4. ASSUME NEW r \in Requests, Advance(r) PROVE UInv'
    BY <1>3, <1>4, InsertKeeps, FlushKeeps, IndexKeeps, CallKeeps, CommitKeeps DEF Advance
<1> QED BY <1>1, <1>2, <1>3, <1>4 DEF Next

LEMMA UniqueInvariance == Spec => [](IInv /\ UInv)
BY InitIInv, InitUInv, NextIInv, NextUInv, PTL DEF Spec

\* No two live memories share a content hash, whatever number of creates and
\* updates race for it and wherever they crash: a writer that passed its check
\* of the unique index keeps the hash to itself until its commit.
THEOREM LiveHashesUnique == Spec => []UniqueLiveHash
<1>1. UInv => UniqueLiveHash
    BY DEF UInv
<1> QED BY <1>1, UniqueInvariance, PTL

-----------------------------------------------------------------------------
(* The journal the rows show.                                              *)

ViewOf(row) ==
    IF row = NoRow THEN NoRow
    ELSE IF row.deleted THEN Removed
    ELSE [text |-> row.text, key |-> row.content_hash, meta |-> row.meta]

LEMMA ViewType ==
    ASSUME NEW row \in Row \cup {NoRow}
    PROVE  /\ row = NoRow => ViewOf(row) = NoRow
           /\ row # NoRow /\ row.deleted => ViewOf(row) = Removed
           /\ row # NoRow /\ ~row.deleted =>
                 /\ ViewOf(row) \in Entry
                 /\ ViewOf(row).text = row.text /\ ViewOf(row).key = row.content_hash
                 /\ ViewOf(row).meta = row.meta
           /\ ViewOf(row) \in Entry => row # NoRow /\ ~row.deleted
BY NullsAssumption DEF ViewOf, Entry, Row

LEMMA InitJournal == Init => Journal!Init
BY DEF Init, Journal!Init, JournalView

LEMMA CommitJournal ==
    ASSUME IInv, UInv, NEW r \in Requests, CommitMemory(r)
    PROVE  Journal!Next \/ JournalView' = JournalView
<1> DEFINE i == req[r].id
           v == Version(r)
<1>1. /\ i \in Ids /\ v \in Row /\ v # NoRow /\ rows'[i] = v
      /\ \A j \in Ids \ {i} : rows'[j] = rows[j]
    BY CommitEffect, NoRowIsNoRow
<1>2. rows \in [Ids -> Row \cup {NoRow}]
    BY DEF IInv, TypeOK
<1>3. /\ JournalView = [j \in Ids |-> ViewOf(rows[j])]
      /\ JournalView' = [j \in Ids |-> ViewOf(rows'[j])]
    BY DEF JournalView, ViewOf
<1>4. JournalView' = [JournalView EXCEPT ![i] = ViewOf(v)]
    BY <1>1, <1>3
<1>5. ~v.deleted => Journal!KeyFree(i, v.content_hash)
    <2> SUFFICES ASSUME ~v.deleted, NEW j \in Ids \ {i}, JournalView[j] \in Entry
                 PROVE  JournalView[j].key # v.content_hash
        BY DEF Journal!KeyFree, Journal!Entry, Entry
    <2>1. rows[j] # NoRow /\ ~rows[j].deleted /\ JournalView[j].key = rows[j].content_hash
        BY <1>2, <1>3, ViewType
    <2>2. LiveWithHash(v.content_hash) \subseteq {i}
        BY CommitAlone
    <2> QED BY <2>1, <2>2 DEF LiveWithHash, Live
<1>6. CASE rows[i] = NoRow
    <2>1. Creating(req[r], rows[i])
        BY <1>6, CommitShape, NoRowIsNoRow DEF CommitMemory
    <2>2. v = req[r].cur /\ ~v.deleted /\ v.content_hash = Canon[v.text]
        BY <2>1 DEF Creating, Version
    <2>3. v.text \in Texts /\ v.meta \in Metas
        BY <1>1 DEF Row
    <2>4. ViewOf(v) = [text |-> v.text, key |-> Canon[v.text], meta |-> v.meta]
        BY <1>1, <2>2 DEF ViewOf
    <2>5. JournalView[i] = NoRow
        BY <1>1, <1>3, <1>6 DEF ViewOf
    <2>6. Journal!Add(i, v.text, v.meta)
        BY <1>4, <1>5, <2>2, <2>4, <2>5 DEF Journal!Add
    <2> QED BY <1>1, <2>3, <2>6 DEF Journal!Next
<1>7. CASE rows[i] # NoRow
    <2>1. rows[i] \in Row /\ Follows(rows[i], v)
        BY <1>1, <1>2, <1>7, CommitShape DEF CommitMemory
    <2>2. CASE rows[i].deleted
        <3>1. ViewOf(v) = JournalView[i]
            BY <1>1, <1>3, <1>7, <2>1, <2>2 DEF ViewOf, Follows
        <3> QED BY <1>3, <1>4, <3>1
    <2>3. CASE ~rows[i].deleted /\ v.deleted
        <3>1. JournalView[i] \in Entry /\ ViewOf(v) = Removed
            BY <1>1, <1>3, <1>7, <2>1, <2>3, ViewType
        <3>2. Journal!Remove(i)
            BY <1>4, <3>1 DEF Journal!Remove, Journal!Entry, Entry
        <3> QED BY <1>1, <3>2 DEF Journal!Next
    <2>4. CASE ~rows[i].deleted /\ ~v.deleted
        <3>1. JournalView[i] \in Entry /\ ViewOf(v) \in Entry
              /\ ViewOf(v).key = v.content_hash
            BY <1>1, <1>3, <1>7, <2>1, <2>4, ViewType
        <3>2. Journal!Edit(i, ViewOf(v))
            BY <1>4, <1>5, <2>4, <3>1 DEF Journal!Edit, Journal!Entry, Entry
        <3> QED BY <1>1, <3>1, <3>2 DEF Journal!Next, Journal!Entry, Entry
    <2> QED BY <2>2, <2>3, <2>4
<1> QED BY <1>6, <1>7

\* The memories table implements the journal: under every interleaving of
\* requests, each step of the system adds, edits or removes at most one entry,
\* never edits a removed one, and never lets two live entries share a key.
THEOREM JournalImplemented == Spec => ImplementsJournal
<1>1. IInv /\ UInv /\ [Next]_vars => [Journal!Next]_JournalView
    <2> SUFFICES ASSUME IInv, UInv, [Next]_vars
                 PROVE  Journal!Next \/ JournalView' = JournalView
        OBVIOUS
    <2>1. ASSUME rows' = rows PROVE JournalView' = JournalView
        BY <2>1 DEF JournalView
    <2> QED BY <2>1, OnlyCommitsWriteRows, CommitJournal
<1> QED BY <1>1, InitJournal, UniqueInvariance, PTL DEF Spec, ImplementsJournal, Journal!Spec

==============================================================================
