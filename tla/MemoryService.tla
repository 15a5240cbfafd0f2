---------------------------- MODULE MemoryService ----------------------------
(***************************************************************************)
(* app/services/memory.py: one user's memories, kept in a Postgres table   *)
(* and mirrored into an external search index.  Every write is one request *)
(* handler with one database transaction at READ COMMITTED: it SELECTs the *)
(* row, changes the ORM object, flushes (update only), calls the index and *)
(* commits.  Requests run in several worker threads and processes, so      *)
(* their steps interleave; a database error or a crash rolls the local     *)
(* transaction back, never what the index has already applied.             *)
(*                                                                         *)
(* The ORM object is a snapshot of the committed row at the SELECT.  The   *)
(* UPDATE it sends sets the columns that differ from that snapshot and no  *)
(* other (Merge): columns a concurrent request changed survive unless this *)
(* request changed them too.                                               *)
(***************************************************************************)
CONSTANTS
    Ids,       \* memory ids: primary keys, also the index's custom ids
    Texts,     \* stripped, non-empty texts
    Metas,     \* the columns the index keeps as metadata: date, zone, location
    Hashes,    \* values of content_hash
    Canon,     \* canonical_hash, as a function from Texts to Hashes
    Requests,  \* concurrent request handlers
    Crashes,   \* whether a worker may die in the middle of a request
    Replies,   \* how a call to the index may end, see "The call to the index"
    NoRow, NoDoc, NoId,
    Removed    \* what the journal shows of a tombstone

Statuses == {"unsynced", "synced", "pending_delete"}

Row == [text : Texts, content_hash : Hashes, meta : Metas, deleted : BOOLEAN,
        external_id : BOOLEAN, external_status : Statuses]

Doc == [text : Texts, meta : Metas]

\* A live row, as the journal shows it.
Entry == [text : Texts, key : Hashes, meta : Metas]

ASSUME CanonAssumption == Canon \in [Texts -> Hashes]
ASSUME CrashesAssumption == Crashes \in BOOLEAN
ASSUME RepliesAssumption == Replies \subseteq {"ok", "refused", "lost"} /\ Replies # {}
ASSUME NullsAssumption ==
    /\ NoRow \notin Row \cup Entry /\ Removed \notin Entry
    /\ NoDoc \notin Doc /\ NoId \notin Ids

VARIABLES
    rows,  \* the committed memories table
    docs,  \* the external index, by memory id
    req    \* per request: where it is, on what, its snapshot and its ORM object

vars == <<rows, docs, req>>

Ops == {"none", "create", "update", "delete", "sync"}
Pcs == {"idle", "insert", "refetch", "flush", "index", "call", "commit"}

Request == [pc : Pcs, op : Ops, id : Ids \cup {NoId},
            base : Row \cup {NoRow}, cur : Row \cup {NoRow}]

Idle == [pc |-> "idle", op |-> "none", id |-> NoId, base |-> NoRow, cur |-> NoRow]

Init ==
    /\ rows = [i \in Ids |-> NoRow]
    /\ docs = [i \in Ids |-> NoDoc]
    /\ req = [r \in Requests |-> Idle]

-----------------------------------------------------------------------------
(* Rows and the documents built from them.                                 *)

\* A row no request has indexed yet: the table's server defaults.
NewRow(t, m) ==
    [text |-> t, content_hash |-> Canon[t], meta |-> m, deleted |-> FALSE,
     external_id |-> FALSE, external_status |-> "unsynced"]

\* Mutant: the ORM row is sent as it is.
DocOfWholeRow(row) == row

\* The content and the metadata envelope sent for a row.
DocOf(row) == [text |-> row.text, meta |-> row.meta]

Live(i) == rows[i] # NoRow /\ ~rows[i].deleted

\* Mutant: no unique index on live hashes.
NoHashIndex(h) == {}

LiveWithHash(h) == {i \in Ids : Live(i) /\ rows[i].content_hash = h}

Column(base, cur, now) == IF cur # base THEN cur ELSE now

\* Mutant: the UPDATE sends every column.
MergeAll(now, base, cur) == cur

\* An UPDATE of the changed columns, over the row's latest committed version.
Merge(now, base, cur) ==
    [text            |-> Column(base.text, cur.text, now.text),
     content_hash    |-> Column(base.content_hash, cur.content_hash, now.content_hash),
     meta            |-> Column(base.meta, cur.meta, now.meta),
     deleted         |-> Column(base.deleted, cur.deleted, now.deleted),
     external_id     |-> Column(base.external_id, cur.external_id, now.external_id),
     external_status |-> Column(base.external_status, cur.external_status,
                                now.external_status)]

-----------------------------------------------------------------------------
(* Locks.  A transaction that has written its row holds it until it ends.  *)
(* The unique index on live hashes makes a writer wait for a transaction   *)
(* that is changing a row with that hash, or to that hash.                 *)

\* The columns an update flushes before its call to the index.
Dirty(r) ==
    \/ req[r].cur.text # req[r].base.text
    \/ req[r].cur.content_hash # req[r].base.content_hash
    \/ req[r].cur.meta # req[r].base.meta

HoldsRow(r) ==
    \/ req[r].op = "create" /\ req[r].pc \in {"call", "commit"}
    \/ req[r].op = "update" /\ req[r].pc \in {"index", "call", "commit"} /\ Dirty(r)

\* The version of its row a request will leave behind.
Version(r) ==
    IF req[r].op = "create" THEN req[r].cur
    ELSE Merge(rows[req[r].id], req[r].base, req[r].cur)

\* r's open transaction is replacing a live row with hash h, or has put h in the index.
HoldsHash(r, h) ==
    /\ HoldsRow(r)
    /\ \/ req[r].id \in LiveWithHash(h)
       \/ /\ req[r].pc \in {"call", "commit"}
          /\ ~Version(r).deleted
          /\ Version(r).content_hash = h

\* The requests whose transactions r's next statement has to wait for.
Blockers(r) ==
    {q \in Requests \ {r} :
        \/ /\ req[r].pc \in {"flush", "commit"}
           /\ HoldsRow(q) /\ req[q].id = req[r].id
        \/ /\ req[r].pc = "index"
           /\ HoldsHash(q, Version(r).content_hash)
        \/ /\ req[r].pc = "insert"
           /\ \/ HoldsHash(q, req[r].cur.content_hash)
              \/ /\ LiveWithHash(req[r].cur.content_hash) = {}
                 /\ HoldsRow(q) /\ req[q].id = req[r].id}

WaitsOnItself(C) == C # {} /\ \A q \in C : Blockers(q) \cap C # {}

\* r is on a cycle of waiting requests: a smallest set that waits on itself.
Deadlocked(r) ==
    \E C \in SUBSET Requests :
        /\ r \in C /\ WaitsOnItself(C)
        /\ \A D \in SUBSET C : WaitsOnItself(D) => D = C

-----------------------------------------------------------------------------
(* The end of a request, by an answer or by an error.  An error leaves the *)
(* transaction to be rolled back: nothing of it reaches rows, and its locks *)
(* go with its state.                                                      *)

Finish(r) == req' = [req EXCEPT ![r] = Idle]

Goto(r, pc) == req' = [req EXCEPT ![r].pc = pc]

Begin(r, pc, op, i, base, cur) ==
    req' = [req EXCEPT ![r] =
                [pc |-> pc, op |-> op, id |-> i, base |-> base, cur |-> cur]]

-----------------------------------------------------------------------------
(* create_memory                                                           *)

\* The layer-1 lookup by idempotency id: a live row is the answer, a tombstone
\* is MemoryIdempotencyReused, and neither is written to.
StartCreate(r, i, t, m) ==
    /\ req[r].pc = "idle"
    /\ \/ rows[i] = NoRow /\ Begin(r, "insert", "create", i, NoRow, NewRow(t, m))
       \/ rows[i] # NoRow /\ Finish(r)
    /\ UNCHANGED <<rows, docs>>

\* INSERT ... ON CONFLICT (user_id, content_hash) WHERE deleted_at IS NULL DO
\* NOTHING.  A row that took the primary key since the lookup is no such
\* conflict: the statement fails, and the request with it.
InsertMemory(r) ==
    LET new == req[r].cur
        twins == LiveWithHash(new.content_hash)
    IN  /\ req[r].pc = "insert"
        /\ Blockers(r) = {}
        /\ \/ twins # {} /\ Goto(r, "refetch")
           \/ /\ twins = {} /\ rows[req[r].id] = NoRow
              /\ Begin(r, "call", "create", req[r].id, new, new)
           \/ twins = {} /\ rows[req[r].id] # NoRow /\ Finish(r)
        /\ UNCHANGED <<rows, docs>>

\* Mutant: the insert is tried again until there is no twin.
InsertAgain(r) ==
    /\ req[r].pc = "refetch"
    /\ Goto(r, "insert")
    /\ UNCHANGED <<rows, docs>>

\* Layer 2: the conflicting row is read by a second statement, which fails if it
\* was deleted in between.
RefetchTwin(r) ==
    /\ req[r].pc = "refetch"
    /\ Finish(r)
    /\ UNCHANGED <<rows, docs>>

-----------------------------------------------------------------------------
(* update_memory                                                           *)

\* Mutant: the digest is left as it was.
KeptHash(row, t) == row.content_hash

HashAfter(row, t) == IF t # row.text THEN Canon[t] ELSE row.content_hash

\* A field the caller leaves out and one it sets to its present value both
\* leave the column unchanged, so t and m cover the partial updates.
StartUpdate(r, i, t, m) ==
    LET row == rows[i]
        edited == [row EXCEPT !.text = t, !.content_hash = HashAfter(row, t), !.meta = m]
    IN  /\ req[r].pc = "idle"
        /\ \/ Live(i) /\ edited # row /\ Begin(r, "flush", "update", i, row, edited)
           \/ Live(i) /\ edited = row /\ Begin(r, "call", "update", i, row, edited)
           \/ ~Live(i) /\ Finish(r)
        /\ UNCHANGED <<rows, docs>>

\* The flushed UPDATE locks the row; an unchanged hash needs no place in the index.
FlushUpdate(r) ==
    /\ req[r].pc = "flush"
    /\ Blockers(r) = {}
    /\ Goto(r, IF \/ Version(r).deleted
                  \/ Version(r).content_hash = rows[req[r].id].content_hash
               THEN "call" ELSE "index")
    /\ UNCHANGED <<rows, docs>>

\* The unique index decides; a violation rolls back as MemoryDuplicate.
IndexUpdate(r) ==
    /\ req[r].pc = "index"
    /\ Blockers(r) = {}
    /\ IF LiveWithHash(Version(r).content_hash) \ {req[r].id} = {}
       THEN Goto(r, "call") ELSE Finish(r)
    /\ UNCHANGED <<rows, docs>>

-----------------------------------------------------------------------------
(* delete_memory and sync_memory: nothing is flushed before the commit     *)

\* No row is MemoryNotFound, a tombstone is already deleted.
StartDelete(r, i) ==
    LET row == rows[i]
        tomb == [row EXCEPT !.deleted = TRUE]
    IN  /\ req[r].pc = "idle"
        /\ \/ ~Live(i) /\ Finish(r)
           \/ Live(i) /\ row.external_id /\ Begin(r, "call", "delete", i, row, tomb)
           \/ Live(i) /\ ~row.external_id /\ Begin(r, "commit", "delete", i, row, tomb)
        /\ UNCHANGED <<rows, docs>>

\* The last case of the source, pending_delete without a document id, settles locally.
StartSync(r, i) ==
    LET row == rows[i]
        settled == row.external_status = "pending_delete" /\ ~row.external_id
    IN  /\ req[r].pc = "idle"
        /\ IF rows[i] = NoRow \/ row.external_status = "synced" THEN Finish(r)
           ELSE IF settled
                THEN Begin(r, "commit", "sync", i, row,
                           [row EXCEPT !.external_status = "synced"])
                ELSE Begin(r, "call", "sync", i, row, row)
        /\ UNCHANGED <<rows, docs>>

-----------------------------------------------------------------------------
(* The call to the index.  It is applied and answered ("ok"), refused, or  *)
(* applied while the answer is lost to the two-second timeout ("lost"); the *)
(* client retries nothing, and every error leaves the row to be retried.   *)

WantsDelete(r) ==
    \/ req[r].op = "delete"
    \/ req[r].op = "sync" /\ req[r].base.external_status = "pending_delete"

\* Mutants: an index error is raised instead of recorded, or the document is
\* forgotten so that a sync adds it again.
AnsweredOrRaised(r, row) ==
    IF row.external_status = "synced"
    THEN req' = [req EXCEPT ![r].pc = "commit", ![r].cur = row]
    ELSE Finish(r)

AnsweredForgetting(r, row) ==
    req' = [req EXCEPT ![r].pc = "commit",
                       ![r].cur = [row EXCEPT !.external_id =
                                       @ /\ row.external_status = "synced"]]

Answered(r, row) == req' = [req EXCEPT ![r].pc = "commit", ![r].cur = row]

\* Mutants: a failed push passes for synced, or queues the row for deletion.
AfterPushAlways(reply) == "synced"
AfterPushPurges(reply) == IF reply = "ok" THEN "synced" ELSE "pending_delete"

\* external_status after an add or a patch.
AfterPush(reply) == IF reply = "ok" THEN "synced" ELSE "unsynced"

\* Mutants: a successful delete leaves the status alone; a failed one passes for done.
AfterPurgeKept(row, reply) == IF reply = "ok" THEN row.external_status ELSE "pending_delete"
AfterPurgeAlways(row, reply) == "synced"

\* external_status after a delete.
AfterPurge(row, reply) == IF reply = "ok" THEN "synced" ELSE "pending_delete"

\* _send_to_supermemory_add: an upsert by custom id.
CallAdd(r, reply) ==
    LET row == req[r].cur IN
    /\ req[r].pc = "call" /\ ~WantsDelete(r) /\ ~row.external_id
    /\ docs' = IF reply = "refused" THEN docs
               ELSE [docs EXCEPT ![req[r].id] = DocOf(row)]
    /\ Answered(r, [row EXCEPT !.external_id = reply = "ok",
                                !.external_status = AfterPush(reply)])
    /\ UNCHANGED rows

\* Mutant: a sync patches like an update.
SendsChangedContent(r) == req[r].cur.text # req[r].base.text

\* update_memory patches the content only if its own text changed; sync_memory always.
SendsContent(r) == req[r].op = "sync" \/ req[r].cur.text # req[r].base.text

\* _send_to_supermemory_patch: metadata always; a missing document refuses.
CallPatch(r, reply) ==
    LET row == req[r].cur
        i == req[r].id
        answer == IF docs[i] = NoDoc THEN "refused" ELSE reply
    IN  /\ req[r].pc = "call" /\ ~WantsDelete(r) /\ row.external_id
        /\ docs' = IF answer = "refused" THEN docs
                   ELSE [docs EXCEPT ![i] =
                           [text |-> IF SendsContent(r) THEN row.text ELSE @.text,
                            meta |-> row.meta]]
        /\ Answered(r, [row EXCEPT !.external_status = AfterPush(answer)])
        /\ UNCHANGED rows

\* A document that is already gone counts as deleted.
CallDelete(r, reply) ==
    /\ req[r].pc = "call" /\ WantsDelete(r)
    /\ docs' = IF reply = "refused" THEN docs
               ELSE [docs EXCEPT ![req[r].id] = NoDoc]
    /\ Answered(r, [req[r].cur EXCEPT !.external_status = AfterPurge(req[r].cur, reply)])
    /\ UNCHANGED rows

-----------------------------------------------------------------------------
\* db.commit(), with the UPDATE it flushes.
CommitMemory(r) ==
    /\ req[r].pc = "commit"
    /\ Blockers(r) = {}
    /\ rows' = [rows EXCEPT ![req[r].id] = Version(r)]
    /\ Finish(r)
    /\ UNCHANGED docs

\* The statement Postgres cancels to break a deadlock: an error that is not handled.
DeadlockAbort(r) ==
    /\ Deadlocked(r)
    /\ Finish(r)
    /\ UNCHANGED <<rows, docs>>

\* The worker dies, or loses its database connection.
Crash(r) ==
    /\ Crashes /\ req[r].pc # "idle"
    /\ Finish(r)
    /\ UNCHANGED <<rows, docs>>

Start(r, i) ==
    \/ \E t \in Texts, m \in Metas : StartCreate(r, i, t, m) \/ StartUpdate(r, i, t, m)
    \/ StartDelete(r, i)
    \/ StartSync(r, i)

Call(r) ==
    \E reply \in Replies : CallAdd(r, reply) \/ CallPatch(r, reply) \/ CallDelete(r, reply)

Advance(r) ==
    \/ InsertMemory(r) \/ RefetchTwin(r)
    \/ FlushUpdate(r) \/ IndexUpdate(r)
    \/ Call(r) \/ CommitMemory(r) \/ DeadlockAbort(r)

Next == \E r \in Requests : (\E i \in Ids : Start(r, i)) \/ Advance(r) \/ Crash(r)

Spec == Init /\ [][Next]_vars

\* A request's thread keeps running, the client's timeout bounds its call, and
\* Postgres serves the waiters of a lock in turn.
Fairness == \A r \in Requests : SF_vars(Advance(r))

FairSpec == Spec /\ Fairness
-----------------------------------------------------------------------------
(* Properties.  The first group holds for any number of concurrent requests *)
(* and with crashes, the second for requests that do not overlap and are    *)
(* not cut off, the third states promises of the repository's documents.    *)

\* Rows, documents and request records are well formed.
TypeOK ==
    /\ rows \in [Ids -> Row \cup {NoRow}]
    /\ docs \in [Ids -> Doc \cup {NoDoc}]
    /\ req \in [Requests -> Request]

\* Two live memories never share a content hash, whatever updates and creates
\* race: what the partial unique index and its waits are there for.
UniqueLiveHash ==
    \A i, j \in Ids :
        Live(i) /\ Live(j) /\ rows[i].content_hash = rows[j].content_hash => i = j

\* A committed row that waits for its remote deletion is a tombstone and has a
\* document to delete, so the branch of sync_memory for the "inconsistent
\* state" is dead code, and a memory in the list never reads pending_delete.
PendingDeleteIsTombstone ==
    \A i \in Ids :
        rows[i] # NoRow /\ rows[i].external_status = "pending_delete"
            => rows[i].deleted /\ rows[i].external_id

\* No commit of a request that read the row earlier revives a tombstone, takes
\* a row away or forgets its document id.
RowsOnlyMoveForward ==
    [][\A i \in Ids : rows[i] # NoRow =>
           /\ rows'[i] # NoRow
           /\ rows[i].deleted => rows'[i].deleted
           /\ rows[i].external_id => rows'[i].external_id]_vars

\* What the table shows of the journal, and the promise it keeps: every step of
\* every interleaving adds, edits or removes at most one entry, edits none that
\* is removed, and gives no two live entries the same key.
JournalView ==
    [i \in Ids |->
        IF rows[i] = NoRow THEN NoRow
        ELSE IF rows[i].deleted THEN Removed
        ELSE [text |-> rows[i].text, key |-> rows[i].content_hash, meta |-> rows[i].meta]]

Journal == INSTANCE MemoryJournal WITH journal <- JournalView, Absent <- NoRow

ImplementsJournal == Journal!Spec

\* Every request is answered, or its worker dies: no set of requests waits for
\* ever on each other's row locks and index entries.
RequestsReturn == \A r \in Requests : (req[r].pc # "idle") ~> (req[r].pc = "idle")

-----------------------------------------------------------------------------
Settled(i) == rows[i] # NoRow /\ \A r \in Requests : req[r].id # i

\* The stored digest is the digest of the stored text after any sequence of
\* creates and updates, those that only change the text's case included.
HashMatchesText == \A i \in Ids : Live(i) => rows[i].content_hash = Canon[rows[i].text]

\* A live memory that has a document id has a document, and its metadata is the
\* row's whenever the row claims to be synced, through every pattern of
\* failed, lost and repeated calls.
IndexHasLiveMemory ==
    \A i \in Ids :
        Settled(i) /\ Live(i) /\ rows[i].external_id =>
            /\ docs[i] # NoDoc
            /\ rows[i].external_status = "synced" => docs[i].meta = rows[i].meta

\* A document exists only for a committed memory or for one being created: the
\* order flush, call, commit leaves no document behind a rejected row.
NoOrphanDocument ==
    \A i \in Ids :
        docs[i] # NoDoc =>
            \/ rows[i] # NoRow
            \/ \E r \in Requests : req[r].op = "create" /\ req[r].id = i

\* A sync that reports a live row synced has made its document equal to it.
SyncRepairs ==
    [][\A r \in Requests :
           LET i == req[r].id IN
           /\ req[r].op = "sync" /\ CommitMemory(r) /\ Live(i)
           /\ rows'[i].external_status = "synced"
           => docs'[i] = DocOf(rows'[i])]_vars

\* A tombstone whose memory had a document waits for its deletion or is
\* settled, never unsynced: sync_memory cannot patch a deleted document.
TombstoneIsNotRepatched ==
    \A i \in Ids :
        Settled(i) /\ rows[i].deleted /\ rows[i].external_id
            => rows[i].external_status # "unsynced"

\* The deletion of an indexed memory is recorded as done, by delete_memory or
\* by a later sync, only when the document is gone.
PurgeIsReal ==
    [][\A i \in Ids :
           /\ rows[i] # NoRow /\ rows[i] # rows'[i] /\ rows[i].external_id
           /\ rows'[i].deleted /\ rows'[i].external_status = "synced"
           => docs'[i] = NoDoc]_vars

-----------------------------------------------------------------------------
\* DECISIONS.md on external_status: "'synced' means 'remote agrees with our
\* intent', whether that intent is 'row exists' or 'row is gone'".
SyncedMeansAgrees ==
    \A i \in Ids :
        Settled(i) /\ rows[i].external_status = "synced"
            => docs[i] = IF rows[i].deleted THEN NoDoc ELSE DocOf(rows[i])

\* canonical_hash: "The same logical entry produces the same digest", which
\* backs the unique index: two live memories never hold the same logical entry.
LiveTextsDistinct ==
    \A i, j \in Ids :
        Live(i) /\ Live(j) /\ Canon[rows[i].text] = Canon[rows[j].text] => i = j
=============================================================================
