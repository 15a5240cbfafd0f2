# A verification project for `me`

`me` is a personal journal: a FastAPI server (`app/`) with a Postgres database, an agent that
reads and writes the journal while it chats, a mirror of the journal in the Supermemory search
index, and an Expo client (`mobile/`). The modules here model the parts of it in which a wrong
order of steps loses, duplicates or contradicts something. TLC checks them on small instances,
TLAPS proves the main results for every instance. Paths below are relative to the repository.

- [The system](#the-system): components, state, operations, interactions, what is hard
- [The modules](#the-modules): what models what
- [The runs](#the-runs): questions, bounds, fairness, results
- [The proofs](#the-proofs)
- [What the models assume and leave out](#what-the-models-assume-and-leave-out)
- [Plan](#plan)

## The system

| Component | State | Operations | Talks to |
|---|---|---|---|
| Memory service, `app/services/memory.py` | the `memories` table: text, `content_hash`, metadata, `deleted_at`, `external_id`, `external_status` | create, update, delete, sync; get, list, search | Postgres; the Supermemory client, inside the transaction |
| Supermemory client, `app/services/memory_client.py` | none; a 2 s timeout, no retries of its own | add, patch, delete, search; errors become three classes | the remote index, which has its own documents |
| Chat endpoint, `app/api/chat.py`, `app/services/sessions.py` | `sessions` and `messages` | `POST /chat`, create, list and delete a session, list messages | Postgres; the stream |
| Chat stream, `app/api/_chat_stream.py` | per request: `StepAssigner`, `StreamState` | number and fold packets, persist the reply, replay a reply | the runtime; the client over SSE |
| Agent runtime, `app/agents/runtime.py` | per request: the conversation with the model | stream a model turn, run its tool calls, stop at a cap | OpenRouter; the tools |
| Agent tools, `app/agents/tools/` | none | `search_memories`, `manage_memory` | memory service |
| Mobile chat, `mobile/lib/chat/` | the reducer's active turn, the cached history, the session id, an abort controller | send, stop, new session, fetch older, commit a finished turn | `POST /chat`, `GET /sessions/…/messages` |
| Mobile wire layer, `mobile/lib/api/` | the unfinished block of a stream | split blocks, route packets, REST calls | the server |
| Mobile sign-in, `mobile/lib/auth/` | stored token, status | load, log in, log out, react to a 401 | the server |
| Sign-in and throttle, `app/api/auth.py`, `app/services/auth_throttle.py` | a counter, window and lock per action and address | log in, verify, count, clear | Postgres |
| Owner, CLI, settings, migrations, deployment, landing page, screens | | | |

How they interact. A handler runs in a worker thread of one of two worker processes, with one
database session (`autoflush=False`, READ COMMITTED) that may span several transactions. A chat
request commits the user's message, then streams for as long as the agent runs; each tool call
commits its own transaction in between; the reply is inserted after the last packet. The client
retries by posting the same `client_message_id` again. The index is called between a flush and
a commit, so the table and the index are updated neither atomically nor in a fixed order.

What is hard, and the property that makes each part correct:

- *Memory service.* Requests overlap at every statement; the ORM object is an unlocked snapshot
  whose changed columns alone are written; the unique index makes transactions wait for one
  another; the call to the index may be refused, or applied and its answer lost; a worker may die
  anywhere. Correct means: no two live memories with one digest, no revived tombstone, no
  forgotten document id, an index that follows the table once calls succeed, every request answered.
- *Chat turn.* Posts of one turn overlap, are cut off and retried, while the session is deleted.
  Correct means: one reply per turn, a finish only for a stored reply, the same reply for every
  retry, no second agent run after an answer was seen.
- *Chat stream.* One turn is told three times: persisted, live, replayed. Correct means: the
  three agree, no delta is lost or moved, no tool is left open, the model's conversation is legal.
- *Mobile chat.* Superseded sends, callbacks and refs that are one render behind, and a fetch that
  races a finished turn. Correct means: packets, turns and conversations never cross over, one
  create at a time, and nothing is listed twice.
- *History of a run.* The model is told the newest rows, not the newest turns, in the order of
  transaction starts. Correct means: a turn that was answered before the post is in it, whole.
- *Search.* The index and the table disagree, and both change between the two lookups. Correct
  means: once its delete was answered a memory is not found again, and what is synced is.
- *Listings.* Keyset pages over rows that appear behind the cursor, move or are deleted. Correct
  means: the pages are in order, and no row that stays where it is is skipped.
- *Throttle and sign-in.* Boundaries of window and lock, overlapping requests; late 401s, writes
  of the secure store under way, a killed app. Correct means: failures are bounded, a lock ends,
  and what the phone stores is what it shows.

`PROJECT.json` lists the components with their status and every hazard with its line.

## The modules

| Module | Models |
|---|---|
| `MemoryJournal` | the abstract journal: entries are added, edited, removed atomically; live keys distinct |
| `MemoryService` | `memory.py` statement by statement, with the index, locks, deadlocks and crashes |
| `MemorySearch` | on top of it, `search_memories`: hits of the index, their rows, the local fallback |
| `MCMemoryService`, `MCMemorySearch` | their instances: two spellings of one text and another text |
| `MemoryServiceProofs` | theorems of `MemoryService` for overlapping requests; the refinement of `MemoryJournal` |
| `MemorySearchProofs` | theorems about the mirror in the index, for one request at a time, and about searches |
| `TurnLog` | the abstract log of a session: a turn is asked, answered once, and posts are told entries of the log |
| `ChatTurn` | `POST /chat` on one session, with retries, disconnects and `DELETE` |
| `ChatHistory` | on top of it, `created_at` and the history a run is given |
| `MCChatTurn`, `MCChatHistory` | their symmetry, and the times up to their order |
| `ChatTurnProofs` | their theorems |
| `ChatStream`, `ChatStreamProofs` | one agent run: the loop, the numbering, both folds, persistence, replay; its theorems |
| `ChatClient` | the hooks of the chat screen: session, stream, active turn, cached history |
| `SseBlocks`, `ChatWire` | the block splitter as a function of the cuts; the client over it |
| `MCChatClient`, `ChatClientProofs` | symmetry of `ChatClient`; its theorems |
| `Listings` | the three keyset lists, their writers and a reader of pages |
| `MCListings`, `ListingsProofs` | its instance; its theorems |
| `SequenceLemmas` | least numbers, `FlattenSeq` and elements of sequences, for the proofs |
| `AuthThrottle` | the failure counter of one address, as the two endpoints use it |
| `SignIn`, `SignInProofs` | the phone's session over it: store, calls, 401s, login, the app killed; its theorems |

### MemoryService

`rows` is the committed table, `docs` the index by custom id, `req[r]` a request: its next
statement `pc`, the snapshot `base` it read and the ORM object `cur` it will write. Actions follow
the statements of the handlers: `StartX` is everything up to the first write (lookups, early
returns, validation that answers without a write), `InsertMemory`, `RefetchTwin`, `FlushUpdate`
and `IndexUpdate` are the statements that wait for other transactions, `CallAdd`, `CallPatch` and
`CallDelete` the call with the recording of its outcome, `CommitMemory` the commit with the
UPDATE it flushes. `Merge` is SQLAlchemy's UPDATE of the changed columns. The locks are derived
from the requests (`HoldsRow`, `HoldsHash`, `Blockers`), so a rollback releases them by ending
the request. `FlushUpdate` and `IndexUpdate` are two waits of one UPDATE statement: the row first,
then the unique index; that is where two updates deadlock and `DeadlockAbort` frees them.
Owner columns are left out (there is one user); metadata columns are one value.

### MemorySearch

The index answers with any set of its documents (`SearchIndex`), and the rows are read in a later
statement (`HydrateHits`); `SearchLocal` is the fallback. Between the two, every request of
`MemoryService` may take a step, and before them the index may have lost, refused or kept whatever
the calls left there. Scores, ranks and previews are data: any set of hits may come.

What a search drops at one moment is a condition of its SELECT; what may go wrong is that a row comes
back to life. `gone` is a history variable: the memories whose `DELETE` was answered. An update or
a sync that read such a memory before goes on and commits after it, and `DeletedIsNotFound` asks that
no search, of the index or of the table, returns it from then on. It needs overlapping requests,
and the UPDATE of the changed columns (`Merge`): one that writes the whole row revives it.

### ChatTurn

`asked` and `replies` are the two kinds of messages, `closed` the session's `deleted_at`, and
`post[p]` a request: `record` (insert the user message), `lookup` (find a reply), then `replay`
or `run`, `persist`, `finish`. A reply's id is its post: `stream_turn` allocates it per request.
`memories` records what a run's tools committed. `DELETE` takes two steps because its UPDATE of
the messages is visible to nobody until its commit (`marked`), which also writes the session;
`Waits` is a reply's INSERT that meets a marked reply in the unique index. `Disconnect` is a
broken connection, an impatient client or a dying worker: at every point, without a finish.
`answered` is a history variable: the posts whose clients had their finish when a post arrived.

`Log` maps this to `TurnLog`: the turns with a user message are asked, the assistant messages, live
or deleted, are the answers, and a post is told what its finish packet named. `RecordUser` is `Ask`
the first time, `Persist` is `Answer` when its INSERT succeeds, `Replay` and `Finish` are `Tell`,
`DeleteCommit` is `Close`; all else leaves the log alone. After `Close` a turn may get a second
answer: the index leaves deleted rows out, and a post that was under way goes on.

### ChatHistory

Postgres' `now()` is the start of the transaction, so `created_at` says when a request's
transaction began and not when its message was committed. `began` follows the transactions of the
posts: from the first statement, anew after the commit of the user's message and of a tool, and on
through an INSERT that finds its row, which `record_user_message` does not commit. Each action is
the one of `ChatTurn` with the times it sets; `Load` is `load_recent_history`, a statement of its
own after the lookup. So another post of the same turn may commit its reply in between, and
the run is told its own answer without the question; the row it takes in the history is counted.

Times are only compared. TLC identifies states that differ in nothing but the gaps between
times, or in the times of a closed session, at which no step and no property looks (`View`).

Two posts of one new turn that overlap may swap its messages: the one that was received first finds
the row the other has just inserted, keeps its older transaction, and its reply gets an earlier
`created_at` than the question. `AnsweredTurnsAreKnown` therefore leaves the order open for the
turns in `raced`; all other turns come question first.

### ChatStream

`pc`, `turns`, `pending` and `messages` are `run_agent_stream` with `_run_one_tool` and
`_surface_tool_error`; each action that emits a packet passes it through `Assign`/`StepOf`
(`StepAssigner`), `Fold` (`StreamState`) and `Reduce` (the client), as `stream_turn` and the
client's handlers do. `Replayed` is `replay_stream` folded by the same client. Deltas are numbered,
so the persisted content can be compared with what was said; arguments and results are reduced to
present or absent.

### ChatClient

`session` and `inflight` are `useChatSession`, `creates` and `waiters` its calls of
`POST /sessions` and the sends that await them; `active`, `controller` and `stream` are
`useChatStream` with one call of `streamChat` per send (`new`, `waiting` for the session,
`location`, `open`, then `failed` or `done`); `cache` and `fetch` are the history query, `asked` and
`replied` what the server has stored of it. `conversation` and `born` are history variables: how often
"new session" was pressed, and before which press a session was asked for.

An action is one task of the JavaScript thread with the promise continuations it runs. React
renders in a task of its own, `Render`, which may come any number of tasks later: until then
`ensureSession` and `commitTurn` have the session id of the last render (`rendered`) and
`activeTurnRef` has its turn (`ref`). Only `newSession` sets its state in the press itself, and React renders
that before the next task; a send sets its turn in a promise continuation, after `await`.
`SessionCreated` sets the session and forgets the create, and a send that comes before the render
sees neither: it posts a second session, to which the rest of the conversation goes, and the first turn
is no longer shown. So "one session per conversation" is no property of this code, and none is stated;
the comment in `use-chat-session.ts` promises a single POST until the first response lands, which
is `OneCreateUnderWay`. `FinishStream` can lose packets, because the packets of the last chunk and the finish
are routed in one task. One order is assumed (`BeginRendered`): when a turn finishes, the render that
its beginning asked for has run. The location is awaited and the request sent after that render
was scheduled, and an answer takes a round trip and a run of the agent.
`Begin` takes several sends at once because every send that waited for the session continues in the
task in which it arrives; each aborts the one before. `Reduced` appends whatever arrives to the
turn that is active, as the reducer does: a packet names neither its turn nor its stream.

The server is reduced to what the client sees of it: a message is recorded, later its reply.
It goes on when the client has aborted or lost the connection. A page lists turn by turn; no
property here depends on the order of the rows, which `Listings` is about.

### SseBlocks and ChatWire

A body is a sequence of tokens: CR, LF and the lines between them, as sse-starlette writes packets
and keep-alives. `SplitSseBlocks` is `splitSseBlocks` on them. `CutsDoNotShow` compares every first
chunk and every second one with the whole text: the packets that are complete come once, and the
leftover is the same wherever the text was cut, so any number of chunks does what one does.
`ChatWire` states it for each number of packets an open stream of `ChatClient` has received.

### Listings

`list` picks one of the three lists, its direction and, for memories, `from_date` (`to_date` is
symmetric). They share the keyset comparison and differ in who changes the key: `WriteMemory` says
any date; `TakeTime` and `CommitTime` are the two ends of a transaction that stamps a session
or a message, so that stamps are committed in any order. `ReadPage` fetches one row more than
the limit; a list of messages is admitted first (`OpenSession`) and read in a later statement.
`steady` is a history variable: the rows nobody has written since the first page. A row that
appears in front of the cursor is not in this reading of the list; the client gets it when it
fetches from the start again (`Restart`).

### AuthThrottle and SignIn

A time is kept as its distance from the present, so the clock needs no bound. A request reads the
row once more after it has checked the passphrase and writes it in a later statement; `Updated` is
the UPDATE of the columns it changed. What an INSERT of a key that exists or an UPDATE of a row that
is gone leaves behind (an unhandled error) is the row as it is. The history `failed` has the ages of
the last `2 * Failures` wrong passphrases, more than the bound allows.

`SignIn` is the login of one phone over it, next to other requests. `writes` are the calls of the
secure store that are under way, in order; `calls` the tokens of requests that are not
answered, any of which may come back with a 401 at any later time (`Answered`). `Killed` ends the app
with its writes and calls; `Start` and `Loaded` begin again with what the store has.

## The runs

All bounds are in the `.cfg` files. Deadlock is checked except in the chat runs, where a post and
a run of the agent end for good.

| Run | Question | Bounds |
|---|---|---|
| `memory_sequential` | Without overlap, do digests, documents and statuses stay consistent under all failures of the index? | one request at a time, 2 memories, 3 texts (two with one digest), 2 metadata values, calls ok/refused/lost |
| `memory_search` | On one memory, do tombstones and document ids survive overlap, failed calls and crashes, and does a search find what is in step and never again what was deleted? | 2 requests, a search beside them, 1 memory, 2 texts, 2 metadata values, ok/refused/lost, crashes anywhere |
| `memory_concurrent` | On several, do live hashes stay distinct, does the table implement the journal, and is every request answered? | 2 requests, 2 memories, 2 texts, calls that succeed, crashes anywhere, strong fairness |
| `memory_stale_synced`, `memory_duplicate_text` | documented promises the code does not keep, below | |
| `chat_turns` | One reply, honest finishes, no rerun of an answered turn, is the log of turns kept, and does a run know the turns answered before? | 3 posts on 2 turns, overlap, retry, disconnects, one session with `DELETE`, a history of one pair |
| `chat_deleted_session` | a documented promise the code does not keep, below | 2 posts of 1 turn |
| `chat_clients` | Do packets, turns and conversations stay apart, do sends share a create, is each message listed once, and does no cut of a chunk show? | 2 sends, 2 sessions, 2 packets a reply in any chunks, cut at any token, renders at any time, 2 presses of "new session", failing creates and streams, a fetch of each history at any time |
| `chat_unfinished` | a documented promise the code does not keep, below | 1 send, 2 packets |
| `chat_stream` | Do timeline, live client and replay agree, whatever the run does? | 3 model turns (the cap), 2 deltas and 2 calls in each |
| `listings` | Are pages in order, and is no row skipped that stays where it is? | 3 rows, 3 times, pages of 1 or 2, 2 writers between stamp and commit, all three lists in both directions |
| `sign_in` | Are failures bounded, does a lock end, is what the phone shows what it stores? | the phone and another client, 3 failures, a window of 4 and a lock of 3 ticks, requests that take up to 1, 2 tokens, 2 pending writes |

Why these are enough. The interesting cases of the memory table involve two requests: they meet
in a row or in an entry of the unique index, and the smallest deadlock is two updates that
exchange texts, which two memories and two texts allow. A third request adds waiting but no new
kind of conflict; the theorems cover any number. The lost-and-repeated patterns of the index need
a sequence, not an overlap: the sequential run explores all sequences, as nothing in it counts.
In `memory_search` two requests are needed, one that read the row and one that deletes it, and the search
takes its steps between any two of theirs; what its properties say of a memory depends on no other
one. In `memory_concurrent` calls succeed: texts, digests and deletions, of which its properties speak,
do not depend on the outcome of a call.
In `chat_turns`, two posts of a turn race while a third retries or belongs to another turn, whose
history they fill; a history of one pair is full with the two messages of the other turn, so any
row too many pushes one out. The theorems cover any number. In `chat_stream` the cap of ten is
three: a first, a middle and a last turn; two deltas and two calls give every alternation of text
and tools within and across turns.
In `chat_clients` what can cross over is an older and a newer send, or a session of an older and
of a newer conversation: two of each, with a second press for a create that is
superseded twice. The first packet of a reply gives it its id, the second stands for all others.
In `listings` a page can end before, on or between two equal keys, with a third row that moves,
appears or goes away around it; the theorems cover any table. In `sign_in` the count is above two,
so that a row can be neither new nor full, the window and the lock differ, and a second token
follows a first one whose calls are still out.

Fairness. `memory_concurrent` uses strong fairness of `Advance(r)` for each request, i.e.
of every next statement together. Threads are scheduled, the call to the index is bounded by the
client's 2 s timeout, Postgres serves the waiters of a lock in turn (hence strong: a statement
that is enabled again and again gets its lock), and its deadlock detector cancels one request of a
cycle. Nothing makes a client send, so `Start` is not fair, and nor is `Crash`: a
request that dies ends without an answer. `sign_in` uses weak fairness of the clock and of each accepted
request's next statement; nothing makes anybody log in, or stop trying.

What the violated runs show:

- `memory_stale_synced`. `DECISIONS.md` defines `synced` as "remote agrees with our intent". A
  memory whose first add failed is deleted: no call, status still `unsynced`. `sync_memory` also
  selects deleted rows, adds a document and reports `synced`. The same property fails without a
  delete: `update_memory` patches the content only if this very update changed it, so after a text
  update whose patch failed, an edit of metadata alone leaves the old text under `synced`.
- `memory_duplicate_text`. An update that only changes the spelling recomputes an equal digest, so
  it writes the text alone. If another request committed a new text with its digest in between,
  the row has the text of one and the digest of the other, and the index admits a second copy.
- `chat_unfinished`. The ref in `use-chat-stream.ts` exists so that the handlers "always read the
  freshest state when they synthesize the persisted pair". When the last packets share a chunk
  with the finish, the committed turn lacks them until the next fetch of the history.
- `chat_deleted_session`. A post that checked the session before `DELETE` committed records its
  messages afterwards: the deleted session has live messages.

Each property of a passing run has a mutant: a definition with a plausible bug (a dropped guard,
a missing reset, an endless retry) under which the run must fail. They are the operators marked
`Mutant` in front of the definition they replace.

## The proofs

| Theorem | Says |
|---|---|
| `MemoryServiceProofs!TypeCorrect` | `[]TypeOK` |
| `MemoryServiceProofs!PurgesAreTombstones` | `[]PendingDeleteIsTombstone` |
| `MemoryServiceProofs!RowsMoveForward` | `RowsOnlyMoveForward`, an action property |
| `MemoryServiceProofs!LiveHashesUnique` | `[]UniqueLiveHash` |
| `MemoryServiceProofs!JournalImplemented` | `MemoryService` implements `MemoryJournal` |
| `MemorySearchProofs!HashesMatch`, `LiveIsIndexed`, `DocumentsHaveOwners`, `TombstonesStayPurged` | `[]HashMatchesText`, `[]IndexHasLiveMemory`, `[]NoOrphanDocument`, `[]TombstoneIsNotRepatched`, if `OneAtATime` |
| `MemorySearchProofs!SyncsRepair`, `PurgesAreReal` | the action properties `SyncRepairs`, `PurgeIsReal`, if `OneAtATime` |
| `MemorySearchProofs!SyncedStaysFound`, `DeletedStaysUnfound` | the action properties `SyncedIsFound`, `DeletedIsNotFound`, for any number of overlapping requests, with crashes |
| `ChatTurnProofs!TypeCorrect` | `[]TypeOK` |
| `ChatClientProofs!TypeCorrect`, `PacketsStay`, `TurnsStay`, `ListedOnce` | `[]TypeOK`, `[]PacketsStayInTheirTurn`, `[]TurnsStayInTheirConversation`, `[]ShownOnce` |
| `ChatClientProofs!CutsAreSeamless` | `splitSseBlocks`, cut anywhere, of any text in which no CR follows a CR |
| `ChatClientProofs!ChunksRight` | `[]ChunksArePackets`, for replies of any length |
| `ChatClientProofs!OneCreate`, `SessionStaysInConversation` | `[]OneCreateUnderWay`, `[]SessionIsOfThisConversation` |
| `ListingsProofs!TypeCorrect`, `PagesInOrder`, `NothingSkipped` | `[]TypeOK`, `[]PagesAreInOrder`, `[]NoGap` |
| `ChatTurnProofs!HistoryIsOfChatTurn` | a behaviour of `ChatHistory` is one of `ChatTurn` |
| `ChatTurnProofs!AnsweredTurnsKnown` | `AnsweredTurnsAreKnown`, an action property |
| `ChatTurnProofs!RepliesUnique`, `FinishesHonest`, `AnsweredTurnsReplay` | `[]OneLiveReply`, `[]FinishIsStored`, and `[]AnsweredTurnIsReplayed`, which speaks of open sessions |
| `ChatTurnProofs!AnswersUnique` | all finished posts of a turn name the same reply, as long as the session is open |
| `ChatTurnProofs!TurnLogImplemented` | `ChatTurn` implements `TurnLog` |
| `ChatStreamProofs!TypeCorrect`, `LatestOnly`, `ToolsEnd`, `CallsAreAnswered` | `[]TypeOK`, `OnlyLatestEventChanges` (an action property), `[]ToolsClosed`, `[]CallsAnswered` |
| `ChatStreamProofs!ContentIsSaid`, `ReplayIsLive` | `[]ContentIsWhatWasSaid`, `[]ReplayAgrees` |
| `SignInProofs!TypeCorrect`, `StoredShown`, `FailuresBounded` | `[]TypeOK`, `[]StoredIsShown`, `[]FailuresAreBounded` |

They hold for all finite or infinite sets of memories, texts, requests, turns and posts, under the
named assumptions of the modules (and any number of sends, sessions, presses, writers and logins, any cap of model turns, deltas and calls, any window, lock and count of failures): `Canon`
is a function, the null values are none of the values they stand beside, the replies are among the
three, ids of listed rows are numbers and there are finitely many, and `ChatHistory` has finitely
many turns and posts.

*Memory service.* `PendingDeleteIsTombstone` is not inductive: a commit writes what its request
computed from an earlier snapshot. `IInv` adds what is known of a request in flight
(`RequestsInShape`): its snapshot is still a lower bound of the committed row (`Follows`: rows only
gain `deleted` and `external_id`), and its object is such that a merge over any later row is
neither a revived nor a wrongly purging one. `RowLocksExclusive` says that a written row has one
writer, so a create's primary key stays free until its commit. Each action has a lemma; most reduce to
`RequestStep`, as one request changes and no row does.

`UniqueLiveHash` needs the waits. The UPDATE passes its check of the index long before it
commits, so the check must stay true: `UInv` says that a hash that a request owns
(`HoldsHash`) is no other live row's (`OwnedHashIsFree`) and is owned by one request
(`OwnersApart`). The checks establish it because a statement waits for every owner; a
commit then turns ownership into a live row.

*One request at a time.* The theorems about the mirror in the index assume `OneAtATime`: no two
requests and no crashes, as in `memory_sequential`. They are false otherwise; a second request can commit
between a snapshot and its commit, and a crash forgets what the index has applied. `SInv` follows a memory
through a request. A row at rest is true of its document (`RowsIndexed`); a request's snapshot is the committed
row (`Alone`), so its ORM object is what it commits (`MergeAlone`); between the answer and the commit the
object is what is true of the document (`Done`). The parts need each other: that a sync cannot patch a tombstone
(`NotRepatched`) is what makes `PurgeIsReal` true of it, and that a row with a document id has its document
what makes a patch that was answered a repair.

*Search.* `SyncedIsFound` holds next to any requests. `KInv` says that a live row that calls itself
synced knows its document, and so does the ORM object of each request. A merge of the two keeps it
(`MergeKnown`): the UPDATE either sets the id together with the status or was made from a snapshot that had it.
`DeletedIsNotFound` rests on `IInv`: the request whose delete is answered commits a tombstone
(`DeleteLeavesTombstone`), and no later commit, of whatever snapshot, makes a tombstone live again (`Forward`, as
in `RowsMoveForward`). So all of `gone` are tombstones (`GoneAreTombstones`), and neither SELECT returns one.

*Refinement.* `JournalView` shows of each row nothing, its entry or that it was removed.
Only commits change rows, and `CommitJournal` maps a commit to `Add`, `Edit`, `Remove` or a
stutter; that the key is free is `UInv`.

*Chat turn.* `IInv` says what each place of a request already knows: a request that replays or
finishes has a reply of its turn behind it, live unless the session was closed (`StreamsBacked`);
what a `DELETE` has marked exists (`MarkedExist`); a post that arrived after an answer still finds
it (`AnsweredBefore`). `OneLiveReply` is preserved because `Persist` inserts only where the index
shows none. A reply that is gone implies a closed session, since only `DeleteCommit` removes one.

*The log of turns.* `LInv` says what the mapping of `ChatTurn` to `TurnLog` needs beyond `IInv`. The INSERT
looks at live rows and the log at all rows, which is the same as long as the session is open (`OpenKeepsReplies`);
a post gets past `RecordUser` only with its turn asked (`AskedBefore`); and a session closes once and takes
asked turns along only (`DeletesOnce`). Then each step is an action of the log or a stutter (`LogAsks`,
`LogAnswers`, `LogTells`, `LogCloses`, `LogUnchanged`), where `Tell` rests on `StreamsBacked`.

*History of a run.* Every step of `ChatHistory` is one of `ChatTurn`, so its `IInv` holds here.
`HInv` adds that a reply's question is recorded (`Recorded`) and that a question nobody raced for
is older than the transaction of every post that has found it (`Ordered`), from which the
reply takes its time. That both messages are told is a count: `OneLiveReply` makes it two rows a turn
(`TwoRowsPerTurn`, an injection into turns and roles), so with fewer than `Pairs` newer turns fewer
than `2 * Pairs` rows are newer than either message (`FewAreNewer`).

*Chat stream.* That the server's fold and the client's reducer make the same of a packet
(`ReduceIsFold`) makes `shown = events`. Both need to know where a packet goes: `LatestStep` says
that the assigner's next number is one past the timeline and that an open text run is its last
event, `RunningTool` that the one tool without an end is the last event and is the step the
assigner remembers for the call that runs, `CallsInOrder` that the calls still waiting have no step
yet because ids only grow. With them a packet either appends an event or refines the last one
(`Refines`); `OnlyLatestEventChanges`, `ToolsClosed` and the text (`ContentAppend`,
`RefinedContent`) follow. `CallsAnswered` is not inductive while calls are being answered: `ConversationInv`
says that there is one message, the last of the model, whose answered calls stand behind it and whose
others are those pending, and that all other messages are complete.
`ReplayAgrees` holds of every timeline, reachable or not (`ReplayIsExact`): each event's packets, reduced
by a client that has shown the events before it, add that event (`ReplayEvent`).

*Folds.* `FlattenSeq` and `FoldLeft` of the community modules are recursive functions behind a `CHOOSE`.
That the function exists is shown from least counterexamples (`LeastNatural`, first-order from the
well-foundedness of the numbers), its uniqueness the same way; after that only its recursion is used
(`FlattenAppend`, `FoldsRun`). What concerns `FlattenSeq` is in `SequenceLemmas`, for both chat modules.

*Listings.* `NoGap` needs to know where the cursor stands: it is the last of the listed entries
(`CursorIsLast`), and no untouched row at or in front of it is missing (`NothingLeftBehind`). A full
page ends with its last row because a LIMIT takes an initial segment (`PageIsInitial`), and a page
that is not full took all rows (`ShortPageIsAll`); both rest on `RankGrows`: of two rows of a finite
set the later has more rows before it. Least elements come from the well-foundedness of the numbers.

*Chat client.* `CreatesAccounted` says that a create this conversation posted and nobody answered is
the one `inflight` holds, and that the sessions set and rendered were made in this conversation, which
"new session" renders as it leaves it. An answer is adopted only while its create is under way, so it
belongs to this conversation; a send posts only if none is under way.

What the screen shows needs the stream and the turn tied together. `OneLiveStream` says that a stream
nobody aborted is the controller's and that of the active turn, in a session of this conversation;
`Begin` aborts the one before as it starts the next, and "new session" aborts without a successor.
So every packet and every finish comes from the active turn's stream. A send that awaits a create
has no stream yet (`WaitersWait`). `ShownOnce` is about lists: `AskedOnce` says that the server stores a send in one
session and answers only what was asked, and `HistoriesApart` that the rows of a cached page have different
keys. What `onFinish` commits is the turn of the ref, an earlier state of the active one (`RefOwn`). `Without` and `WithPair` keep that (`WithoutIs`, `WithPairIs`): what they keep of a list has its order, its keys and
none of the keys that were taken out, so the live pair and the rest of the page are apart (`KeptIs`).

*The wire.* The splitter's two recursions, over the text and over its lines, are functions behind a
`CHOOSE`; `LeadsTo` gives their value as the end of a chain of steps, and induction over a set of
lengths (`Induction`, from least elements) that there is one. So a token more is one step (`TookStep`),
and a step does the same to a leftover whatever events came before it (`TookAlike`). A leftover has
nothing more to replace and no separator (`Clean`), so splitting it again leaves it as it is
(`SplitLeftover`): from there on, both sides of a cut take the same steps (`CutsAreSeamless`). That needs
texts in which no CR follows a CR: of CR CR LF a first chunk would leave CR LF, of which the next would make LF.
The blocks of sse-starlette have none. What a whole body is read as is an induction over its packets
(`BodyRead`): a block's eight tokens yield its packet at the last of them and not before (`BlockRead`), a
keep-alive yields none (`PingRead`), and what comes behind changes nothing (`Prefix`).

*Sign-in.* `StoredIsShown` speaks of a store that has caught up; `PhoneInv` says what the writes
under way will leave. A session is shown only with nothing left to write (`ShownIsStored`), so a 401
has one deletion to add and no login under way; a login that saves has its token last, behind
deletions (`SavesLast`); anything else that is under way deletes (`OnlyDeletes`). The counter's
types need that a request is younger than the window and the lock.

*The counter.* `FailuresAreBounded` speaks of passphrases, the row of counts. `CountInv` says what the row
knows of the last passphrases: since its window began no more than it has counted, and one that is
looked at and not yet recorded (`Waiting`); before that no more than `Failures - 2` as young as
`Span` (`UnlockedCounts`). A full row has been followed by none but one that came after its lock
(`LockedCounts`). `CountedCounts` is record_failure on such a row: a new window forgets
only what is older than `Span` or was too little to fill the last one. Each kind of step of
time (`AgedCounts`), of a wrong passphrase (`WrongCounts`) and of the record keeps it, as long as
no two requests are under way.

Model-checked only: liveness, which is out of the prover's reach (`RequestsReturn`, `LockEnds`).

## What the models assume and leave out

- One owner; rows of other users do not exist. Ids are drawn by clients or the database and never
  collide by accident.
- Postgres is modelled by what the code relies on: statements see committed rows, a written row is
  locked to the end of its transaction, the unique index waits for transactions in progress,
  cycles are broken, an aborted transaction leaves nothing.
- The index applies a call entirely or not at all. A late application after the timeout is the
  `lost` outcome; it does not overtake a later call.
- The client: an aborted `fetch` delivers nothing more; the render that the begin of a turn asked for
  runs before its finish arrives (`BeginRendered`), all other renders when they like; the user stays signed in and on the
  screen; the history fits into one page. A write of the cache does not cancel a fetch under
  way, and the next fetch may come at any time, which is more often than its stale time allows.
- The provider gives each tool call of a run its own id; a reused one would send a later call's
  packets to the earlier step.
- What the model says, prompts, argument schemas, time zones and coordinates are data. Their
  validation happens before anything is written.
- A session's title is left out: two first posts that overlap both fill it in and the later commit
  stays. Nothing in the repository says whose it should be.
- No bound is stated for the failures of overlapping logins: increments can be lost, and an UPDATE
  can land on a row that was reset in between. That the lock ends is checked for them, too.
- The phone: logout is called by no screen, and a secure store that fails is not modelled.
- A crash between the call and the commit leaves the index ahead of the table. The code accepts
  this and nothing repairs it, so no property speaks of documents under crashes.
- Not modelled: screens, landing page, migrations, deployment, settings, logging, the CLI and the
  evaluations. They keep no state in which the order of steps matters.

## Plan

In this order:

1. An abstract `Timeline` of closed and open steps which `ChatStream` implements.
2. `ChatClient`: older pages of the history, and unmounting of the screen.
3. `SignIn`: logout, and a store that fails.
