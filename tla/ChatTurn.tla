------------------------------- MODULE ChatTurn -------------------------------
(***************************************************************************)
(* POST /chat on one session: app/api/chat.py, the parts of                *)
(* app/services/sessions.py it calls and stream_turn / replay_stream of    *)
(* app/api/_chat_stream.py.  A client retries a turn by posting again with *)
(* the same client_message_id, which is the primary key of the turn's user *)
(* message; posts of one turn may overlap, and so may DELETE of the        *)
(* session.  Each statement reads what is committed (READ COMMITTED), each *)
(* commit of a handler is one step.                                        *)
(*                                                                         *)
(* What the agent says is abstracted to how its stream ends; of its tools  *)
(* only the memory a run may create is kept.                               *)
(***************************************************************************)
CONSTANTS
    Turns,   \* client_message_ids
    Posts,   \* requests; a post is also the assistant_message_id it allocates
    Texts,   \* what the model may word a memory as
    None

VARIABLES
    closed,    \* the session's deleted_at is set
    asked,     \* user messages, by turn: none, live or deleted
    replies,   \* assistant messages, by id: a turn and deleted_at, or None
    memories,  \* texts of the memories the runs of a turn created
    post,      \* per request: where it is, its turn, how its stream ended,
               \* the answer its client saw finished
    marked     \* the turns and replies a DELETE in progress has marked, or None

vars == <<closed, asked, replies, memories, post, marked>>

Pcs == {"new", "record", "lookup", "replay", "run", "persist", "finish", "done"}
Outcomes == {"none", "text", "empty", "error"}

Reply == [turn : Turns, deleted : BOOLEAN]

ASSUME NoneAssumption == None \notin Posts \cup Turns \cup Reply

\* answered is a history variable: the posts whose clients had seen a finish
\* when this one was received.
Post == [pc : Pcs, turn : Turns \cup {None}, outcome : Outcomes,
         reply : Posts \cup {None}, answer : Posts \cup {None},
         answered : SUBSET Posts]

New == [pc |-> "new", turn |-> None, outcome |-> "none", reply |-> None,
        answer |-> None, answered |-> {}]

Init ==
    /\ closed = FALSE
    /\ asked = [t \in Turns |-> "none"]
    /\ replies = [p \in Posts |-> None]
    /\ memories = [t \in Turns |-> {}]
    /\ post = [p \in Posts |-> New]
    /\ marked = None

Goto(p, pc) == post' = [post EXCEPT ![p].pc = pc]

\* The stream closes without a finish packet.
Hangup(p) == Goto(p, "done")

LiveReply(a) == replies[a] # None /\ ~replies[a].deleted

LiveReplies(t) == {a \in Posts : LiveReply(a) /\ replies[a].turn = t}

-----------------------------------------------------------------------------
\* get_session: a deleted session is a 404.
Open(p, t) ==
    /\ post[p].pc = "new"
    /\ post' = [post EXCEPT ![p] =
                   [New EXCEPT !.pc = IF closed THEN "done" ELSE "record",
                               !.turn = t,
                               !.answered = {q \in Posts : post[q].answer # None}]]
    /\ UNCHANGED <<closed, asked, replies, memories, marked>>

\* record_user_message: INSERT ... ON CONFLICT DO NOTHING; a row that is there,
\* live or deleted, is the retry's.
RecordUser(p) ==
    LET t == post[p].turn IN
    /\ post[p].pc = "record"
    /\ asked' = IF asked[t] = "none" THEN [asked EXCEPT ![t] = "live"] ELSE asked
    /\ Goto(p, "lookup")
    /\ UNCHANGED <<closed, replies, memories, marked>>

\* Mutant: a retry never finds the reply.
NothingCached(t) == {}

\* find_assistant_for_user_message.
Cached(t) == LiveReplies(t)

\* Replay the reply, or load the history and run the agent.
LookUp(p) ==
    /\ post[p].pc = "lookup"
    /\ \/ \E a \in Cached(post[p].turn) :
              post' = [post EXCEPT ![p].pc = "replay", ![p].reply = a]
       \/ Cached(post[p].turn) = {} /\ Goto(p, "run")
    /\ UNCHANGED <<closed, asked, replies, memories, marked>>

\* Mutant: the replay advertises an id of its own.
ReplayedUnder(p) == p

ReplayId(p) == post[p].reply

\* replay_stream: the persisted timeline, then finish with the reply's id.
Replay(p) ==
    /\ post[p].pc = "replay"
    /\ post' = [post EXCEPT ![p].pc = "done", ![p].answer = ReplayId(p)]
    /\ UNCHANGED <<closed, asked, replies, memories, marked>>

\* A manage_memory call of the run, committed by itself; the model words it.
CreateMemory(p, x) ==
    /\ post[p].pc = "run" /\ post[p].outcome = "none"
    /\ memories' = [memories EXCEPT ![post[p].turn] = @ \cup {x}]
    /\ post' = [post EXCEPT ![p].outcome = "text"]
    /\ UNCHANGED <<closed, asked, replies, marked>>

\* The agent's stream ends: with content, with nothing at all, or on an
\* ErrorPacket, after a tool has run or before.
EndRun(p, outcome) ==
    /\ post[p].pc = "run"
    /\ post[p].outcome = "text" => outcome # "empty"
    /\ post' = [post EXCEPT ![p].pc = "persist", ![p].outcome = outcome]
    /\ UNCHANGED <<closed, asked, replies, memories, marked>>

ShouldPersist(p) == post[p].outcome = "text"

\* Mutant: no unique index on parent_message_id.
NoReplyIndex(t) == {}

\* ux_messages_parent: the live rows with this parent.
SameParent(t) == LiveReplies(t)

\* A reply of the turn that an open DELETE has marked: the index has to wait.
Waits(p) ==
    /\ ShouldPersist(p) /\ marked # None
    /\ SameParent(post[p].turn) \cap marked.replies # {}

\* Mutant: an unpersisted stream is finished all the same.
FinishUnpersisted(p) == Goto(p, "finish")

\* The end of a stream that left no row: nothing more is sent.
EndUnpersisted(p) == Hangup(p)

\* record_assistant_message, or its IntegrityError, or no row at all.
Persist(p) ==
    LET t == post[p].turn IN
    /\ post[p].pc = "persist" /\ ~Waits(p)
    /\ \/ /\ ShouldPersist(p) /\ SameParent(t) = {}
          /\ replies' = [replies EXCEPT ![p] = [turn |-> t, deleted |-> FALSE]]
          /\ Goto(p, "finish")
       \/ /\ ~(ShouldPersist(p) /\ SameParent(t) = {})
          /\ EndUnpersisted(p)
          /\ UNCHANGED replies
    /\ UNCHANGED <<closed, asked, memories, marked>>

Finish(p) ==
    /\ post[p].pc = "finish"
    /\ post' = [post EXCEPT ![p].pc = "done", ![p].answer = p]
    /\ UNCHANGED <<closed, asked, replies, memories, marked>>

\* The connection breaks, the client gives up, or the worker dies; a stream
\* that loses its reader is closed.
Disconnect(p) ==
    /\ post[p].pc \notin {"new", "done"}
    /\ Hangup(p)
    /\ UNCHANGED <<closed, asked, replies, memories, marked>>

\* delete_session: the session is read, then an UPDATE marks its live messages.
DeleteMessages ==
    /\ ~closed /\ marked = None
    /\ marked' = [turns |-> {t \in Turns : asked[t] = "live"},
                  replies |-> {a \in Posts : LiveReply(a)}]
    /\ UNCHANGED <<closed, asked, replies, memories, post>>

\* Mutant: a deleted reply loses its parent.
Detached(a) ==
    IF a \in marked.replies THEN [turn |-> None, deleted |-> TRUE] ELSE replies[a]

Deleted(a) ==
    IF a \in marked.replies THEN [replies[a] EXCEPT !.deleted = TRUE] ELSE replies[a]

\* The commit, which also flushes the session's deleted_at.
DeleteCommit ==
    /\ marked # None
    /\ closed' = TRUE
    /\ asked' = [t \in Turns |-> IF t \in marked.turns THEN "deleted" ELSE asked[t]]
    /\ replies' = [a \in Posts |-> Deleted(a)]
    /\ marked' = None
    /\ UNCHANGED <<memories, post>>

\* The worker dies before the commit, or the transaction is the victim of a
\* deadlock with a reply that holds the session's row.
DeleteRollback ==
    /\ marked # None
    /\ marked' = None
    /\ UNCHANGED <<closed, asked, replies, memories, post>>

Step(p) ==
    \/ RecordUser(p) \/ LookUp(p) \/ Replay(p)
    \/ \E x \in Texts : CreateMemory(p, x)
    \/ \E outcome \in {"text", "empty", "error"} : EndRun(p, outcome)
    \/ Persist(p) \/ Finish(p)

Next ==
    \/ \E p \in Posts : (\E t \in Turns : Open(p, t)) \/ Step(p) \/ Disconnect(p)
    \/ DeleteMessages \/ DeleteCommit \/ DeleteRollback

Spec == Init /\ [][Next]_vars

-----------------------------------------------------------------------------
\* Messages, replies and requests are well formed.
TypeOK ==
    /\ closed \in BOOLEAN
    /\ asked \in [Turns -> {"none", "live", "deleted"}]
    /\ replies \in [Posts -> Reply \cup {None}]
    /\ memories \in [Turns -> SUBSET Texts]
    /\ post \in [Posts -> Post]
    /\ marked \in [turns : SUBSET Turns, replies : SUBSET Posts] \cup {None}

\* However often a turn is posted, and however the posts overlap, it has one
\* live reply: every post may run the agent, one persists.
OneLiveReply ==
    \A a, b \in Posts :
        LiveReply(a) /\ LiveReply(b) /\ replies[a].turn = replies[b].turn => a = b

\* The id a finish packet advertises is a row of that turn, and a live one as
\* long as the session is.
FinishIsStored ==
    \A p \in Posts :
        LET a == post[p].answer IN
        a # None =>
            /\ replies[a] # None /\ replies[a].turn = post[p].turn
            /\ ~closed => LiveReply(a)

\* As long as the session is open, all finished posts of a turn, first answers
\* and replays, name the same reply.
AnswersAgree ==
    \A p, q \in Posts :
        /\ ~closed /\ post[p].turn = post[q].turn
        /\ post[p].answer # None /\ post[q].answer # None
        => post[p].answer = post[q].answer

\* As long as the session is open, a retry sent after the turn's finish was seen
\* does not run the agent, in whatever state the other posts of the turn are; a
\* DELETE takes the reply away, and a post that goes on after it runs.
AnsweredTurnIsReplayed ==
    \A p, q \in Posts :
        /\ ~closed /\ q \in post[p].answered /\ post[p].turn = post[q].turn
        => post[p].pc \notin {"run", "persist", "finish"}

\* The endpoint keeps the log of TurnLog: its replies, deleted or not, are the
\* entries.
AskedTurns == {t \in Turns : asked[t] # "none"}

Answers == {[turn |-> replies[a].turn, answer |-> a] : a \in {r \in Posts : replies[r] # None}}

ToldTo(p) ==
    IF post[p].answer = None THEN None
    ELSE [turn |-> post[p].turn, answer |-> post[p].answer]

Told == [p \in Posts |-> ToldTo(p)]

Log == INSTANCE TurnLog WITH asked <- AskedTurns, answers <- Answers, told <- Told

\* However posts overlap, retry and break off, each step asks a turn, gives
\* it its one answer, tells a post an answer of the log, closes the session or
\* leaves the log alone: the lookup, the index and the id of the finish packet
\* together keep it.
ImplementsTurnLog == Log!Spec

-----------------------------------------------------------------------------
\* delete_session: "Soft-delete a session and all its messages in one
\* transaction."
DeletedSessionIsEmpty ==
    closed => (\A t \in Turns : asked[t] # "live") /\ (\A a \in Posts : ~LiveReply(a))
=============================================================================
