------------------------------ MODULE ChatClient ------------------------------
(***************************************************************************)
(* The chat screen's hooks, mobile/lib/chat/use-chat*.ts: a session created *)
(* on the first send, one stream at a time folded into the active turn, and *)
(* a cached history that takes over a turn when it finishes, while fetches  *)
(* of the same history may be under way.                                    *)
(*                                                                         *)
(* An action is one task of the JavaScript thread, with the promise        *)
(* continuations it runs.  What a task sets is rendered by a later task,   *)
(* and until then callbacks and refs have what the last render left them;  *)
(* only a press that sets state is rendered at once.  An aborted fetch     *)
(* delivers nothing more.  A reply is packets 1..Packets, of which the     *)
(* first is the start packet, then its finish; a chunk of the body holds   *)
(* any number of them.                                                     *)
(***************************************************************************)
EXTENDS Naturals, Sequences, SequencesExt

CONSTANTS
    Sends,      \* messages the user sends; also their client_message_ids
    Sessions,   \* what POST /sessions returns; also the identity of that call
    Packets,    \* packets of a reply before its finish
    MaxNew,     \* how often "new session" is pressed
    None

ASSUME PacketsAssumption == Packets \in Nat \ {0} /\ MaxNew \in Nat

VARIABLES
    session,       \* sessionId of useChatSession, as set
    rendered,      \* sessionId in the callbacks of the last render
    inflight,      \* the POST /sessions ensureSession shares, or None
    creates,       \* every POST /sessions
    waiters,       \* the sends that await it
    active,        \* the reducer's activeTurn
    ref,           \* activeTurnRef: the activeTurn of the last render
    controller,    \* abortRef: the send whose controller it holds
    stream,        \* per send: its call of streamChat
    asked,         \* the server's turns of a session, oldest first
    replied,       \* turns whose reply is stored
    cache,         \* the cached history of a session, newest first, or None
    fetch,         \* the GET of it under way, or None
    conversation,  \* presses of "new session"
    born           \* the conversation in which a session was asked for

screen == <<rendered, ref>>
hooks == <<session, inflight, creates, waiters, active, controller, stream, screen>>
server == <<asked, replied>>
history == <<cache, fetch>>
vars == <<hooks, server, history, conversation, born>>

Packet == [send : Sends, number : 1..Packets]

\* A message of the history; got are the packets its timeline was made from.
Row == [send : Sends, role : {"user", "reply"}, got : Seq(Packet)]

Turn == [send : Sends, got : Seq(Packet), status : {"streaming", "error"}]

ASSUME NoneAssumption == None \notin Sends \cup Sessions /\ None \notin Turn

\* A GET of the history; page is what the server answered.
Fetch == [served : BOOLEAN, page : Seq(Row)]

Stream == [pc : {"new", "waiting", "location", "open", "failed", "done"},
           session : Sessions \cup {None}, aborted : BOOLEAN, received : 0..Packets]

Init ==
    /\ session = None /\ inflight = None /\ rendered = None /\ ref = None
    /\ creates = [c \in Sessions |-> "unused"]
    /\ waiters = [c \in Sessions |-> <<>>]
    /\ active = None /\ controller = None
    /\ stream = [x \in Sends |->
                    [pc |-> "new", session |-> None, aborted |-> FALSE, received |-> 0]]
    /\ asked = [s \in Sessions |-> <<>>] /\ replied = {}
    /\ cache = [s \in Sessions |-> None] /\ fetch = [s \in Sessions |-> None]
    /\ conversation = 0 /\ born = [s \in Sessions |-> 0]

-----------------------------------------------------------------------------
(* Rendering and sending.                                                  *)

\* A render with its effects: the callbacks capture sessionId, the ref the turn.
Render ==
    /\ rendered' = session /\ ref' = active
    /\ UNCHANGED <<session, inflight, creates, waiters, active, controller, stream, server,
                   history, conversation, born>>

\* Mutant: the stream under way is left alone.
AbortNobody(y) == FALSE

\* Whose controller a send aborts.
Superseded(y) == y = controller

\* useChatStream's sendMessage for xs, one after the other: each takes the turn
\* from the one before, whose fetch finds its signal aborted.
Begin(xs, s) ==
    LET last == Last(xs) IN
    /\ active' = [send |-> last, got |-> <<>>, status |-> "streaming"]
    /\ controller' = last
    /\ stream' = [y \in Sends |->
                     IF y \in ToSet(xs)
                     THEN [pc |-> "location", session |-> s, aborted |-> y # last,
                           received |-> 0]
                     ELSE [stream[y] EXCEPT !.aborted = @ \/ Superseded(y)]]

\* Mutant: every send creates a session.
NeverShares == FALSE

Shares == inflight # None

\* ensureSession as the last render left it: a send of the session it has captured
\* starts its turn, another one awaits the create under way or posts one.
SendMessage(x) ==
    /\ stream[x].pc = "new"
    /\ \/ /\ rendered # None
          /\ Begin(<<x>>, rendered)
          /\ UNCHANGED <<session, inflight, creates, waiters, born>>
       \/ /\ rendered = None /\ Shares
          /\ waiters' = [waiters EXCEPT ![inflight] = Append(@, x)]
          /\ stream' = [stream EXCEPT ![x].pc = "waiting"]
          /\ UNCHANGED <<session, inflight, creates, active, controller, born>>
       \/ /\ rendered = None /\ ~Shares
          /\ \E c \in Sessions :
                /\ creates[c] = "unused"
                /\ creates' = [creates EXCEPT ![c] = "posted"]
                /\ inflight' = c
                /\ waiters' = [waiters EXCEPT ![c] = <<x>>]
                /\ born' = [born EXCEPT ![c] = conversation]
          /\ stream' = [stream EXCEPT ![x].pc = "waiting"]
          /\ UNCHANGED <<session, active, controller>>
    /\ UNCHANGED <<screen, server, history, conversation>>

\* The sends of a create that is superseded or fails are dropped.
Drop(c) == stream' = [y \in Sends |->
                         IF y \in ToSet(waiters[c]) THEN [stream[y] EXCEPT !.pc = "done"]
                         ELSE stream[y]]

\* Mutant: an answer is adopted whenever there is no session yet.
AdoptsLate(c) == session = None

Adopts(c) == inflight = c

\* The answer sets sessionId, which is not rendered yet, then forgets the create: a
\* send before the next render finds neither, and posts a session of its own.
SessionCreated(c) ==
    /\ creates[c] = "posted"
    /\ creates' = [creates EXCEPT ![c] = "made"]
    /\ inflight' = IF inflight = c THEN None ELSE inflight
    /\ \/ Adopts(c) /\ session' = c /\ Begin(waiters[c], c)
       \/ ~Adopts(c) /\ Drop(c) /\ UNCHANGED <<session, active, controller>>
    /\ UNCHANGED <<waiters, screen, server, history, conversation, born>>

CreateFailed(c) ==
    /\ creates[c] = "posted"
    /\ creates' = [creates EXCEPT ![c] = "failed"]
    /\ inflight' = IF inflight = c THEN None ELSE inflight
    /\ Drop(c)
    /\ UNCHANGED <<session, waiters, active, controller, screen, server, history,
                   conversation, born>>

\* Mutant: stop aborts but leaves the turn on the screen.
KeepTurn == active

\* stop's turn/clear.
ClearTurn == None

\* newSession: stop the stream, then clearSession; rendered before the next task.
NewSession ==
    /\ conversation < MaxNew
    /\ conversation' = conversation + 1
    /\ stream' = [y \in Sends |-> [stream[y] EXCEPT !.aborted = @ \/ y = controller]]
    /\ controller' = None /\ active' = ClearTurn
    /\ inflight' = None /\ session' = None
    /\ rendered' = None /\ ref' = active'
    /\ UNCHANGED <<creates, waiters, server, history, born>>

-----------------------------------------------------------------------------
(* The stream.                                                             *)

\* The location is known, or its timeout passed: the fetch, unless aborted.
Locate(x) ==
    /\ stream[x].pc = "location"
    /\ stream' = [stream EXCEPT ![x].pc = IF stream[x].aborted THEN "done" ELSE "open"]
    /\ UNCHANGED <<session, inflight, creates, waiters, active, controller, screen, server,
                   history, conversation, born>>

Recorded(x) == \E s \in Sessions : x \in ToSet(asked[s])

\* The server records the user's message, later its reply; it may do so after
\* the client has aborted the request or lost the connection.
Record(x) ==
    /\ stream[x].pc \in {"open", "failed"} /\ ~Recorded(x)
    /\ asked' = [asked EXCEPT ![stream[x].session] = Append(@, x)]
    /\ UNCHANGED <<hooks, replied, history, conversation, born>>

Reply(x) ==
    /\ Recorded(x) /\ x \notin replied
    /\ replied' = replied \cup {x}
    /\ UNCHANGED <<hooks, asked, history, conversation, born>>

Listens(x) == stream[x].pc = "open" /\ ~stream[x].aborted /\ Recorded(x)

\* The packets of the next chunk, dispatched one by one: none says whose it is.
Reduced(x, n) ==
    IF active = None THEN None
    ELSE [active EXCEPT !.got = @ \o [k \in 1..n |->
             [send |-> x, number |-> stream[x].received + k]]]

Receive(x) ==
    \E n \in 1..(Packets - stream[x].received) :
        /\ Listens(x)
        /\ active' = Reduced(x, n)
        /\ stream' = [stream EXCEPT ![x].received = @ + n]
        /\ UNCHANGED <<session, inflight, creates, waiters, controller, screen, server,
                       history, conversation, born>>

Key(m) == <<m.send, m.role>>

\* The rows that do not have one of the ids.
Without(rows, keys) ==
    FlattenSeq([k \in DOMAIN rows |-> IF Key(rows[k]) \in keys THEN <<>> ELSE <<rows[k]>>])

\* Mutant: the row goes in without a look at the ones that are there.
WithAll(rows, pair) == pair \o rows

\* commitTurn: the rows a fetch may have brought with the same ids give way.
WithPair(rows, pair) == pair \o Without(rows, {Key(m) : m \in ToSet(pair)})

\* Mutant: the reply is stored as the screen calls it until it has an id.
PendingReply(x, turn) == [send |-> x, role |-> "pending", got |-> turn.got]

ReplyRow(x, turn) == [send |-> x, role |-> "reply", got |-> turn.got]

\* onFinish's pair.
Pair(x, turn) ==
    <<ReplyRow(x, turn), [send |-> turn.send, role |-> "user", got |-> <<>>]>>

\* What the callbacks of the last render make of the finish.
Committed(x, turn) ==
    IF turn = None \/ rendered = None THEN cache
    ELSE [cache EXCEPT ![rendered] =
             WithPair(IF @ = None THEN <<>> ELSE @, Pair(x, turn))]

\* The render that the begin of the turn asked for: it was due before the request
\* was sent, so no answer is before it.
BeginRendered ==
    /\ rendered = session
    /\ active # None => ref # None /\ ref.send = active.send

\* The last chunk: the packets that are left, then finish.  They are reduced in
\* the same task, so the ref still has the turn from before them.
FinishStream(x) ==
    /\ Listens(x) /\ x \in replied /\ BeginRendered
    /\ cache' = Committed(x, ref)
    /\ active' = None
    /\ stream' = [stream EXCEPT ![x].received = Packets, ![x].pc = "done"]
    /\ UNCHANGED <<session, inflight, creates, waiters, controller, screen, server, fetch,
                   conversation, born>>

\* An error packet, a refused request or a broken connection.
FailStream(x) ==
    /\ stream[x].pc = "open" /\ ~stream[x].aborted
    /\ active' = IF active = None THEN None ELSE [active EXCEPT !.status = "error"]
    /\ stream' = [stream EXCEPT ![x].pc = "failed"]
    /\ UNCHANGED <<session, inflight, creates, waiters, controller, screen, server, history,
                   conversation, born>>

\* The body ends without a finish, as it does when another post stored the reply
\* or the run said nothing: streamChat returns and nothing else happens.
EndStream(x) ==
    /\ Listens(x)
    /\ stream' = [stream EXCEPT ![x].pc = "done"]
    /\ UNCHANGED <<session, inflight, creates, waiters, active, controller, screen, server,
                   history, conversation, born>>

-----------------------------------------------------------------------------
(* The history.  The query of a session is fetched when the session is     *)
(* opened and again when it is stale, one fetch at a time; commitTurn does  *)
(* not cancel it.                                                          *)

Whole(x) == [k \in 1..Packets |-> [send |-> x, number |-> k]]

\* GET /sessions/{id}/messages, newest first: a turn is its reply and its user row.
Page(s) ==
    LET rows(x) == (IF x \in replied
                    THEN <<[send |-> x, role |-> "reply", got |-> Whole(x)]>> ELSE <<>>)
                   \o <<[send |-> x, role |-> "user", got |-> <<>>]>>
    IN  FlattenSeq([k \in DOMAIN asked[s] |-> rows(Reverse(asked[s])[k])])

SendFetch ==
    /\ rendered # None /\ fetch[rendered] = None
    /\ fetch' = [fetch EXCEPT ![rendered] = [served |-> FALSE, page |-> <<>>]]
    /\ UNCHANGED <<hooks, server, cache, conversation, born>>

ServeFetch(s) ==
    /\ fetch[s] # None /\ ~fetch[s].served
    /\ fetch' = [fetch EXCEPT ![s] = [served |-> TRUE, page |-> Page(s)]]
    /\ UNCHANGED <<hooks, server, cache, conversation, born>>

\* Its answer replaces the cached pages; a failure leaves them.
ReturnFetch(s) ==
    /\ fetch[s] # None
    /\ \/ fetch[s].served /\ cache' = [cache EXCEPT ![s] = fetch[s].page]
       \/ UNCHANGED cache
    /\ fetch' = [fetch EXCEPT ![s] = None]
    /\ UNCHANGED <<hooks, server, conversation, born>>

Next ==
    \/ \E x \in Sends :
          \/ SendMessage(x) \/ Locate(x) \/ Record(x) \/ Reply(x)
          \/ Receive(x) \/ FinishStream(x) \/ FailStream(x) \/ EndStream(x)
    \/ \E s \in Sessions :
          SessionCreated(s) \/ CreateFailed(s) \/ ServeFetch(s) \/ ReturnFetch(s)
    \/ Render \/ NewSession \/ SendFetch

Spec == Init /\ [][Next]_vars

-----------------------------------------------------------------------------
(* What the next render shows: the history without the rows the active     *)
(* turn stands for, then the active pair.                                  *)

History == IF session = None THEN <<>> ELSE IF cache[session] = None THEN <<>> ELSE cache[session]

\* The ids of the active pair; the reply has one from the start packet on.
ActiveKeys ==
    IF active = None THEN <<>>
    ELSE <<<<active.send, "user">>,
           IF active.got = <<>> THEN <<active.send, "pending">>
           ELSE <<active.got[1].send, "reply">>>>

\* The history without the rows the active pair stands for.
Kept == Without(History, ToSet(ActiveKeys))

Shown == [k \in DOMAIN Kept |-> Key(Kept[k])] \o ActiveKeys

-----------------------------------------------------------------------------
\* Sessions, turns, streams and histories are well formed.
TypeOK ==
    /\ session \in Sessions \cup {None} /\ inflight \in Sessions \cup {None}
    /\ rendered \in Sessions \cup {None}
    /\ creates \in [Sessions -> {"unused", "posted", "made", "failed"}]
    /\ \A c \in Sessions : waiters[c] \in Seq(Sends)
    /\ active = None \/ active \in Turn
    /\ ref = None \/ ref \in Turn
    /\ controller \in Sends \cup {None}
    /\ stream \in [Sends -> Stream]
    /\ replied \subseteq Sends
    /\ \A s \in Sessions :
          /\ asked[s] \in Seq(Sends)
          /\ cache[s] = None \/ cache[s] \in Seq(Row)
          /\ fetch[s] = None \/ fetch[s] \in Fetch

OwnPackets(x, got) ==
    \A k \in DOMAIN got : got[k] = [send |-> x, number |-> k]

\* The handlers do not say which send a packet belongs to, and yet the active
\* turn and every turn in a history are made of their own packets, in order
\* and without a gap, whatever sends, stops and failures came in between.
PacketsStayInTheirTurn ==
    /\ active # None => OwnPackets(active.send, active.got)
    /\ \A s \in Sessions : cache[s] # None =>
          \A m \in ToSet(cache[s]) : m.role = "reply" => OwnPackets(m.send, m.got)

\* The turn on the screen was sent in this conversation, and the history of a
\* session has no turn of another conversation: commitTurn writes to the session
\* that is shown when the turn finishes, not to the one it was sent to.
TurnsStayInTheirConversation ==
    /\ active # None => born[stream[active.send].session] = conversation
    /\ \A s \in Sessions : cache[s] # None =>
          \A m \in ToSet(cache[s]) : born[stream[m.send].session] = born[s]

\* No message is in the list twice, although a fetch may bring the rows of a
\* turn while it streams, just before it is committed, or after.
ShownOnce == IsInjective(Shown)

\* useChatSession: of one conversation there is never more than one POST /sessions
\* under way: sends that overlap before it is answered share it, and "new session"
\* leaves it to a conversation that is over.  (One after the other there may be two:
\* see SessionCreated.)
OneCreateUnderWay ==
    \A c, d \in Sessions :
        creates[c] = "posted" /\ creates[d] = "posted" /\ born[c] = born[d] => c = d

\* A session asked for before "new session" was pressed never becomes the
\* screen's session afterwards.
SessionIsOfThisConversation == session # None => born[session] = conversation

-----------------------------------------------------------------------------
\* useChatStream: the ref exists so that the handlers "always read the freshest
\* state when they synthesize the persisted pair": a finished turn goes into
\* the history with every packet it received.
FinishedTurnIsWhole ==
    \A s \in Sessions : cache[s] # None =>
        \A m \in ToSet(cache[s]) : m.role = "reply" => Len(m.got) = Packets
=============================================================================
