--------------------------- MODULE ChatClientProofs ---------------------------
(***************************************************************************)
(* Theorems about ChatClient: a conversation has one POST /sessions under  *)
(* way, and packets, turns and histories do not cross over, whatever sends, *)
(* presses of "new session", failures, fetches and renders come in between. *)
(***************************************************************************)
EXTENDS ChatWire, SequenceLemmas, FiniteSetTheorems

-----------------------------------------------------------------------------
(* The sessions of a conversation.                                         *)

Posted(c) == creates[c] = "posted"

Made(s) == s \in Sessions /\ creates[s] = "made"

Current(s) == Made(s) /\ born[s] = conversation

SessionTypes ==
    /\ session \in Sessions \cup {None} /\ inflight \in Sessions \cup {None}
    /\ rendered \in Sessions \cup {None}
    /\ creates \in [Sessions -> {"unused", "posted", "made", "failed"}]
    /\ conversation \in Nat /\ born \in [Sessions -> Nat]

\* No session was asked for in a conversation to come, the create under way is the
\* only one that this conversation posted and that is not answered, and what the
\* client has set and rendered are sessions of this conversation.
CreatesAccounted ==
    /\ inflight # None => Posted(inflight) /\ born[inflight] = conversation
    /\ session # None => Current(session)
    /\ rendered # None => Current(rendered)
    /\ \A c \in Sessions : born[c] <= conversation
    /\ \A c \in Sessions : Posted(c) /\ born[c] = conversation => c = inflight

IInv ==
    /\ SessionTypes /\ CreatesAccounted
    /\ OneCreateUnderWay /\ SessionIsOfThisConversation

boot == <<session, rendered, inflight, creates, conversation, born>>

LEMMA InitIInv == Init => IInv
  BY NoneAssumption DEF Init, IInv, SessionTypes, CreatesAccounted, Posted, Made, Current,
     OneCreateUnderWay, SessionIsOfThisConversation

\* A send creates a session only if the conversation waits for none.
LEMMA SendStep ==
    ASSUME IInv, NEW x \in Sends, SendMessage(x) PROVE IInv'
<1> USE NoneAssumption DEF IInv, SessionTypes, CreatesAccounted, Posted, Made, Current,
        OneCreateUnderWay, SessionIsOfThisConversation
<1>1. CASE UNCHANGED boot
  BY <1>1 DEF boot
<1>2. ASSUME ~Shares, NEW c \in Sessions, creates[c] = "unused",
             creates' = [creates EXCEPT ![c] = "posted"], inflight' = c,
             born' = [born EXCEPT ![c] = conversation], session' = session,
             rendered' = rendered, conversation' = conversation
      PROVE  IInv'
  BY <1>2 DEF Shares
<1> QED
  BY <1>1, <1>2 DEF SendMessage, boot, Begin, screen

\* An answer is adopted only if its create is still the one under way.
LEMMA CreatedStep ==
    ASSUME IInv, NEW c \in Sessions, SessionCreated(c) PROVE IInv'
<1> USE NoneAssumption DEF IInv, SessionTypes, CreatesAccounted, Posted, Made, Current,
        OneCreateUnderWay, SessionIsOfThisConversation
<1>1. creates[c] = "posted" /\ creates' = [creates EXCEPT ![c] = "made"]
      /\ UNCHANGED <<rendered, conversation, born>>
  BY DEF SessionCreated, screen
<1>2. CASE inflight = c
  <2>1. session' = c /\ inflight' = None
    BY <1>2 DEF SessionCreated, Adopts
  <2> QED
    BY <1>1, <1>2, <2>1
<1>3. CASE inflight # c
  <2>1. UNCHANGED <<session, inflight>>
    BY <1>3 DEF SessionCreated, Adopts
  <2> QED
    BY <1>1, <1>3, <2>1
<1> QED
  BY <1>2, <1>3

LEMMA FailedStep ==
    ASSUME IInv, NEW c \in Sessions, CreateFailed(c) PROVE IInv'
<1> USE NoneAssumption DEF IInv, SessionTypes, CreatesAccounted, Posted, Made, Current,
        OneCreateUnderWay, SessionIsOfThisConversation
<1>1. creates[c] = "posted" /\ creates' = [creates EXCEPT ![c] = "failed"]
      /\ inflight' = (IF inflight = c THEN None ELSE inflight)
      /\ UNCHANGED <<session, rendered, conversation, born>>
  BY DEF CreateFailed, screen
<1> QED
  BY <1>1

LEMMA NewSessionStep ==
    ASSUME IInv, NewSession PROVE IInv'
<1>1. conversation' = conversation + 1 /\ inflight' = None /\ session' = None
      /\ rendered' = None /\ UNCHANGED <<creates, born>>
  BY DEF NewSession
<1> QED
  BY <1>1, NoneAssumption DEF IInv, SessionTypes, CreatesAccounted, Posted, Made, Current,
     OneCreateUnderWay, SessionIsOfThisConversation

\* A render captures the session that is set.
LEMMA RenderStep ==
    ASSUME IInv, Render PROVE IInv'
  BY DEF Render, IInv, SessionTypes, CreatesAccounted, Posted, Made, Current,
     OneCreateUnderWay, SessionIsOfThisConversation

LEMMA UnchangedStep ==
    ASSUME IInv, UNCHANGED boot PROVE IInv'
  BY DEF boot, IInv, SessionTypes, CreatesAccounted, Posted, Made, Current,
     OneCreateUnderWay, SessionIsOfThisConversation

LEMMA NextIInv == IInv /\ [Next]_vars => IInv'
<1> SUFFICES ASSUME IInv, [Next]_vars PROVE IInv'
  OBVIOUS
<1>1. ASSUME NEW x \in Sends, SendMessage(x) PROVE IInv'
  BY <1>1, SendStep
<1>2. ASSUME NEW x \in Sends,
             Locate(x) \/ Record(x) \/ Reply(x) \/ Receive(x) \/ FinishStream(x)
             \/ FailStream(x) \/ EndStream(x)
      PROVE  IInv'
  <2>1. UNCHANGED boot
    BY <1>2 DEF Locate, Record, Reply, Receive, FinishStream, FailStream, EndStream,
       hooks, screen, boot
  <2> QED
    BY <2>1, UnchangedStep
<1>3. ASSUME NEW s \in Sessions, SessionCreated(s) PROVE IInv'
  BY <1>3, CreatedStep
<1>4. ASSUME NEW s \in Sessions, CreateFailed(s) PROVE IInv'
  BY <1>4, FailedStep
<1>5. ASSUME NEW s \in Sessions, ServeFetch(s) \/ ReturnFetch(s) PROVE IInv'
  <2>1. UNCHANGED boot
    BY <1>5 DEF ServeFetch, ReturnFetch, hooks, screen, boot
  <2> QED
    BY <2>1, UnchangedStep
<1>6. CASE NewSession
  BY <1>6, NewSessionStep
<1>7. CASE SendFetch
  <2>1. UNCHANGED boot
    BY <1>7 DEF SendFetch, hooks, screen, boot
  <2> QED
    BY <2>1, UnchangedStep
<1>8. CASE UNCHANGED vars
  BY <1>8, UnchangedStep DEF vars, hooks, screen, boot
<1>9. CASE Render
  BY <1>9, RenderStep
<1> QED
  BY <1>1, <1>2, <1>3, <1>4, <1>5, <1>6, <1>7, <1>8, <1>9 DEF Next

LEMMA IInvAlways == Spec => []IInv
  BY InitIInv, NextIInv, PTL DEF Spec

\* A session that was made stays, and so does the conversation it was asked for in.
MadeStay == \A c \in Sessions : Made(c) => creates'[c] = "made" /\ born'[c] = born[c]

LEMMA NextMade == IInv /\ [Next]_vars => MadeStay
<1> SUFFICES ASSUME IInv, [Next]_vars PROVE MadeStay
  OBVIOUS
<1> USE DEF MadeStay, Made, IInv, SessionTypes
<1>1. CASE UNCHANGED <<creates, born>>
  BY <1>1
<1>2. ASSUME NEW x \in Sends, SendMessage(x) PROVE MadeStay
  BY <1>1, <1>2 DEF SendMessage
<1>3. ASSUME NEW c \in Sessions, SessionCreated(c) \/ CreateFailed(c) PROVE MadeStay
  BY <1>3 DEF SessionCreated, CreateFailed
<1>4. ASSUME NEW x \in Sends,
             Locate(x) \/ Record(x) \/ Reply(x) \/ Receive(x) \/ FinishStream(x)
             \/ FailStream(x) \/ EndStream(x)
      PROVE  UNCHANGED <<creates, born>>
  BY <1>4 DEF Locate, Record, Reply, Receive, FinishStream, FailStream, EndStream, hooks
<1>5. ASSUME NEW s \in Sessions, ServeFetch(s) \/ ReturnFetch(s)
      PROVE  UNCHANGED <<creates, born>>
  BY <1>5 DEF ServeFetch, ReturnFetch, hooks
<1>6. Render \/ NewSession \/ SendFetch \/ UNCHANGED vars => UNCHANGED <<creates, born>>
  BY DEF Render, NewSession, SendFetch, vars, hooks
<1> QED
  BY <1>1, <1>2, <1>3, <1>4, <1>5, <1>6 DEF Next

\* Sends that overlap before POST /sessions is answered share it, however sends,
\* answers, failures, renders and presses of "new session" interleave: a
\* conversation never has two under way.
THEOREM OneCreate == Spec => []OneCreateUnderWay
<1>1. IInv => OneCreateUnderWay
  BY DEF IInv
<1> QED
  BY <1>1, IInvAlways, PTL

\* A session asked for before "new session" was pressed never becomes the screen's
\* session afterwards, for any number of sends, sessions and presses.
THEOREM SessionStaysInConversation == Spec => []SessionIsOfThisConversation
<1>1. IInv => SessionIsOfThisConversation
  BY DEF IInv
<1> QED
  BY <1>1, IInvAlways, PTL
-----------------------------------------------------------------------------
(* The inductive invariant of streams, turns and histories.                *)

HookTypes ==
    /\ active # None => active \in Turn
    /\ controller \in Sends \cup {None}
    /\ stream \in [Sends -> Stream]
    /\ waiters \in [Sessions -> Seq(Sends)]

\* A stream whose packets the client still takes.
Live(x) == stream[x].pc \in {"location", "open"} /\ ~stream[x].aborted

\* At most one stream is live: the one whose send is the active turn's.
OneLiveStream ==
    /\ \A x \in Sends : Live(x) => controller = x /\ active # None
    /\ \A x \in Sends : Live(x) =>
          active.send = x /\ Len(active.got) = stream[x].received
    /\ active # None =>
          OwnPackets(active.send, active.got) /\ Current(stream[active.send].session)
    /\ \A x \in Sends : stream[x].pc \in {"location", "open", "failed"} =>
          Made(stream[x].session)

\* The turn of the last render is made of its own packets, too.
RefOwn == ref # None => ref \in Turn /\ OwnPackets(ref.send, ref.got)

\* A send awaits one create at most, and does nothing else.
WaitersWait ==
    /\ \A c \in Sessions : Posted(c) => \A x \in ToSet(waiters[c]) : stream[x].pc = "waiting"
    /\ \A c, d \in Sessions : \A x \in Sends :
          Posted(c) /\ Posted(d) /\ x \in ToSet(waiters[c]) /\ x \in ToSet(waiters[d]) => c = d
    /\ inflight # None => waiters[inflight] # <<>>

\* The send x was posted to the session s.
SentTo(st, x, s) == st[x].pc \notin {"new", "waiting"} /\ st[x].session = s

\* The server has a turn once, in the session it was posted to.
AskedOnce ==
    /\ asked \in [Sessions -> Seq(Sends)] /\ replied \subseteq Sends
    /\ \A s \in Sessions :
          /\ \A x \in ToSet(asked[s]) : SentTo(stream, x, s) /\ Made(s)
          /\ IsInjective(asked[s])

\* The sends that were posted to a session of the conversation of s.
SentBeside(s) ==
    {x \in Sends : /\ Made(s) /\ Made(stream[x].session)
                   /\ SentTo(stream, x, stream[x].session)
                   /\ born[stream[x].session] = born[s]}

\* The ids a list of rows is keyed by.
RowKey == [m \in Row |-> Key(m)]

\* Rows of some of the sends, no two of one message.
RowsOf(sends, rows) ==
    /\ Distinct(rows, RowKey)
    /\ \A m \in ToSet(rows) :
          m.send \in sends /\ (m.role = "reply" => OwnPackets(m.send, m.got))

\* What is cached and what a fetch brings are turns of the session's conversation.
HistoriesApart ==
    /\ cache \in [Sessions -> Seq(Row) \cup {None}]
    /\ fetch \in [Sessions -> Fetch \cup {None}]
    /\ \A s \in Sessions :
          /\ cache[s] # None => RowsOf(SentBeside(s), cache[s])
          /\ fetch[s] # None => RowsOf(SentBeside(s), fetch[s].page)

HookInv == IInv /\ HookTypes /\ OneLiveStream /\ WaitersWait

CInv == HookInv /\ RefOwn /\ AskedOnce /\ HistoriesApart

-----------------------------------------------------------------------------
(* Types of streams.                                                       *)

LEMMA StreamOf ==
    ASSUME NEW st \in [Sends -> Stream], NEW x \in Sends
    PROVE  /\ st[x].pc \in {"new", "waiting", "location", "open", "failed", "done"}
           /\ st[x].session \in Sessions \cup {None}
           /\ st[x].aborted \in BOOLEAN /\ st[x].received \in 0..Packets
           /\ st[x] = [pc |-> st[x].pc, session |-> st[x].session,
                       aborted |-> st[x].aborted, received |-> st[x].received]
BY DEF Stream

LEMMA StreamIs ==
    ASSUME NEW pc \in {"new", "waiting", "location", "open", "failed", "done"},
           NEW s \in Sessions \cup {None}, NEW aborted \in BOOLEAN, NEW received \in 0..Packets,
           NEW r, r = [pc |-> pc, session |-> s, aborted |-> aborted, received |-> received]
    PROVE  /\ r \in Stream /\ r.pc = pc /\ r.session = s /\ r.received = received
           /\ r.aborted <=> aborted
BY DEF Stream

\* What Begin leaves of the streams.
LEMMA BeginIs ==
    ASSUME HookTypes, NEW xs \in Seq(Sends), xs # <<>>, NEW s \in Sessions, Begin(xs, s)
    PROVE  \E last \in ToSet(xs) :
              /\ last \in Sends /\ controller' = last
              /\ active' = [send |-> last, got |-> <<>>, status |-> "streaming"]
              /\ stream' \in [Sends -> Stream]
              /\ \A y \in ToSet(xs) :
                    /\ stream'[y].pc = "location" /\ stream'[y].session = s
                    /\ (stream'[y].aborted <=> y # last) /\ stream'[y].received = 0
              /\ \A y \in Sends \ ToSet(xs) :
                    /\ stream'[y].pc = stream[y].pc /\ stream'[y].session = stream[y].session
                    /\ stream'[y].aborted <=> stream[y].aborted \/ y = controller
                    /\ stream'[y].received = stream[y].received
<1> DEFINE last == Last(xs)
<1>1. Len(xs) \in Nat /\ Len(xs) > 0 /\ Len(xs) \in DOMAIN xs
    OBVIOUS
<1>2. last = xs[Len(xs)] /\ last \in Sends /\ last \in ToSet(xs)
    BY <1>1 DEF Last, ToSet
<1> HIDE DEF last
<1>3. /\ active' = [send |-> last, got |-> <<>>, status |-> "streaming"]
      /\ controller' = last
      /\ stream' = [y \in Sends |->
                       IF y \in ToSet(xs)
                       THEN [pc |-> "location", session |-> s, aborted |-> y # last,
                             received |-> 0]
                       ELSE [stream[y] EXCEPT !.aborted = @ \/ Superseded(y)]]
    BY DEF Begin, last
<1>4. stream \in [Sends -> Stream]
    BY DEF HookTypes
<1>5. ToSet(xs) \subseteq Sends
    BY DEF ToSet
<1>6. ASSUME NEW y \in ToSet(xs)
      PROVE  \E b \in BOOLEAN :
                /\ b <=> y # last
                /\ stream'[y] = [pc |-> "location", session |-> s, aborted |-> b, received |-> 0]
    <2>1. PICK b : b = (y # last)
        OBVIOUS
    <2>2. stream'[y] = [pc |-> "location", session |-> s, aborted |-> b, received |-> 0]
        BY <1>3, <1>5, <2>1
    <2>3. b \in BOOLEAN
        BY <2>1
    <2> QED BY <2>1, <2>2, <2>3
<1>7. ASSUME NEW y \in Sends \ ToSet(xs)
      PROVE  \E b \in BOOLEAN :
                /\ b <=> stream[y].aborted \/ y = controller
                /\ stream'[y] = [pc |-> stream[y].pc, session |-> stream[y].session,
                                 aborted |-> b, received |-> stream[y].received]
    <2>1. PICK b : b = (stream[y].aborted \/ y = controller)
        OBVIOUS
    <2>2. stream'[y] = [stream[y] EXCEPT !.aborted = b]
        BY <1>3, <2>1 DEF Superseded
    <2>3. stream[y] = [pc |-> stream[y].pc, session |-> stream[y].session,
                       aborted |-> stream[y].aborted, received |-> stream[y].received]
        BY <1>4, StreamOf
    <2>4. b \in BOOLEAN
        BY <2>1
    <2>5. stream'[y] = [pc |-> stream[y].pc, session |-> stream[y].session,
                        aborted |-> b, received |-> stream[y].received]
        BY <2>2, <2>3
    <2> QED BY <2>1, <2>4, <2>5
<1>8. ASSUME NEW y \in ToSet(xs)
      PROVE  /\ stream'[y] \in Stream
             /\ stream'[y].pc = "location" /\ stream'[y].session = s
             /\ (stream'[y].aborted <=> y # last) /\ stream'[y].received = 0
    <2>1. PICK b \in BOOLEAN :
              /\ b <=> y # last
              /\ stream'[y] = [pc |-> "location", session |-> s, aborted |-> b, received |-> 0]
        BY <1>6
    <2>2. 0 \in 0..Packets
        BY PacketsAssumption
    <2>3. /\ stream'[y] \in Stream
          /\ stream'[y].pc = "location" /\ stream'[y].session = s
          /\ (stream'[y].aborted <=> b) /\ stream'[y].received = 0
        BY <2>1, <2>2, StreamIs
    <2> QED BY <2>1, <2>3
<1>9. ASSUME NEW y \in Sends \ ToSet(xs)
      PROVE  /\ stream'[y] \in Stream
             /\ stream'[y].pc = stream[y].pc /\ stream'[y].session = stream[y].session
             /\ stream'[y].aborted <=> stream[y].aborted \/ y = controller
             /\ stream'[y].received = stream[y].received
    <2>1. PICK b \in BOOLEAN :
              /\ b <=> stream[y].aborted \/ y = controller
              /\ stream'[y] = [pc |-> stream[y].pc, session |-> stream[y].session,
                               aborted |-> b, received |-> stream[y].received]
        BY <1>7
    <2>2. PICK pc, ss, n : pc = stream[y].pc /\ ss = stream[y].session /\ n = stream[y].received
        OBVIOUS
    <2>3. /\ pc \in {"new", "waiting", "location", "open", "failed", "done"}
          /\ ss \in Sessions \cup {None} /\ n \in 0..Packets
        BY <1>4, <2>2, StreamOf
    <2>4. stream'[y] = [pc |-> pc, session |-> ss, aborted |-> b, received |-> n]
        BY <2>1, <2>2
    <2>5. /\ stream'[y] \in Stream /\ stream'[y].pc = pc /\ stream'[y].session = ss
          /\ (stream'[y].aborted <=> b) /\ stream'[y].received = n
        BY <2>3, <2>4, StreamIs
    <2> QED BY <2>1, <2>2, <2>5
<1>10. stream' \in [Sends -> Stream]
    <2>1. \A y \in Sends : stream'[y] \in Stream
        BY <1>8, <1>9
    <2>2. stream' = [y \in Sends |-> stream'[y]]
        BY <1>3
    <2> QED BY <2>1, <2>2
<1>11. controller' = last /\ active' = [send |-> last, got |-> <<>>, status |-> "streaming"]
    BY <1>3
<1> QED BY <1>2, <1>8, <1>9, <1>10, <1>11

\* The three ways in which one call of streamChat changes.
LEMMA StreamChange ==
    ASSUME NEW r \in Stream, NEW q,
           \/ \E pc \in {"new", "waiting", "location", "open", "failed", "done"} :
                 q = [r EXCEPT !.pc = pc]
           \/ \E n \in 0..Packets : q = [r EXCEPT !.received = n]
           \/ \E b \in BOOLEAN : q = [r EXCEPT !.aborted = b]
    PROVE  q \in Stream
BY DEF Stream

LEMMA PcChange ==
    ASSUME NEW r \in Stream, NEW pc, NEW q, q = [r EXCEPT !.pc = pc]
    PROVE  /\ q.pc = pc /\ q.session = r.session /\ q.received = r.received
           /\ q.aborted = r.aborted
BY DEF Stream

LEMMA ReceivedChange ==
    ASSUME NEW r \in Stream, NEW n, NEW q, q = [r EXCEPT !.received = n]
    PROVE  /\ q.pc = r.pc /\ q.session = r.session /\ q.received = n
           /\ q.aborted = r.aborted
BY DEF Stream

LEMMA AbortedChange ==
    ASSUME NEW r \in Stream, NEW b, NEW q, q = [r EXCEPT !.aborted = b]
    PROVE  /\ q.pc = r.pc /\ q.session = r.session /\ q.received = r.received
           /\ q.aborted = b
BY DEF Stream

\* One send moves on.
LEMMA MoveIs ==
    ASSUME HookTypes, NEW x \in Sends,
           NEW pc \in {"new", "waiting", "location", "open", "failed", "done"},
           stream' = [stream EXCEPT ![x].pc = pc]
    PROVE  /\ stream' \in [Sends -> Stream]
           /\ stream'[x].pc = pc /\ stream'[x].session = stream[x].session
           /\ stream'[x].received = stream[x].received
           /\ stream'[x].aborted = stream[x].aborted
           /\ \A y \in Sends \ {x} : stream'[y] = stream[y]
<1>1. stream \in [Sends -> Stream] /\ stream[x] \in Stream
    BY DEF HookTypes
<1>2. stream'[x] = [stream[x] EXCEPT !.pc = pc]
    BY <1>1
<1>3. stream'[x] \in Stream
    BY <1>1, <1>2, StreamChange
<1>4. \A y \in Sends \ {x} : stream'[y] = stream[y]
    BY <1>1
<1>5. stream' \in [Sends -> Stream]
    <2>1. \A y \in Sends : stream'[y] \in Stream
        BY <1>1, <1>3, <1>4
    <2>2. stream' = [y \in Sends |-> stream'[y]]
        BY <1>1
    <2> QED BY <2>1, <2>2
<1> QED BY <1>1, <1>2, <1>4, <1>5, PcChange

\* The sends that awaited a create are dropped.
LEMMA DropIs ==
    ASSUME HookTypes, NEW c \in Sessions, Drop(c)
    PROVE  /\ stream' \in [Sends -> Stream]
           /\ \A y \in ToSet(waiters[c]) : stream'[y].pc = "done"
           /\ \A y \in Sends : stream'[y].session = stream[y].session
           /\ \A y \in Sends \ ToSet(waiters[c]) : stream'[y] = stream[y]
<1>1. stream \in [Sends -> Stream] /\ ToSet(waiters[c]) \subseteq Sends
    BY DEF HookTypes, ToSet
<1>2. /\ stream' = [y \in Sends |-> stream'[y]]
      /\ \A y \in ToSet(waiters[c]) : stream'[y] = [stream[y] EXCEPT !.pc = "done"]
      /\ \A y \in Sends \ ToSet(waiters[c]) : stream'[y] = stream[y]
    BY <1>1 DEF Drop
<1>3. ASSUME NEW y \in ToSet(waiters[c])
      PROVE  /\ stream'[y] \in Stream /\ stream'[y].pc = "done"
             /\ stream'[y].session = stream[y].session
    <2>1. stream[y] \in Stream /\ stream'[y] = [stream[y] EXCEPT !.pc = "done"]
        BY <1>1, <1>2
    <2> QED BY <2>1, StreamChange, PcChange
<1>4. \A y \in Sends : stream'[y] \in Stream
    BY <1>1, <1>2, <1>3
<1> QED BY <1>2, <1>3, <1>4
-----------------------------------------------------------------------------
(* What the hooks do keeps HookInv, and never moves a turn that was sent.  *)

SentStay == \A x \in Sends, s \in Sessions : SentTo(stream, x, s) => SentTo(stream', x, s)

LEMMA CurrentStays ==
    ASSUME NEW s, Current(s), MadeStay, UNCHANGED conversation
    PROVE  Made(s)' /\ Current(s)'
BY DEF Current, Made, MadeStay

\* A turn begins: the stream before it is aborted, and it is the only one.
LEMMA BeginKeeps ==
    ASSUME HookTypes, OneLiveStream, NEW xs \in Seq(Sends), xs # <<>>,
           NEW s \in Sessions, Begin(xs, s), MadeStay, Current(s)',
           \A x \in ToSet(xs) : stream[x].pc \in {"new", "waiting"}
    PROVE  /\ OneLiveStream' /\ SentStay
           /\ active' \in Turn /\ controller' \in Sends /\ stream' \in [Sends -> Stream]
           /\ \A y \in Sends \ ToSet(xs) : stream'[y].pc = stream[y].pc
<1>1. PICK last \in ToSet(xs) :
          /\ last \in Sends /\ controller' = last
          /\ active' = [send |-> last, got |-> <<>>, status |-> "streaming"]
          /\ stream' \in [Sends -> Stream]
          /\ \A y \in ToSet(xs) :
                /\ stream'[y].pc = "location" /\ stream'[y].session = s
                /\ (stream'[y].aborted <=> y # last) /\ stream'[y].received = 0
          /\ \A y \in Sends \ ToSet(xs) :
                /\ stream'[y].pc = stream[y].pc /\ stream'[y].session = stream[y].session
                /\ stream'[y].aborted <=> stream[y].aborted \/ y = controller
                /\ stream'[y].received = stream[y].received
    BY BeginIs
<1>2. active' \in Turn /\ active'.send = last /\ active'.got = <<>>
    <2>1. <<>> \in Seq(Packet)
        BY EmptySeq
    <2> QED BY <1>1, <2>1 DEF Turn
<1>3. \A x \in Sends : Live(x)' => x = last
    <2> SUFFICES ASSUME NEW x \in Sends, Live(x)' PROVE x = last
        OBVIOUS
    <2>1. CASE x \in ToSet(xs)
        BY <1>1, <2>1 DEF Live
    <2>2. CASE x \notin ToSet(xs)
        <3>1. Live(x) /\ x # controller
            BY <1>1, <2>2 DEF Live
        <3> QED BY <3>1 DEF OneLiveStream
    <2> QED BY <2>1, <2>2
<1>4. OneLiveStream'
    <2>0. active' # None
        BY <1>2, NoneAssumption
    <2>1. \A x \in Sends : Live(x)' => controller' = x /\ active' # None
        BY <1>1, <1>3, <2>0
    <2>2. \A x \in Sends : Live(x)' =>
              active'.send = x /\ Len(active'.got) = stream'[x].received
        BY <1>1, <1>2, <1>3
    <2>3. OwnPackets(active'.send, active'.got) /\ Current(stream[active.send].session)'
        BY <1>1, <1>2 DEF OwnPackets, Current, Made
    <2>4. \A x \in Sends : stream'[x].pc \in {"location", "open", "failed"} =>
              Made(stream[x].session)'
        BY <1>1 DEF OneLiveStream, MadeStay, Made, Current
    <2> QED BY <2>1, <2>2, <2>3, <2>4 DEF OneLiveStream
<1>5. SentStay
    BY <1>1 DEF SentStay, SentTo
<1> QED BY <1>1, <1>2, <1>4, <1>5

\* Steps that leave turns and sessions alone, and every send but some that go
\* from one place before the request to another or are over.
LEMMA QuietKeeps ==
    ASSUME HookTypes, OneLiveStream, MadeStay,
           UNCHANGED <<conversation, active, controller>>,
           stream' \in [Sends -> Stream],
           \A y \in Sends : \/ stream'[y] = stream[y]
                            \/ /\ stream'[y].session = stream[y].session
                               /\ stream'[y].pc \in {"waiting", "done"}
                               /\ stream'[y].pc = "waiting" => stream[y].pc = "new"
    PROVE  OneLiveStream' /\ SentStay
<1>1. \A x \in Sends : Live(x)' => Live(x) /\ stream'[x] = stream[x]
    BY DEF Live
<1>2. OneLiveStream'
    <2>1. \A x \in Sends : Live(x)' => controller' = x /\ active' # None
        BY <1>1 DEF OneLiveStream
    <2>2. \A x \in Sends : Live(x)' =>
              active'.send = x /\ Len(active'.got) = stream'[x].received
        BY <1>1 DEF OneLiveStream
    <2>3. ASSUME active # None
          PROVE  /\ OwnPackets(active.send, active.got)
                 /\ Current(stream[active.send].session)'
        <3>1. active.send \in Sends /\ Current(stream[active.send].session)
            BY <2>3 DEF OneLiveStream, HookTypes, Turn
        <3>2. stream'[active.send].session = stream[active.send].session
            BY <3>1
        <3>3. OwnPackets(active.send, active.got)
            BY <2>3 DEF OneLiveStream
        <3> QED BY <3>1, <3>2, <3>3, CurrentStays
    <2>4. \A x \in Sends : stream'[x].pc \in {"location", "open", "failed"} =>
              Made(stream[x].session)'
        BY DEF OneLiveStream, MadeStay, Made
    <2> QED BY <2>1, <2>2, <2>3, <2>4 DEF OneLiveStream
<1>3. SentStay
    BY DEF SentStay, SentTo
<1> QED BY <1>2, <1>3

\* Waiters of other creates go on waiting.
LEMMA WaitersStay ==
    ASSUME WaitersWait, UNCHANGED waiters,
           inflight' # None => inflight' = inflight,
           \A c \in Sessions : Posted(c)' =>
               Posted(c) /\ \A x \in ToSet(waiters[c]) : stream'[x].pc = "waiting"
    PROVE  WaitersWait'
BY DEF WaitersWait, Posted

LEMMA SendHooks ==
    ASSUME HookInv, IInv', MadeStay, NEW x \in Sends, SendMessage(x)
    PROVE  HookTypes' /\ OneLiveStream' /\ WaitersWait' /\ SentStay
<1>1. /\ HookTypes /\ OneLiveStream /\ WaitersWait /\ stream[x].pc = "new"
      /\ stream \in [Sends -> Stream] /\ waiters \in [Sessions -> Seq(Sends)]
    BY DEF HookInv, HookTypes, SendMessage
<1>2. /\ rendered \in Sessions \cup {None} /\ inflight \in Sessions \cup {None}
      /\ UNCHANGED <<rendered, conversation>>
      /\ rendered # None => Current(rendered)'
      /\ inflight # None => Posted(inflight)
      /\ creates \in [Sessions -> {"unused", "posted", "made", "failed"}]
    BY DEF HookInv, IInv, SessionTypes, CreatesAccounted, SendMessage, screen
<1>3. \A c \in Sessions : Posted(c) => x \notin ToSet(waiters[c])
    BY <1>1 DEF WaitersWait
<1>4. CASE rendered # None /\ Begin(<<x>>, rendered)
           /\ UNCHANGED <<session, inflight, creates, waiters, born>>
    <2>1. <<x>> \in Seq(Sends) /\ <<x>> # <<>> /\ ToSet(<<x>>) = {x}
        BY DEF ToSet
    <2>2. /\ OneLiveStream' /\ SentStay
          /\ active' \in Turn /\ controller' \in Sends /\ stream' \in [Sends -> Stream]
          /\ \A y \in Sends \ {x} : stream'[y].pc = stream[y].pc
        BY <1>1, <1>2, <1>4, <2>1, BeginKeeps
    <2>3. HookTypes'
        BY <1>1, <1>4, <2>2 DEF HookTypes
    <2>4. \A c \in Sessions : Posted(c)' =>
              Posted(c) /\ \A y \in ToSet(waiters[c]) : stream'[y].pc = "waiting"
        <3> SUFFICES ASSUME NEW c \in Sessions, Posted(c)', NEW y \in ToSet(waiters[c])
                     PROVE  Posted(c) /\ stream'[y].pc = "waiting"
            BY <1>4 DEF Posted
        <3>1. Posted(c)
            BY <1>4 DEF Posted
        <3>2. y \in Sends \ {x} /\ stream[y].pc = "waiting"
            BY <1>1, <1>3, <3>1 DEF WaitersWait, ToSet
        <3> QED BY <2>2, <3>1, <3>2
    <2>5. WaitersWait'
        BY <1>1, <1>4, <2>4, WaitersStay
    <2> QED BY <2>2, <2>3, <2>5
<1>5. CASE stream' = [stream EXCEPT ![x].pc = "waiting"]
           /\ UNCHANGED <<session, active, controller>>
           /\ \E c \in Sessions :
                 /\ inflight' = c /\ Posted(c)' /\ \A d \in Sessions \ {c} : Posted(d)' => Posted(d)
                 /\ \/ inflight = c /\ Posted(c) /\ waiters' = [waiters EXCEPT ![c] = Append(@, x)]
                    \/ waiters' = [waiters EXCEPT ![c] = <<x>>]
    <2>1. PICK c \in Sessions :
              /\ inflight' = c /\ Posted(c)' /\ \A d \in Sessions \ {c} : Posted(d)' => Posted(d)
              /\ \/ inflight = c /\ Posted(c) /\ waiters' = [waiters EXCEPT ![c] = Append(@, x)]
                 \/ waiters' = [waiters EXCEPT ![c] = <<x>>]
        BY <1>5
    <2>2. /\ stream' \in [Sends -> Stream] /\ stream'[x].pc = "waiting"
          /\ stream'[x].session = stream[x].session
          /\ \A y \in Sends \ {x} : stream'[y] = stream[y]
        BY <1>1, <1>5, MoveIs
    <2>3. OneLiveStream' /\ SentStay
        BY <1>1, <1>2, <1>5, <2>2, QuietKeeps
    <2>4. /\ waiters' \in [Sessions -> Seq(Sends)]
          /\ waiters'[c] # <<>>
          /\ \A y \in ToSet(waiters'[c]) : y = x \/ (Posted(c) /\ y \in ToSet(waiters[c]))
          /\ \A d \in Sessions \ {c} : waiters'[d] = waiters[d]
        <3>1. CASE inflight = c /\ Posted(c) /\ waiters' = [waiters EXCEPT ![c] = Append(@, x)]
            <4>1. waiters[c] \in Seq(Sends) /\ waiters'[c] = Append(waiters[c], x)
                BY <1>1, <3>1
            <4>2. /\ Append(waiters[c], x) \in Seq(Sends) /\ Append(waiters[c], x) # <<>>
                  /\ ToSet(Append(waiters[c], x)) = ToSet(waiters[c]) \cup {x}
                BY <4>1, AppendElements
            <4> QED BY <1>1, <3>1, <4>1, <4>2
        <3>2. CASE waiters' = [waiters EXCEPT ![c] = <<x>>]
            <4>1. waiters'[c] = <<x>> /\ <<x>> \in Seq(Sends) /\ <<x>> # <<>> /\ ToSet(<<x>>) = {x}
                BY <1>1, <3>2 DEF ToSet
            <4> QED BY <1>1, <3>2, <4>1
        <3> QED BY <2>1, <3>1, <3>2
    <2>5. \A d \in Sessions : \A y \in Sends : Posted(d)' /\ y \in ToSet(waiters'[d]) =>
              (y = x /\ d = c) \/ (y # x /\ Posted(d) /\ y \in ToSet(waiters[d]))
        BY <1>3, <2>1, <2>4
    <2>6. \A d \in Sessions : ToSet(waiters'[d]) \subseteq Sends
        BY <2>4 DEF ToSet
    <2>7. WaitersWait'
        <3>1. \A d \in Sessions : Posted(d)' => \A y \in ToSet(waiters'[d]) : stream'[y].pc = "waiting"
            BY <1>1, <2>2, <2>5, <2>6 DEF WaitersWait
        <3>2. \A d, e \in Sessions : \A y \in Sends :
                  Posted(d)' /\ Posted(e)' /\ y \in ToSet(waiters'[d]) /\ y \in ToSet(waiters'[e])
                      => d = e
            BY <1>1, <2>5 DEF WaitersWait
        <3>3. waiters'[inflight'] # <<>>
            BY <2>1, <2>4
        <3> QED BY <3>1, <3>2, <3>3 DEF WaitersWait
    <2>8. HookTypes'
        BY <1>1, <1>5, <2>2, <2>4 DEF HookTypes
    <2> QED BY <2>3, <2>7, <2>8
<1>6. CASE rendered = None /\ Shares
           /\ waiters' = [waiters EXCEPT ![inflight] = Append(@, x)]
           /\ stream' = [stream EXCEPT ![x].pc = "waiting"]
           /\ UNCHANGED <<session, inflight, creates, active, controller, born>>
    BY <1>2, <1>5, <1>6 DEF Shares, Posted
<1>7. CASE rendered = None /\ ~Shares
           /\ \E c \in Sessions :
                 /\ creates[c] = "unused"
                 /\ creates' = [creates EXCEPT ![c] = "posted"]
                 /\ inflight' = c
                 /\ waiters' = [waiters EXCEPT ![c] = <<x>>]
                 /\ born' = [born EXCEPT ![c] = conversation]
           /\ stream' = [stream EXCEPT ![x].pc = "waiting"]
           /\ UNCHANGED <<session, active, controller>>
    BY <1>2, <1>5, <1>7 DEF Posted
<1> QED BY <1>4, <1>6, <1>7 DEF SendMessage
\* What a create leaves of the waiters of the others.
LEMMA OthersWait ==
    ASSUME HookTypes, WaitersWait, NEW c \in Sessions, Posted(c),
           creates \in [Sessions -> {"unused", "posted", "made", "failed"}],
           NEW v \in {"made", "failed"}, creates' = [creates EXCEPT ![c] = v],
           inflight' = (IF inflight = c THEN None ELSE inflight), UNCHANGED waiters,
           \A y \in Sends \ ToSet(waiters[c]) : stream'[y].pc = stream[y].pc
    PROVE  WaitersWait'
<1>1. \A d \in Sessions : Posted(d)' => Posted(d) /\ d # c
    BY DEF Posted
<1>2. \A d \in Sessions : Posted(d)' => \A x \in ToSet(waiters[d]) : stream'[x].pc = "waiting"
    <2> SUFFICES ASSUME NEW d \in Sessions, Posted(d)', NEW x \in ToSet(waiters[d])
                 PROVE  stream'[x].pc = "waiting"
        OBVIOUS
    <2>1. Posted(d) /\ d # c
        BY <1>1
    <2>2. x \in Sends
        BY DEF HookTypes, ToSet
    <2>3. x \notin ToSet(waiters[c]) /\ stream[x].pc = "waiting"
        BY <2>1, <2>2 DEF WaitersWait
    <2> QED BY <2>2, <2>3
<1>3. inflight' # None => inflight' = inflight
    OBVIOUS
<1> QED BY <1>1, <1>2, <1>3, WaitersStay

\* An answer that is adopted starts all the sends that waited for it, another
\* one drops them.
LEMMA CreatedHooks ==
    ASSUME HookInv, IInv', MadeStay, NEW c \in Sessions, SessionCreated(c)
    PROVE  HookTypes' /\ OneLiveStream' /\ WaitersWait' /\ SentStay
<1>1. /\ HookTypes /\ OneLiveStream /\ WaitersWait /\ Posted(c)
      /\ stream \in [Sends -> Stream] /\ waiters \in [Sessions -> Seq(Sends)]
      /\ creates' = [creates EXCEPT ![c] = "made"]
      /\ inflight' = (IF inflight = c THEN None ELSE inflight)
      /\ UNCHANGED <<waiters, conversation>>
    BY DEF HookInv, HookTypes, SessionCreated, Posted
<1>2. creates \in [Sessions -> {"unused", "posted", "made", "failed"}]
    BY DEF HookInv, IInv, SessionTypes
<1>3. CASE Adopts(c) /\ session' = c /\ Begin(waiters[c], c)
    <2>1. waiters[c] \in Seq(Sends) /\ waiters[c] # <<>>
        BY <1>1, <1>3, NoneAssumption DEF Adopts, WaitersWait
    <2>2. \A x \in ToSet(waiters[c]) : stream[x].pc \in {"new", "waiting"}
        BY <1>1 DEF WaitersWait
    <2>3. /\ OneLiveStream' /\ SentStay
          /\ active' \in Turn /\ controller' \in Sends /\ stream' \in [Sends -> Stream]
          /\ \A y \in Sends \ ToSet(waiters[c]) : stream'[y].pc = stream[y].pc
        <3>1. Current(c)'
            BY <1>3, NoneAssumption DEF IInv, CreatesAccounted
        <3> QED BY <1>1, <1>3, <2>1, <2>2, <3>1, BeginKeeps
    <2>4. HookTypes'
        BY <1>1, <2>3 DEF HookTypes
    <2>5. WaitersWait'
        BY <1>1, <1>2, <2>3, OthersWait
    <2> QED BY <2>3, <2>4, <2>5
<1>4. CASE ~Adopts(c) /\ Drop(c) /\ UNCHANGED <<session, active, controller>>
    <2>1. /\ stream' \in [Sends -> Stream]
          /\ \A y \in ToSet(waiters[c]) : stream'[y].pc = "done"
          /\ \A y \in Sends : stream'[y].session = stream[y].session
          /\ \A y \in Sends \ ToSet(waiters[c]) : stream'[y] = stream[y]
        BY <1>1, <1>4, DropIs
    <2>2. OneLiveStream' /\ SentStay
        BY <1>1, <1>4, <2>1, QuietKeeps
    <2>3. HookTypes'
        BY <1>1, <1>4, <2>1 DEF HookTypes
    <2>4. WaitersWait'
        BY <1>1, <1>2, <2>1, OthersWait
    <2> QED BY <2>2, <2>3, <2>4
<1> QED BY <1>3, <1>4 DEF SessionCreated

LEMMA FailedHooks ==
    ASSUME HookInv, MadeStay, NEW c \in Sessions, CreateFailed(c)
    PROVE  HookTypes' /\ OneLiveStream' /\ WaitersWait' /\ SentStay
<1>1. /\ HookTypes /\ OneLiveStream /\ WaitersWait /\ Posted(c) /\ Drop(c)
      /\ creates' = [creates EXCEPT ![c] = "failed"]
      /\ inflight' = (IF inflight = c THEN None ELSE inflight)
      /\ UNCHANGED <<waiters, conversation, active, controller>>
    BY DEF HookInv, CreateFailed, Posted
<1>2. creates \in [Sessions -> {"unused", "posted", "made", "failed"}]
    BY DEF HookInv, IInv, SessionTypes
<1>3. /\ stream' \in [Sends -> Stream]
      /\ \A y \in ToSet(waiters[c]) : stream'[y].pc = "done"
      /\ \A y \in Sends : stream'[y].session = stream[y].session
      /\ \A y \in Sends \ ToSet(waiters[c]) : stream'[y] = stream[y]
    BY <1>1, DropIs
<1>4. OneLiveStream' /\ SentStay
    BY <1>1, <1>3, QuietKeeps
<1>5. HookTypes'
    BY <1>1, <1>3 DEF HookTypes
<1>6. WaitersWait'
    BY <1>1, <1>2, <1>3, OthersWait
<1> QED BY <1>4, <1>5, <1>6

\* "New session" leaves no stream live and no turn active.
LEMMA NewSessionHooks ==
    ASSUME HookInv, NewSession
    PROVE  HookTypes' /\ OneLiveStream' /\ WaitersWait' /\ SentStay
<1>1. /\ HookTypes /\ OneLiveStream /\ WaitersWait /\ stream \in [Sends -> Stream]
      /\ stream' = [y \in Sends |-> [stream[y] EXCEPT !.aborted = @ \/ y = controller]]
      /\ controller' = None /\ active' = None /\ inflight' = None
      /\ UNCHANGED <<creates, waiters>>
    BY DEF HookInv, HookTypes, NewSession, ClearTurn
<1>2. ASSUME NEW y \in Sends
      PROVE  /\ stream'[y] \in Stream
             /\ stream'[y].pc = stream[y].pc /\ stream'[y].session = stream[y].session
             /\ stream'[y].aborted <=> stream[y].aborted \/ y = controller
    <2>1. PICK b : b = (stream[y].aborted \/ y = controller)
        OBVIOUS
    <2>2. stream[y] \in Stream /\ stream'[y] = [stream[y] EXCEPT !.aborted = b]
        BY <1>1, <2>1
    <2>3. b \in BOOLEAN
        BY <2>1
    <2>4. stream'[y] \in Stream
        BY <2>2, <2>3, StreamChange
    <2>5. /\ stream'[y].pc = stream[y].pc /\ stream'[y].session = stream[y].session
          /\ stream'[y].aborted = b
        BY <2>2, AbortedChange
    <2> QED BY <2>1, <2>4, <2>5
<1>3. stream' \in [Sends -> Stream]
    <2>1. stream' = [y \in Sends |-> stream'[y]]
        BY <1>1
    <2> QED BY <1>2, <2>1
<1>4. \A x \in Sends : ~Live(x)'
    BY <1>1, <1>2 DEF Live, OneLiveStream
<1>5. OneLiveStream'
    BY <1>1, <1>2, <1>4 DEF OneLiveStream, Made
<1>6. HookTypes'
    BY <1>1, <1>3 DEF HookTypes
<1>7. WaitersWait'
    <2>1. \A c \in Sessions : Posted(c)' =>
              Posted(c) /\ \A x \in ToSet(waiters[c]) : stream'[x].pc = "waiting"
        <3> SUFFICES ASSUME NEW c \in Sessions, Posted(c)', NEW x \in ToSet(waiters[c])
                     PROVE  Posted(c) /\ stream'[x].pc = "waiting"
            BY <1>1 DEF Posted
        <3>1. Posted(c) /\ x \in Sends
            BY <1>1 DEF Posted, HookTypes, ToSet
        <3>2. stream[x].pc = "waiting"
            BY <1>1, <3>1 DEF WaitersWait
        <3> QED BY <1>2, <3>1, <3>2
    <2> QED BY <1>1, <2>1, WaitersStay
<1>8. SentStay
    BY <1>2 DEF SentStay, SentTo
<1> QED BY <1>5, <1>6, <1>7, <1>8

\* One send that is past its session goes on; nothing else of the hooks changes.
LEMMA SentMoves ==
    ASSUME HookInv, NEW x \in Sends, stream[x].pc \in {"location", "open"},
           stream' \in [Sends -> Stream],
           stream'[x].pc \notin {"new", "waiting"}, stream'[x].session = stream[x].session,
           \A y \in Sends \ {x} : stream'[y] = stream[y],
           UNCHANGED <<inflight, creates, waiters, controller>>
    PROVE  WaitersWait' /\ SentStay /\ (active' = None \/ active' \in Turn => HookTypes')
<1>1. HookTypes /\ OneLiveStream /\ WaitersWait
    BY DEF HookInv
<1>2. WaitersWait'
    <2>1. \A c \in Sessions : Posted(c)' =>
              Posted(c) /\ \A y \in ToSet(waiters[c]) : stream'[y].pc = "waiting"
        <3> SUFFICES ASSUME NEW c \in Sessions, Posted(c)', NEW y \in ToSet(waiters[c])
                     PROVE  Posted(c) /\ stream'[y].pc = "waiting"
            BY DEF Posted
        <3>1. Posted(c) /\ y \in Sends
            BY <1>1 DEF Posted, HookTypes, ToSet
        <3>2. stream[y].pc = "waiting"
            BY <1>1, <3>1 DEF WaitersWait
        <3> QED BY <3>1, <3>2
    <2> QED BY <1>1, <2>1, WaitersStay
<1>3. SentStay
    BY DEF SentStay, SentTo
<1>4. active' = None \/ active' \in Turn => HookTypes'
    BY <1>1 DEF HookTypes
<1> QED BY <1>2, <1>3, <1>4
LEMMA LocateHooks ==
    ASSUME HookInv, MadeStay, NEW x \in Sends, Locate(x)
    PROVE  HookTypes' /\ OneLiveStream' /\ WaitersWait' /\ SentStay
<1>1. /\ HookTypes /\ OneLiveStream /\ stream[x].pc = "location"
      /\ UNCHANGED <<conversation, inflight, creates, waiters, active, controller>>
    BY DEF HookInv, Locate
<1>2. PICK pc \in {"done", "open"} :
          /\ stream' = [stream EXCEPT ![x].pc = pc]
          /\ pc = "open" => ~stream[x].aborted
    BY DEF Locate
<1>3. /\ stream' \in [Sends -> Stream]
      /\ stream'[x].pc = pc /\ stream'[x].session = stream[x].session
      /\ stream'[x].received = stream[x].received
      /\ stream'[x].aborted = stream[x].aborted
      /\ \A y \in Sends \ {x} : stream'[y] = stream[y]
    <2>1. pc \in {"new", "waiting", "location", "open", "failed", "done"}
        OBVIOUS
    <2>2. stream' = [stream EXCEPT ![x].pc = pc]
        BY <1>2
    <2> QED BY <1>1, <2>1, <2>2, MoveIs
<1>4. \A y \in Sends : Live(y)' => Live(y) /\ stream'[y].received = stream[y].received
    BY <1>1, <1>3 DEF Live
<1>5. \A y \in Sends : stream'[y].session = stream[y].session
    BY <1>3
<1>6. OneLiveStream'
    <2>1. active # None => Current(stream[active.send].session)'
        <3>1. active # None => active.send \in Sends /\ Current(stream[active.send].session)
            BY <1>1 DEF OneLiveStream, HookTypes, Turn
        <3> QED BY <1>1, <1>5, <3>1, CurrentStays
    <2>2. \A y \in Sends : stream'[y].pc \in {"location", "open", "failed"} =>
              Made(stream[y].session)'
        BY <1>1, <1>3 DEF OneLiveStream, MadeStay, Made
    <2> QED BY <1>1, <1>4, <2>1, <2>2 DEF OneLiveStream
<1>7. stream'[x].pc \notin {"new", "waiting"}
    BY <1>3
<1>8. WaitersWait' /\ SentStay /\ HookTypes'
    BY <1>1, <1>3, <1>7, SentMoves DEF HookTypes
<1> QED BY <1>6, <1>8

\* A stream is over: nothing is live any more.
LEMMA OverHooks ==
    ASSUME HookInv, MadeStay, NEW x \in Sends, stream[x].pc = "open", Live(x),
           stream' \in [Sends -> Stream],
           stream'[x].pc \in {"failed", "done"}, stream'[x].session = stream[x].session,
           \A y \in Sends \ {x} : stream'[y] = stream[y],
           UNCHANGED <<conversation, inflight, creates, waiters, controller>>,
           active' # None =>
               active # None /\ active' \in Turn /\ active'.send = active.send
               /\ active'.got = active.got
    PROVE  HookTypes' /\ OneLiveStream' /\ WaitersWait' /\ SentStay
<1>1. HookTypes /\ OneLiveStream
    BY DEF HookInv
<1>2. \A y \in Sends : ~Live(y)'
    <2>1. \A y \in Sends \ {x} : ~Live(y)
        BY <1>1 DEF OneLiveStream
    <2> QED BY <2>1 DEF Live
<1>3. OneLiveStream'
    <2>1. active' # None => OwnPackets(active'.send, active'.got)
                            /\ Current(stream[active.send].session)'
        <3>1. \A y \in Sends : stream'[y].session = stream[y].session
            OBVIOUS
        <3>2. active # None => active.send \in Sends /\ Current(stream[active.send].session)
                               /\ OwnPackets(active.send, active.got)
            BY <1>1 DEF HookTypes, Turn, OneLiveStream
        <3> QED BY <3>1, <3>2, CurrentStays
    <2>2. \A y \in Sends : stream'[y].pc \in {"location", "open", "failed"} =>
              Made(stream[y].session)'
        BY <1>1 DEF OneLiveStream, MadeStay, Made
    <2> QED BY <1>2, <2>1, <2>2 DEF OneLiveStream
<1>4. WaitersWait' /\ SentStay /\ HookTypes'
    <2>1. active' = None \/ active' \in Turn
        OBVIOUS
    <2>2. stream'[x].pc \notin {"new", "waiting"}
        OBVIOUS
    <2> QED BY <2>1, <2>2, SentMoves
<1> QED BY <1>3, <1>4

LEMMA FinishHooks ==
    ASSUME HookInv, MadeStay, NEW x \in Sends, FinishStream(x)
    PROVE  HookTypes' /\ OneLiveStream' /\ WaitersWait' /\ SentStay
<1>1. /\ stream \in [Sends -> Stream] /\ stream[x].pc = "open" /\ Live(x) /\ active' = None
      /\ stream' = [stream EXCEPT ![x].received = Packets, ![x].pc = "done"]
      /\ UNCHANGED <<conversation, inflight, creates, waiters, controller>>
    BY DEF HookInv, HookTypes, FinishStream, Listens, Live
<1> DEFINE q == [stream[x] EXCEPT !.received = Packets]
<1>2. Packets \in 0..Packets /\ stream[x] \in Stream
    BY <1>1, PacketsAssumption
<1>3. q \in Stream /\ q.session = stream[x].session
    BY <1>2, StreamChange, ReceivedChange
<1>4. stream'[x] = [q EXCEPT !.pc = "done"]
    BY <1>1
<1> HIDE DEF q
<1>5. /\ stream'[x] \in Stream /\ stream'[x].pc = "done"
      /\ stream'[x].session = stream[x].session
    BY <1>3, <1>4, StreamChange, PcChange
<1>6. \A y \in Sends \ {x} : stream'[y] = stream[y]
    BY <1>1
<1>7. stream' \in [Sends -> Stream]
    <2>1. stream' = [y \in Sends |-> stream'[y]] /\ \A y \in Sends : stream'[y] \in Stream
        BY <1>1, <1>5, <1>6
    <2> QED BY <2>1
<1> QED BY <1>1, <1>5, <1>6, <1>7, OverHooks

LEMMA EndHooks ==
    ASSUME HookInv, MadeStay, NEW x \in Sends, FailStream(x) \/ EndStream(x)
    PROVE  HookTypes' /\ OneLiveStream' /\ WaitersWait' /\ SentStay
<1>1. /\ HookTypes /\ stream[x].pc = "open" /\ Live(x)
      /\ UNCHANGED <<conversation, inflight, creates, waiters, controller>>
    BY DEF HookInv, FailStream, EndStream, Listens, Live
<1>2. PICK pc \in {"failed", "done"} : stream' = [stream EXCEPT ![x].pc = pc]
    BY DEF FailStream, EndStream
<1>3. /\ stream' \in [Sends -> Stream]
      /\ stream'[x].pc = pc /\ stream'[x].session = stream[x].session
      /\ \A y \in Sends \ {x} : stream'[y] = stream[y]
    BY <1>1, <1>2, MoveIs
<1>4. active' # None =>
          active # None /\ active' \in Turn /\ active'.send = active.send
          /\ active'.got = active.got
    <2>1. active # None => active \in Turn
        BY <1>1 DEF HookTypes
    <2> QED BY <2>1 DEF FailStream, EndStream, Turn
<1> QED BY <1>1, <1>3, <1>4, OverHooks

\* The next packets of the active turn come behind the ones it has.
LEMMA NextPackets ==
    ASSUME NEW x \in Sends, NEW got \in Seq(Packet), OwnPackets(x, got),
           NEW n \in 1..(Packets - Len(got)),
           NEW chunk, chunk = [k \in 1..n |-> [send |-> x, number |-> Len(got) + k]]
    PROVE  /\ got \o chunk \in Seq(Packet) /\ Len(got \o chunk) = Len(got) + n
           /\ OwnPackets(x, got \o chunk)
<1>0. PICK r : r = Len(got)
    OBVIOUS
<1>1. r \in Nat /\ n \in Nat /\ r + n <= Packets /\ DOMAIN got = 1..r
    BY <1>0, PacketsAssumption
<1>2. chunk \in Seq(Packet) /\ Len(chunk) = n
      /\ \A k \in 1..n : chunk[k] = [send |-> x, number |-> r + k]
    <2>1. \A k \in 1..n : [send |-> x, number |-> r + k] \in Packet
        BY <1>1, PacketsAssumption DEF Packet
    <2>2. chunk = [k \in 1..n |-> [send |-> x, number |-> r + k]]
        BY <1>0
    <2>3. chunk \in [1..n -> Packet]
        BY <2>1, <2>2
    <2>4. chunk \in Seq(Packet)
        BY <1>1, <2>3, SeqDef
    <2>5. Len(chunk) = n
        <3>1. DOMAIN chunk = 1..n
            BY <2>2
        <3> QED BY <1>1, <2>4, <3>1, LengthIs
    <2> QED BY <2>2, <2>4, <2>5
<1> DEFINE all == got \o chunk
<1>3. /\ all \in Seq(Packet) /\ Len(all) = r + n /\ DOMAIN all = 1..(r + n)
      /\ \A i \in 1..(r + n) : all[i] = IF i <= r THEN got[i] ELSE chunk[i - r]
    <2>1. /\ all \in Seq(Packet) /\ Len(all) = Len(got) + Len(chunk)
          /\ \A i \in 1..(Len(got) + Len(chunk)) :
                all[i] = IF i <= Len(got) THEN got[i] ELSE chunk[i - Len(got)]
        BY <1>2, ConcatProperties
    <2> HIDE DEF all
    <2>2. all \in Seq(Packet) /\ Len(all) = r + n
        BY <1>0, <1>2, <2>1
    <2>3. \A i \in 1..(r + n) : all[i] = IF i <= r THEN got[i] ELSE chunk[i - r]
        BY <1>0, <1>2, <2>1
    <2>4. DOMAIN all = 1..Len(all)
        BY <2>2
    <2> QED BY <2>2, <2>3, <2>4
<1> HIDE DEF all
<1>4. OwnPackets(x, all)
    <2> SUFFICES ASSUME NEW i \in 1..(r + n) PROVE all[i] = [send |-> x, number |-> i]
        BY <1>3 DEF OwnPackets
    <2>1. CASE i <= r
        BY <1>1, <1>3, <2>1 DEF OwnPackets
    <2>2. CASE i > r
        <3>1. i - r \in 1..n /\ r + (i - r) = i
            BY <1>1, <2>2
        <3>2. all[i] = chunk[i - r]
            <4>1. all[i] = IF i <= r THEN got[i] ELSE chunk[i - r]
                BY <1>3
            <4>2. ~(i <= r)
                BY <1>1, <2>2
            <4> QED BY <4>1, <4>2
        <3>3. chunk[i - r] = [send |-> x, number |-> r + (i - r)]
            BY <1>2, <3>1
        <3> QED BY <3>1, <3>2, <3>3
    <2> QED BY <1>1, <2>1, <2>2
<1> QED BY <1>0, <1>3, <1>4 DEF all

LEMMA ReceiveHooks ==
    ASSUME HookInv, MadeStay, NEW x \in Sends, Receive(x)
    PROVE  HookTypes' /\ OneLiveStream' /\ WaitersWait' /\ SentStay
<1>1. PICK n \in 1..(Packets - stream[x].received) :
          /\ Listens(x) /\ active' = Reduced(x, n)
          /\ stream' = [stream EXCEPT ![x].received = @ + n]
          /\ UNCHANGED <<conversation, inflight, creates, waiters, controller>>
    BY DEF Receive
<1>2. PICK r : r = stream[x].received
    OBVIOUS
<1>3. /\ HookTypes /\ OneLiveStream /\ stream \in [Sends -> Stream] /\ Live(x)
      /\ stream[x].pc = "open" /\ stream[x] \in Stream /\ r \in 0..Packets
    BY <1>1, <1>2 DEF HookInv, HookTypes, Listens, Live, Stream
<1>4. r + n \in 0..Packets
    BY <1>1, <1>2, <1>3, PacketsAssumption
<1>5. stream'[x] = [stream[x] EXCEPT !.received = r + n]
    BY <1>1, <1>2, <1>3
<1>6. /\ stream'[x] \in Stream /\ stream'[x].pc = "open" /\ stream'[x].received = r + n
      /\ stream'[x].session = stream[x].session /\ stream'[x].aborted = stream[x].aborted
    BY <1>3, <1>4, <1>5, StreamChange, ReceivedChange
<1>7. \A y \in Sends \ {x} : stream'[y] = stream[y]
    BY <1>1, <1>3
<1>8. stream' \in [Sends -> Stream]
    <2>1. stream' = [y \in Sends |-> stream'[y]] /\ \A y \in Sends : stream'[y] \in Stream
        BY <1>1, <1>3, <1>6, <1>7
    <2> QED BY <2>1
<1>9. \A y \in Sends : Live(y)' => y = x
    BY <1>3, <1>7 DEF OneLiveStream, Live
<1>10. active # None =>
           /\ active' \in Turn /\ active'.send = x /\ Len(active'.got) = r + n
           /\ OwnPackets(x, active'.got)
    <2> SUFFICES ASSUME active # None
                 PROVE  /\ active' \in Turn /\ active'.send = x /\ Len(active'.got) = r + n
                        /\ OwnPackets(x, active'.got)
        OBVIOUS
    <2>1. /\ active \in Turn /\ active.send = x /\ Len(active.got) = r
          /\ OwnPackets(x, active.got)
        BY <1>2, <1>3 DEF HookTypes, OneLiveStream
    <2>2. PICK got, chunk :
              got = active.got /\ chunk = [k \in 1..n |-> [send |-> x, number |-> r + k]]
        OBVIOUS
    <2>3. got \in Seq(Packet) /\ active = [send |-> x, got |-> got, status |-> active.status]
          /\ active.status \in {"streaming", "error"}
        BY <2>1, <2>2 DEF Turn
    <2>4. active' = [active EXCEPT !.got = got \o chunk]
        BY <1>1, <1>2, <2>2 DEF Reduced
    <2>5. /\ got \o chunk \in Seq(Packet) /\ Len(got \o chunk) = r + n
          /\ OwnPackets(x, got \o chunk)
        <3>1. Len(got) = r /\ OwnPackets(x, got) /\ n \in 1..(Packets - r)
            BY <1>1, <1>2, <2>1, <2>2
        <3>2. chunk = [k \in 1..n |-> [send |-> x, number |-> Len(got) + k]]
            BY <2>2, <3>1
        <3>3. n \in 1..(Packets - Len(got))
            BY <3>1
        <3> HIDE DEF OwnPackets
        <3>4. /\ got \o chunk \in Seq(Packet) /\ Len(got \o chunk) = Len(got) + n
              /\ OwnPackets(x, got \o chunk)
            BY <2>3, <3>1, <3>2, <3>3, NextPackets
        <3> QED BY <3>1, <3>4
    <2>6. active' = [send |-> x, got |-> got \o chunk, status |-> active.status]
        <3>1. PICK all : all = got \o chunk
            OBVIOUS
        <3>2. active' = [active EXCEPT !.got = all]
            BY <2>4, <3>1
        <3>3. active' = [send |-> x, got |-> all, status |-> active.status]
            BY <2>3, <3>2
        <3> QED BY <3>1, <3>3
    <2>7. active'.send = x /\ active'.got = got \o chunk
        BY <2>6
    <2>8. active' \in Turn
        BY <2>3, <2>5, <2>6 DEF Turn
    <2> QED BY <2>5, <2>7, <2>8
<1>11. active = None => active' = None
    BY <1>1 DEF Reduced
<1>12. OneLiveStream'
    <2>0. active # None /\ active.send = x
        BY <1>3 DEF OneLiveStream
    <2>1. \A y \in Sends : Live(y)' => controller' = y /\ active' # None
        BY <1>1, <1>3, <1>9, <1>10, <2>0, NoneAssumption DEF OneLiveStream
    <2>2. \A y \in Sends : Live(y)' =>
              active'.send = y /\ Len(active'.got) = stream'[y].received
        BY <1>6, <1>9, <1>10, <2>0
    <2>3. OwnPackets(active'.send, active'.got) /\ Current(stream[active.send].session)'
        <3>1. Current(stream[x].session)
            BY <1>3, <2>0 DEF OneLiveStream
        <3> QED BY <1>1, <1>6, <1>10, <2>0, <3>1, CurrentStays
    <2>4. \A y \in Sends : stream'[y].pc \in {"location", "open", "failed"} =>
              Made(stream[y].session)'
        BY <1>3, <1>6, <1>7 DEF OneLiveStream, MadeStay, Made
    <2> QED BY <2>1, <2>2, <2>3, <2>4 DEF OneLiveStream
<1>13. WaitersWait' /\ SentStay /\ HookTypes'
    <2>1. stream[x].pc \in {"location", "open"} /\ stream'[x].pc \notin {"new", "waiting"}
        BY <1>3, <1>6
    <2>2. active' = None \/ active' \in Turn
        BY <1>10, <1>11
    <2> QED BY <1>1, <1>6, <1>7, <1>8, <2>1, <2>2, SentMoves
<1> QED BY <1>12, <1>13
-----------------------------------------------------------------------------
(* The server's turns.                                                     *)

LEMMA AskedStays ==
    ASSUME AskedOnce, SentStay, MadeStay, UNCHANGED asked, replied' \subseteq Sends
    PROVE  AskedOnce'
<1>1. \A s \in Sessions : ToSet(asked[s]) \subseteq Sends
    BY DEF AskedOnce, ToSet
<1> QED BY <1>1 DEF AskedOnce, SentStay, MadeStay, Made

LEMMA InjectiveAppend ==
    ASSUME NEW q \in Seq(Sends), IsInjective(q), NEW x \in Sends, x \notin ToSet(q)
    PROVE  IsInjective(Append(q, x))
<1>0. PICK n : n = Len(q)
    OBVIOUS
<1> DEFINE c == Append(q, x)
<1>1. /\ n \in Nat /\ DOMAIN q = 1..n /\ DOMAIN c = 1..(n + 1) /\ c[n + 1] = x
      /\ \A i \in 1..n : c[i] = q[i]
    BY <1>0
<1> HIDE DEF c
<1>2. \A i \in 1..n : c[i] = q[i] /\ c[i] # x
    BY <1>1 DEF ToSet
<1>3. ASSUME NEW i \in 1..(n + 1), NEW j \in 1..(n + 1), c[i] = c[j] PROVE i = j
    <2>1. CASE i \in 1..n /\ j \in 1..n
        BY <1>1, <1>2, <1>3, <2>1 DEF IsInjective
    <2>2. CASE i \notin 1..n \/ j \notin 1..n
        <3>1. i = n + 1 \/ j = n + 1
            BY <1>1, <2>2
        <3>2. i \in 1..n \/ i = n + 1
            BY <1>1
        <3>3. j \in 1..n \/ j = n + 1
            BY <1>1
        <3> QED BY <1>1, <1>2, <1>3, <3>1, <3>2, <3>3
    <2> QED BY <2>1, <2>2
<1> QED BY <1>1, <1>3 DEF IsInjective, c

LEMMA RecordKeeps ==
    ASSUME HookInv, AskedOnce, NEW x \in Sends, Record(x) PROVE AskedOnce'
<1>1. PICK s : s = stream[x].session
    OBVIOUS
<1>2. /\ stream[x].pc \in {"open", "failed"} /\ ~Recorded(x)
      /\ asked' = [asked EXCEPT ![s] = Append(@, x)] /\ UNCHANGED <<stream, replied>>
    BY <1>1 DEF Record, hooks
<1>3. s \in Sessions /\ SentTo(stream, x, s) /\ Made(s) /\ UNCHANGED creates
    BY <1>1, <1>2 DEF HookInv, OneLiveStream, SentTo, Made, Record, hooks
<1>4. /\ asked \in [Sessions -> Seq(Sends)] /\ replied \subseteq Sends
      /\ \A r \in Sessions : /\ IsInjective(asked[r])
                             /\ \A y \in ToSet(asked[r]) : SentTo(stream, y, r) /\ Made(r)
    BY DEF AskedOnce
<1>5. x \notin ToSet(asked[s])
    BY <1>2, <1>3 DEF Recorded
<1>6. /\ asked'[s] = Append(asked[s], x) /\ asked'[s] \in Seq(Sends)
      /\ ToSet(asked'[s]) = ToSet(asked[s]) \cup {x} /\ IsInjective(asked'[s])
    <2>1. asked'[s] = Append(asked[s], x) /\ asked[s] \in Seq(Sends)
        BY <1>2, <1>3, <1>4
    <2>2. /\ Append(asked[s], x) \in Seq(Sends)
          /\ ToSet(Append(asked[s], x)) = ToSet(asked[s]) \cup {x}
        BY <2>1, AppendElements
    <2>3. IsInjective(Append(asked[s], x))
        BY <1>3, <1>4, <1>5, <2>1, InjectiveAppend
    <2> QED BY <2>1, <2>2, <2>3
<1>7. asked' \in [Sessions -> Seq(Sends)] /\ \A r \in Sessions \ {s} : asked'[r] = asked[r]
    <2>1. \A r \in Sessions \ {s} : asked'[r] = asked[r]
        BY <1>2, <1>4
    <2>2. asked' = [r \in Sessions |-> asked'[r]]
        BY <1>2, <1>4
    <2> QED BY <1>4, <1>6, <2>1, <2>2
<1>8. ASSUME NEW r \in Sessions
      PROVE  /\ IsInjective(asked'[r])
             /\ \A y \in ToSet(asked'[r]) : SentTo(stream', y, r) /\ Made(r)'
    <2>1. CASE r = s
        BY <1>2, <1>3, <1>4, <1>6, <2>1 DEF Made
    <2>2. CASE r # s
        BY <1>2, <1>3, <1>4, <1>7, <2>2 DEF Made
    <2> QED BY <2>1, <2>2
<1> QED BY <1>2, <1>4, <1>7, <1>8 DEF AskedOnce

-----------------------------------------------------------------------------
(* Lists of rows.                                                          *)

LEMMA RowKeyIs ==
    ASSUME NEW m \in Row PROVE RowKey[m] = <<m.send, m.role>> /\ RowKey[m] = Key(m)
BY DEF RowKey, Key

LEMMA BesideStays ==
    ASSUME SentStay, MadeStay, NEW s \in Sessions PROVE SentBeside(s) \subseteq SentBeside(s)'
BY DEF SentStay, MadeStay, SentBeside, SentTo, Made

LEMMA RowsStay ==
    ASSUME SentStay, MadeStay, NEW s \in Sessions, NEW rows, RowsOf(SentBeside(s), rows)
    PROVE  RowsOf(SentBeside(s)', rows)
BY BesideStays DEF RowsOf

LEMMA NoRows ==
    ASSUME NEW sends PROVE <<>> \in Seq(Row) /\ RowsOf(sends, <<>>)
<1>1. <<>> \in Seq(Row)
    BY EmptySeq
<1>2. ToSet(<<>>) = {}
    BY DEF ToSet
<1> QED BY <1>1, <1>2 DEF RowsOf, Distinct

LEMMA OneRow ==
    ASSUME NEW m \in Row PROVE <<m>> \in Seq(Row) /\ ToSet(<<m>>) = {m} /\ Distinct(<<m>>, RowKey)
BY DEF ToSet, Distinct

\* What is left without some ids: of the old rows those that do not have one.
LEMMA WithoutIs ==
    ASSUME NEW rows \in Seq(Row), NEW keys
    PROVE  /\ Without(rows, keys) \in Seq(Row)
           /\ \A m \in ToSet(Without(rows, keys)) : m \in ToSet(rows) /\ Key(m) \notin keys
           /\ Distinct(rows, RowKey) => Distinct(Without(rows, keys), RowKey)
<1> DEFINE ss == [k \in DOMAIN rows |-> IF Key(rows[k]) \in keys THEN <<>> ELSE <<rows[k]>>]
<1>1. PICK n : n = Len(rows)
    OBVIOUS
<1>2. n \in Nat /\ DOMAIN rows = 1..n /\ \A k \in 1..n : rows[k] \in Row /\ rows[k] \in ToSet(rows)
    BY <1>1 DEF ToSet
<1>3. ss = [k \in 1..n |-> IF Key(rows[k]) \in keys THEN <<>> ELSE <<rows[k]>>]
    BY <1>2
<1>4. Without(rows, keys) = FlattenSeq(ss)
    BY DEF Without
<1> HIDE DEF ss
<1>5. ASSUME NEW k \in 1..n
      PROVE  /\ ss[k] \in Seq(Row) /\ Distinct(ss[k], RowKey)
             /\ \A m \in ToSet(ss[k]) : m = rows[k] /\ Key(rows[k]) \notin keys
    <2>1. CASE Key(rows[k]) \in keys
        <3>1. ss[k] = <<>> /\ ToSet(<<>>) = {} /\ <<>> \in Seq(Row)
            BY <1>3, <2>1, EmptySeq DEF ToSet
        <3> QED BY <3>1 DEF Distinct
    <2>2. CASE Key(rows[k]) \notin keys
        <3>1. ss[k] = <<rows[k]>> /\ rows[k] \in Row
            BY <1>2, <1>3, <2>2
        <3> QED BY <2>2, <3>1, OneRow
    <2> QED BY <2>1, <2>2
<1>6. ss \in Seq(Seq(Row)) /\ Len(ss) = n
    <2>1. ss \in [1..n -> Seq(Row)]
        BY <1>3, <1>5
    <2>2. ss \in Seq(Seq(Row))
        BY <1>2, <2>1, SeqDef
    <2> QED BY <1>2, <1>3, <2>2, LengthIs
<1>7. /\ FlattenSeq(ss) \in Seq(Row)
      /\ \A m \in ToSet(FlattenSeq(ss)) : \E k \in 1..n : m \in ToSet(ss[k])
      /\ /\ \A k \in 1..n : Distinct(ss[k], RowKey)
         /\ \A k, l \in 1..n : k # l => KeysApart(ss[k], ss[l], RowKey)
         => Distinct(FlattenSeq(ss), RowKey)
    BY <1>6, FlattenElements
<1>8. ASSUME NEW m \in ToSet(FlattenSeq(ss)) PROVE m \in ToSet(rows) /\ Key(m) \notin keys
    <2>1. PICK k \in 1..n : m \in ToSet(ss[k])
        BY <1>7
    <2>2. m = rows[k] /\ Key(rows[k]) \notin keys
        BY <1>5, <2>1
    <2> QED BY <1>2, <2>2
<1>9. ASSUME Distinct(rows, RowKey) PROVE Distinct(FlattenSeq(ss), RowKey)
    <2>1. ASSUME NEW k \in 1..n, NEW l \in 1..n, k # l,
                 NEW m \in ToSet(ss[k]), NEW q \in ToSet(ss[l])
          PROVE  RowKey[m] # RowKey[q]
        <3>1. m = rows[k] /\ q = rows[l]
            BY <1>5
        <3>2. RowKey[rows[k]] # RowKey[rows[l]]
            BY <1>2, <1>9, <2>1 DEF Distinct
        <3> QED BY <3>1, <3>2
    <2>2. \A k, l \in 1..n : k # l => KeysApart(ss[k], ss[l], RowKey)
        BY <2>1 DEF KeysApart
    <2> QED BY <1>5, <1>7, <2>2
<1> QED BY <1>4, <1>7, <1>8, <1>9

\* A finished turn goes in front of the rows of its history.
LEMMA WithPairIs ==
    ASSUME NEW sends, NEW rows \in Seq(Row), RowsOf(sends, rows),
           NEW x \in Sends, x \in sends,
           NEW turn \in Turn, turn.send = x, OwnPackets(x, turn.got)
    PROVE  /\ WithPair(rows, Pair(x, turn)) \in Seq(Row)
           /\ RowsOf(sends, WithPair(rows, Pair(x, turn)))
<1> DEFINE reply == [send |-> x, role |-> "reply", got |-> turn.got]
           user == [send |-> x, role |-> "user", got |-> <<>>]
           pair == <<reply, user>>
           keys == {Key(m) : m \in ToSet(pair)}
           old == Without(rows, keys)
<1>1. Pair(x, turn) = pair /\ WithPair(rows, pair) = pair \o old
    BY DEF Pair, ReplyRow, WithPair
<1>2. reply \in Row /\ user \in Row /\ reply.role = "reply" /\ user.role = "user"
      /\ reply.send = x /\ user.send = x /\ reply.got = turn.got
    <2>1. turn.got \in Seq(Packet) /\ <<>> \in Seq(Packet)
        BY EmptySeq DEF Turn
    <2> QED BY <2>1 DEF Row
<1>3. RowKey[reply] = Key(reply) /\ RowKey[user] = Key(user) /\ RowKey[reply] # RowKey[user]
    BY <1>2, RowKeyIs DEF Key
<1> HIDE DEF reply, user
<1>4. pair \in Seq(Row) /\ ToSet(pair) = {reply, user} /\ Distinct(pair, RowKey)
    BY <1>2, <1>3 DEF ToSet, Distinct
<1> HIDE DEF pair
<1>5. /\ old \in Seq(Row) /\ Distinct(old, RowKey)
      /\ \A m \in ToSet(old) : m \in ToSet(rows) /\ Key(m) \notin keys
    BY WithoutIs DEF RowsOf
<1>6. KeysApart(pair, old, RowKey)
    <2>1. ASSUME NEW q \in ToSet(old) PROVE RowKey[q] \notin keys
        <3> HIDE DEF old, keys
        <3>1. q \in Row /\ Key(q) \notin keys
            BY <1>5, ElementsOf
        <3> QED BY <3>1, RowKeyIs
    <2>2. \A m \in ToSet(pair) : RowKey[m] \in keys
        BY <1>3, <1>4
    <2> QED BY <2>1, <2>2 DEF KeysApart
<1> HIDE DEF old, keys
<1>7. /\ pair \o old \in Seq(Row) /\ ToSet(pair \o old) = ToSet(pair) \cup ToSet(old)
      /\ Distinct(pair \o old, RowKey)
    BY <1>4, <1>5, <1>6, ConcatElements
<1>8. \A m \in ToSet(pair \o old) :
          m.send \in sends /\ (m.role = "reply" => OwnPackets(m.send, m.got))
    BY <1>2, <1>4, <1>5, <1>7 DEF RowsOf
<1> QED BY <1>1, <1>7, <1>8 DEF RowsOf

\* The rows of one turn in a page.
TurnRows(x) ==
    (IF x \in replied THEN <<[send |-> x, role |-> "reply", got |-> Whole(x)]>> ELSE <<>>)
    \o <<[send |-> x, role |-> "user", got |-> <<>>]>>

LEMMA TurnRowsAre ==
    ASSUME NEW x \in Sends
    PROVE  /\ TurnRows(x) \in Seq(Row) /\ Distinct(TurnRows(x), RowKey)
           /\ \A m \in ToSet(TurnRows(x)) :
                 m.send = x /\ (m.role = "reply" => OwnPackets(m.send, m.got))
<1> DEFINE reply == [send |-> x, role |-> "reply", got |-> Whole(x)]
           user == [send |-> x, role |-> "user", got |-> <<>>]
<1>1. Whole(x) \in Seq(Packet) /\ OwnPackets(x, Whole(x))
    <2>1. \A k \in 1..Packets : [send |-> x, number |-> k] \in Packet
        BY DEF Packet
    <2>2. Whole(x) \in [1..Packets -> Packet]
        BY <2>1 DEF Whole
    <2>3. Whole(x) \in Seq(Packet)
        BY <2>2, SeqDef, PacketsAssumption
    <2> QED BY <2>3 DEF Whole, OwnPackets
<1>2. reply \in Row /\ user \in Row /\ reply.role = "reply" /\ user.role = "user"
      /\ reply.send = x /\ user.send = x /\ reply.got = Whole(x)
    <2>1. <<>> \in Seq(Packet)
        BY EmptySeq
    <2> QED BY <1>1, <2>1 DEF Row
<1>3. RowKey[reply] # RowKey[user]
    BY <1>2, RowKeyIs
<1>4. TurnRows(x) = (IF x \in replied THEN <<reply>> ELSE <<>>) \o <<user>>
    BY DEF TurnRows
<1> HIDE DEF reply, user
<1>5. CASE x \in replied
    <2>1. TurnRows(x) = <<reply>> \o <<user>>
        BY <1>4, <1>5, Zenon
    <2>2. /\ <<reply>> \in Seq(Row) /\ ToSet(<<reply>>) = {reply} /\ Distinct(<<reply>>, RowKey)
          /\ <<user>> \in Seq(Row) /\ ToSet(<<user>>) = {user} /\ Distinct(<<user>>, RowKey)
        BY <1>2, OneRow
    <2>3. KeysApart(<<reply>>, <<user>>, RowKey)
        BY <1>3, <2>2 DEF KeysApart
    <2>4. TurnRows(x) \in Seq(Row) /\ ToSet(TurnRows(x)) = {reply, user}
          /\ Distinct(TurnRows(x), RowKey)
        <3>1. PICK a, b : a = <<reply>> /\ b = <<user>>
            OBVIOUS
        <3>2. a \in Seq(Row) /\ b \in Seq(Row) /\ Distinct(a, RowKey) /\ Distinct(b, RowKey)
              /\ KeysApart(a, b, RowKey) /\ ToSet(a) = {reply} /\ ToSet(b) = {user}
            BY <2>2, <2>3, <3>1
        <3>3. /\ a \o b \in Seq(Row) /\ ToSet(a \o b) = {reply} \cup {user}
              /\ Distinct(a \o b, RowKey)
            BY <3>2, ConcatElements
        <3> QED BY <2>1, <3>1, <3>3
    <2> QED BY <1>1, <1>2, <2>4
<1>6. CASE x \notin replied
    <2>1. TurnRows(x) = <<user>>
        BY <1>4, <1>6
    <2> QED BY <1>2, <2>1, OneRow
<1> QED BY <1>5, <1>6

\* A page of a session lists its turns, each once.
LEMMA PageIs ==
    ASSUME AskedOnce, NEW s \in Sessions
    PROVE  Page(s) \in Seq(Row) /\ RowsOf(SentBeside(s), Page(s))
<1> DEFINE q == asked[s]
           back == Reverse(q)
           ss == [k \in DOMAIN q |-> TurnRows(back[k])]
<1>0. PICK n : n = Len(q)
    OBVIOUS
<1>1. /\ q \in Seq(Sends) /\ n \in Nat /\ DOMAIN q = 1..n
      /\ IsInjective(q) /\ \A x \in ToSet(q) : x \in Sends => x \in SentBeside(s)
    BY <1>0 DEF AskedOnce, SentBeside, SentTo
<1>2. Page(s) = FlattenSeq(ss)
    BY DEF Page, TurnRows
<1>3. \A k \in 1..n : (n - k) + 1 \in 1..n /\ back[k] = q[(n - k) + 1]
    BY <1>0, <1>1 DEF Reverse
<1>4. ss = [k \in 1..n |-> TurnRows(back[k])]
    BY <1>1
<1> HIDE DEF q, back, ss
<1>5. /\ \A k \in 1..n : back[k] \in Sends /\ back[k] \in ToSet(q)
      /\ \A k, l \in 1..n : back[k] = back[l] => k = l
    <2>1. \A k \in 1..n : q[(n - k) + 1] \in Sends /\ q[(n - k) + 1] \in ToSet(q)
        BY <1>1, <1>3 DEF ToSet
    <2>2. ASSUME NEW k \in 1..n, NEW l \in 1..n, back[k] = back[l] PROVE k = l
        <3>1. (n - k) + 1 = (n - l) + 1
            BY <1>1, <1>3, <2>2 DEF IsInjective
        <3> QED BY <1>1, <3>1
    <2> QED BY <1>3, <2>1, <2>2
<1>6. \A k \in 1..n :
          /\ ss[k] \in Seq(Row) /\ Distinct(ss[k], RowKey)
          /\ \A m \in ToSet(ss[k]) :
                m.send = back[k] /\ (m.role = "reply" => OwnPackets(m.send, m.got))
    BY <1>4, <1>5, TurnRowsAre
<1>7. ss \in Seq(Seq(Row)) /\ Len(ss) = n
    <2>1. ss \in [1..n -> Seq(Row)]
        BY <1>4, <1>6
    <2>2. ss \in Seq(Seq(Row))
        BY <1>1, <2>1, SeqDef
    <2> QED BY <1>1, <1>4, <2>2, LengthIs
<1>8. /\ FlattenSeq(ss) \in Seq(Row)
      /\ \A m \in ToSet(FlattenSeq(ss)) : \E k \in 1..n : m \in ToSet(ss[k])
      /\ /\ \A k \in 1..n : Distinct(ss[k], RowKey)
         /\ \A k, l \in 1..n : k # l => KeysApart(ss[k], ss[l], RowKey)
         => Distinct(FlattenSeq(ss), RowKey)
    BY <1>7, FlattenElements
<1>9. ASSUME NEW k \in 1..n, NEW l \in 1..n, k # l PROVE KeysApart(ss[k], ss[l], RowKey)
    <2> SUFFICES ASSUME NEW m \in ToSet(ss[k]), NEW p \in ToSet(ss[l])
                 PROVE  RowKey[m] # RowKey[p]
        BY DEF KeysApart
    <2>1. m.send # p.send
        BY <1>5, <1>6, <1>9
    <2>2. m \in Row /\ p \in Row
        BY <1>6, ElementsOf
    <2>3. RowKey[m] = <<m.send, m.role>> /\ RowKey[p] = <<p.send, p.role>>
        BY <2>2, RowKeyIs
    <2> QED BY <2>1, <2>3
<1>10. ASSUME NEW m \in ToSet(FlattenSeq(ss))
       PROVE  m.send \in SentBeside(s) /\ (m.role = "reply" => OwnPackets(m.send, m.got))
    <2>1. PICK k \in 1..n : m \in ToSet(ss[k])
        BY <1>8
    <2>2. m.send = back[k] /\ (m.role = "reply" => OwnPackets(m.send, m.got))
        BY <1>6, <2>1
    <2>3. back[k] \in SentBeside(s)
        BY <1>1, <1>5
    <2> QED BY <2>2, <2>3
<1> QED BY <1>2, <1>6, <1>8, <1>9, <1>10 DEF RowsOf

-----------------------------------------------------------------------------
(* The cached histories and the fetches of them.                           *)

LEMMA HistoriesStay ==
    ASSUME HistoriesApart, SentStay, MadeStay, UNCHANGED history PROVE HistoriesApart'
<1>1. ASSUME NEW s \in Sessions, cache[s] # None PROVE RowsOf(SentBeside(s)', cache[s])
    BY <1>1, RowsStay DEF HistoriesApart
<1>2. ASSUME NEW s \in Sessions, fetch[s] # None PROVE RowsOf(SentBeside(s)', fetch[s].page)
    <2>1. RowsOf(SentBeside(s), fetch[s].page)
        BY <1>2 DEF HistoriesApart
    <2> QED BY <2>1, RowsStay
<1> QED BY <1>1, <1>2 DEF HistoriesApart, history

\* The turn that is committed is the live one as it was rendered, and the session
\* in the rendered callbacks is one of its conversation.
LEMMA FinishHistories ==
    ASSUME HookInv, RefOwn, HistoriesApart, MadeStay, NEW x \in Sends, FinishStream(x), SentStay
    PROVE  HistoriesApart'
<1>1. /\ stream[x].pc = "open" /\ Live(x) /\ cache' = Committed(x, ref) /\ UNCHANGED fetch
      /\ HookTypes /\ OneLiveStream /\ BeginRendered
      /\ rendered # None => Current(rendered)
    BY DEF FinishStream, Listens, Live, HookInv, IInv, CreatesAccounted
<1>2. CASE ref = None \/ rendered = None
    <2>1. UNCHANGED history
        BY <1>1, <1>2 DEF Committed, history
    <2> QED BY <2>1, HistoriesStay
<1>3. CASE ref # None /\ rendered # None
    <2>1. /\ ref \in Turn /\ ref.send = x /\ OwnPackets(x, ref.got)
          /\ Current(stream[x].session) /\ Current(rendered) /\ rendered \in Sessions
        BY <1>1, <1>3 DEF OneLiveStream, BeginRendered, RefOwn, Current, Made
    <2>2. PICK s, turn : s = rendered /\ turn = ref
        OBVIOUS
    <2>3. PICK rows : rows = IF cache[s] = None THEN <<>> ELSE cache[s]
        OBVIOUS
    <2>4. rows \in Seq(Row) /\ RowsOf(SentBeside(s), rows)
        <3>1. CASE cache[s] = None
            BY <2>3, <3>1, NoRows
        <3>2. CASE cache[s] # None
            BY <2>1, <2>2, <2>3, <3>2 DEF HistoriesApart
        <3> QED BY <3>1, <3>2
    <2>5. x \in SentBeside(s)
        BY <1>1, <2>1, <2>2 DEF SentTo, SentBeside, Current
    <2>6. PICK sends : sends = SentBeside(s)'
        OBVIOUS
    <2>7. RowsOf(sends, rows) /\ x \in sends
        BY <2>1, <2>2, <2>4, <2>5, <2>6, RowsStay, BesideStays
    <2> DEFINE new == WithPair(rows, Pair(x, turn))
    <2>8. new \in Seq(Row) /\ RowsOf(sends, new)
        BY <2>1, <2>2, <2>4, <2>7, WithPairIs
    <2>9. cache' = [cache EXCEPT ![s] = new]
        BY <1>1, <1>3, <2>2, <2>3 DEF Committed
    <2> HIDE DEF new
    <2>10. cache \in [Sessions -> Seq(Row) \cup {None}] /\ fetch \in [Sessions -> Fetch \cup {None}]
        BY DEF HistoriesApart
    <2>11. cache'[s] = new /\ \A r \in Sessions \ {s} : cache'[r] = cache[r]
        BY <2>1, <2>2, <2>9, <2>10
    <2>12. cache' \in [Sessions -> Seq(Row) \cup {None}]
        BY <2>8, <2>9, <2>10
    <2>13. ASSUME NEW r \in Sessions, cache'[r] # None PROVE RowsOf(SentBeside(r)', cache'[r])
        <3>1. CASE r = s
            BY <2>6, <2>8, <2>11, <3>1
        <3>2. CASE r # s
            <4>1. cache'[r] = cache[r]
                BY <2>11, <3>2
            <4>2. RowsOf(SentBeside(r), cache[r])
                BY <2>13, <4>1 DEF HistoriesApart
            <4> QED BY <4>1, <4>2, RowsStay
        <3> QED BY <3>1, <3>2
    <2>14. ASSUME NEW r \in Sessions, fetch[r] # None PROVE RowsOf(SentBeside(r)', fetch[r].page)
        <3>1. RowsOf(SentBeside(r), fetch[r].page)
            BY <2>14 DEF HistoriesApart
        <3> QED BY <3>1, RowsStay
    <2> QED BY <1>1, <2>10, <2>12, <2>13, <2>14 DEF HistoriesApart
<1> QED BY <1>2, <1>3

\* A fetch that is sent or served, with the page it has now.
LEMMA FetchKeeps ==
    ASSUME HistoriesApart, NEW s \in Sessions, NEW served \in BOOLEAN, NEW page \in Seq(Row),
           RowsOf(SentBeside(s), page),
           fetch' = [fetch EXCEPT ![s] = [served |-> served, page |-> page]],
           UNCHANGED <<cache, stream, creates, born>>
    PROVE  HistoriesApart'
<1> DEFINE new == [served |-> served, page |-> page]
<1>1. new \in Fetch /\ new.page = page
    BY DEF Fetch
<1>2. fetch' = [fetch EXCEPT ![s] = new]
    OBVIOUS
<1> HIDE DEF new
<1>3. fetch'[s] = new /\ \A r \in Sessions \ {s} : fetch'[r] = fetch[r]
    BY <1>2 DEF HistoriesApart
<1>4. fetch' \in [Sessions -> Fetch \cup {None}]
    BY <1>1, <1>2 DEF HistoriesApart
<1>5. ASSUME NEW r \in Sessions, fetch'[r] # None PROVE RowsOf(SentBeside(r), fetch'[r].page)
    <2>1. CASE r = s
        BY <1>1, <1>3, <2>1
    <2>2. CASE r # s
        BY <1>3, <1>5, <2>2 DEF HistoriesApart
    <2> QED BY <2>1, <2>2
<1>6. \A r \in Sessions : SentBeside(r)' = SentBeside(r)
    BY DEF SentBeside, SentTo, Made
<1> QED BY <1>4, <1>5, <1>6 DEF HistoriesApart

LEMMA ReturnKeeps ==
    ASSUME HistoriesApart, NEW s \in Sessions, ReturnFetch(s) PROVE HistoriesApart'
<1>1. /\ fetch[s] # None /\ fetch' = [fetch EXCEPT ![s] = None]
      /\ UNCHANGED <<stream, creates, born>>
      /\ cache \in [Sessions -> Seq(Row) \cup {None}] /\ fetch \in [Sessions -> Fetch \cup {None}]
      /\ UNCHANGED cache \/ cache' = [cache EXCEPT ![s] = fetch[s].page]
    BY DEF ReturnFetch, HistoriesApart, hooks
<1>2. PICK page : page = fetch[s].page
    OBVIOUS
<1>3. page \in Seq(Row) /\ RowsOf(SentBeside(s), page)
    BY <1>1, <1>2 DEF HistoriesApart, Fetch
<1>4. fetch' \in [Sessions -> Fetch \cup {None}]
      /\ \A r \in Sessions : fetch'[r] # None => fetch[r] # None /\ fetch'[r] = fetch[r]
    BY <1>1
<1>5. cache' \in [Sessions -> Seq(Row) \cup {None}]
      /\ \A r \in Sessions : cache'[r] = cache[r] \/ (r = s /\ cache'[r] = page)
    BY <1>1, <1>2, <1>3
<1>6. \A r \in Sessions : cache'[r] # None => RowsOf(SentBeside(r), cache'[r])
    BY <1>3, <1>5 DEF HistoriesApart
<1>7. \A r \in Sessions : fetch'[r] # None => RowsOf(SentBeside(r), fetch'[r].page)
    BY <1>4 DEF HistoriesApart
<1>8. \A r \in Sessions : SentBeside(r)' = SentBeside(r)
    BY <1>1 DEF SentBeside, SentTo, Made
<1> QED BY <1>1, <1>4, <1>5, <1>6, <1>7, <1>8 DEF HistoriesApart

-----------------------------------------------------------------------------
(* The turn of the last render: the active turn of some state before.      *)

LEMMA RefStep ==
    ASSUME HookInv, RefOwn, [Next]_vars PROVE RefOwn'
<1>1. active # None => active \in Turn /\ OwnPackets(active.send, active.got)
    BY DEF HookInv, HookTypes, OneLiveStream
<1>2. ref' \in {ref, active, None}
    <2>1. ASSUME NEW x \in Sends,
                 SendMessage(x) \/ Locate(x) \/ Record(x) \/ Reply(x) \/ Receive(x)
                 \/ FinishStream(x) \/ FailStream(x) \/ EndStream(x)
          PROVE  ref' = ref
        BY <2>1 DEF SendMessage, Locate, Record, Reply, Receive, FinishStream, FailStream,
            EndStream, hooks, screen
    <2>2. ASSUME NEW s \in Sessions,
                 SessionCreated(s) \/ CreateFailed(s) \/ ServeFetch(s) \/ ReturnFetch(s)
          PROVE  ref' = ref
        BY <2>2 DEF SessionCreated, CreateFailed, ServeFetch, ReturnFetch, hooks, screen
    <2>3. SendFetch \/ UNCHANGED vars => ref' = ref
        BY DEF SendFetch, vars, hooks, screen
    <2>4. Render => ref' = active
        BY DEF Render
    <2>5. NewSession => ref' = None
        BY DEF NewSession, ClearTurn
    <2> QED BY <2>1, <2>2, <2>3, <2>4, <2>5 DEF Next
<1> QED BY <1>1, <1>2 DEF RefOwn

-----------------------------------------------------------------------------
(* The invariant of the client is inductive.                               *)

LEMMA InitCInv == Init => CInv
<1> SUFFICES ASSUME Init PROVE CInv
    OBVIOUS
<1>1. IInv
    BY InitIInv
<1>2. \A x \in Sends : stream[x] = [pc |-> "new", session |-> None, aborted |-> FALSE, received |-> 0]
    BY DEF Init
<1>3. HookTypes
    <2>1. [pc |-> "new", session |-> None, aborted |-> FALSE, received |-> 0] \in Stream
        BY PacketsAssumption DEF Stream
    <2>2. stream \in [Sends -> Stream]
        BY <2>1 DEF Init
    <2>3. <<>> \in Seq(Sends)
        BY EmptySeq
    <2>4. waiters \in [Sessions -> Seq(Sends)]
        BY <2>3 DEF Init
    <2> QED BY <2>2, <2>4 DEF Init, HookTypes
<1>4. OneLiveStream
    BY <1>2 DEF OneLiveStream, Live, Init
<1>5. WaitersWait
    BY DEF WaitersWait, Posted, Init
<1>6. AskedOnce
    <2>1. <<>> \in Seq(Sends) /\ ToSet(<<>>) = {} /\ IsInjective(<<>>)
        BY EmptySeq DEF ToSet, IsInjective
    <2> QED BY <2>1 DEF AskedOnce, Init
<1>7. HistoriesApart
    BY DEF HistoriesApart, Init
<1>8. RefOwn
    BY DEF RefOwn, Init
<1> QED BY <1>1, <1>3, <1>4, <1>5, <1>6, <1>7, <1>8 DEF CInv, HookInv

LEMMA NextCInv == CInv /\ [Next]_vars => CInv'
<1> SUFFICES ASSUME CInv, [Next]_vars PROVE CInv'
    OBVIOUS
<1>1. /\ HookInv /\ IInv' /\ HookTypes /\ OneLiveStream /\ WaitersWait /\ AskedOnce
      /\ HistoriesApart /\ RefOwn /\ RefOwn' /\ MadeStay
    BY NextIInv, NextMade, RefStep DEF CInv, HookInv
<1>2. ASSUME HookTypes', OneLiveStream', WaitersWait', SentStay,
             UNCHANGED server, UNCHANGED history
      PROVE  CInv'
    <2>1. AskedOnce'
        BY <1>1, <1>2, AskedStays DEF server, AskedOnce
    <2>2. HistoriesApart'
        BY <1>1, <1>2, HistoriesStay
    <2> QED BY <1>1, <1>2, <2>1, <2>2 DEF CInv, HookInv
<1>3. ASSUME UNCHANGED hooks
      PROVE  /\ HookTypes' /\ WaitersWait' /\ SentStay /\ UNCHANGED <<stream, creates>>
             /\ UNCHANGED <<conversation, born>> => OneLiveStream'
    BY <1>1, <1>3 DEF hooks, HookTypes, OneLiveStream, Live, WaitersWait, Posted, SentStay,
        Current, Made
<1>4. ASSUME NEW x \in Sends, SendMessage(x) PROVE CInv'
    BY <1>1, <1>2, <1>4, SendHooks DEF SendMessage
<1>5. ASSUME NEW x \in Sends, Locate(x) PROVE CInv'
    BY <1>1, <1>2, <1>5, LocateHooks DEF Locate
<1>6. ASSUME NEW x \in Sends, Record(x) PROVE CInv'
    <2>1. AskedOnce' /\ UNCHANGED <<hooks, history, conversation, born>>
        BY <1>1, <1>6, RecordKeeps DEF Record
    <2>2. HistoriesApart'
        BY <1>1, <1>3, <2>1, HistoriesStay
    <2> QED BY <1>1, <1>3, <2>1, <2>2 DEF CInv, HookInv
<1>7. ASSUME NEW x \in Sends, Reply(x) PROVE CInv'
    <2>1. UNCHANGED <<hooks, asked, history, conversation, born>> /\ replied' \subseteq Sends
        BY <1>1, <1>7 DEF Reply, AskedOnce
    <2>2. AskedOnce' /\ HistoriesApart'
        BY <1>1, <1>3, <2>1, AskedStays, HistoriesStay
    <2> QED BY <1>1, <1>3, <2>1, <2>2 DEF CInv, HookInv
<1>8. ASSUME NEW x \in Sends, Receive(x) PROVE CInv'
    BY <1>1, <1>2, <1>8, ReceiveHooks DEF Receive
<1>9. ASSUME NEW x \in Sends, FinishStream(x) PROVE CInv'
    <2>1. HookTypes' /\ OneLiveStream' /\ WaitersWait' /\ SentStay
        BY <1>1, <1>9, FinishHooks
    <2>2. AskedOnce'
        BY <1>1, <1>9, <2>1, AskedStays DEF FinishStream, server, AskedOnce
    <2>3. HistoriesApart'
        BY <1>1, <1>9, <2>1, FinishHistories
    <2> QED BY <1>1, <2>1, <2>2, <2>3 DEF CInv, HookInv
<1>10. ASSUME NEW x \in Sends, FailStream(x) \/ EndStream(x) PROVE CInv'
    <2>1. UNCHANGED server /\ UNCHANGED history
        BY <1>10 DEF FailStream, EndStream
    <2> QED BY <1>1, <1>2, <1>10, <2>1, EndHooks
<1>11. ASSUME NEW s \in Sessions, SessionCreated(s) PROVE CInv'
    BY <1>1, <1>2, <1>11, CreatedHooks DEF SessionCreated
<1>12. ASSUME NEW s \in Sessions, CreateFailed(s) PROVE CInv'
    BY <1>1, <1>2, <1>12, FailedHooks DEF CreateFailed
<1>13. ASSUME UNCHANGED <<hooks, conversation, born>>, UNCHANGED server, HistoriesApart'
       PROVE  CInv'
    <2>1. AskedOnce'
        BY <1>1, <1>3, <1>13, AskedStays DEF server, AskedOnce
    <2> QED BY <1>1, <1>3, <1>13, <2>1 DEF CInv, HookInv
<1>14. ASSUME NEW s \in Sessions, ServeFetch(s) PROVE CInv'
    <2>1. /\ fetch' = [fetch EXCEPT ![s] = [served |-> TRUE, page |-> Page(s)]]
          /\ UNCHANGED <<hooks, server, cache, conversation, born>>
        BY <1>14 DEF ServeFetch
    <2>2. Page(s) \in Seq(Row) /\ RowsOf(SentBeside(s), Page(s))
        BY <1>1, PageIs
    <2>3. PICK page : page = Page(s)
        OBVIOUS
    <2>4. fetch' = [fetch EXCEPT ![s] = [served |-> TRUE, page |-> page]]
        BY <2>1, <2>3
    <2>5. HistoriesApart'
        BY <1>1, <1>3, <2>1, <2>2, <2>3, <2>4, FetchKeeps
    <2> QED BY <1>13, <2>1, <2>5
<1>15. ASSUME NEW s \in Sessions, ReturnFetch(s) PROVE CInv'
    BY <1>1, <1>13, <1>15, ReturnKeeps DEF ReturnFetch
<1>16. CASE NewSession
    BY <1>1, <1>2, <1>16, NewSessionHooks DEF NewSession
<1>17. CASE SendFetch
    <2>1. /\ rendered # None /\ UNCHANGED <<hooks, server, cache, conversation, born>>
          /\ fetch' = [fetch EXCEPT ![rendered] = [served |-> FALSE, page |-> <<>>]]
        BY <1>17 DEF SendFetch
    <2>2. PICK s : s = rendered
        OBVIOUS
    <2>3. s \in Sessions
        BY <1>1, <2>1, <2>2 DEF HookInv, IInv, SessionTypes
    <2>4. <<>> \in Seq(Row) /\ RowsOf(SentBeside(s), <<>>)
        BY NoRows
    <2>5. HistoriesApart'
        BY <1>1, <1>3, <2>1, <2>2, <2>3, <2>4, FetchKeeps
    <2> QED BY <1>13, <2>1, <2>5
<1>18. CASE UNCHANGED vars
    <2>1. UNCHANGED <<hooks, conversation, born>> /\ UNCHANGED server /\ UNCHANGED history
        BY <1>18 DEF vars
    <2> QED BY <1>2, <1>3, <2>1
<1>19. CASE Render
    <2>1. /\ UNCHANGED <<active, controller, stream, waiters, creates, inflight, born>>
          /\ UNCHANGED conversation /\ UNCHANGED server /\ UNCHANGED history
        BY <1>19 DEF Render
    <2>2. HookTypes' /\ OneLiveStream' /\ WaitersWait' /\ SentStay
        BY <1>1, <2>1 DEF HookTypes, OneLiveStream, Live, WaitersWait, Posted, SentStay,
            Current, Made
    <2> QED BY <1>2, <2>1, <2>2
<1> QED BY <1>4, <1>5, <1>6, <1>7, <1>8, <1>9, <1>10, <1>11, <1>12, <1>14, <1>15, <1>16, <1>17, <1>18,
          <1>19 DEF Next

LEMMA CInvAlways == Spec => []CInv
    BY InitCInv, NextCInv, PTL DEF Spec

\* Sessions, turns, streams and histories are well formed; packets are numbered
\* within a reply, for any number of sends, sessions, packets and presses.
THEOREM TypeCorrect == Spec => []TypeOK
<1>1. CInv => TypeOK
    BY DEF CInv, HookInv, IInv, SessionTypes, HookTypes, RefOwn, AskedOnce, HistoriesApart,
        TypeOK
<1> QED BY <1>1, CInvAlways, PTL

\* The handlers carry no turn id, and yet a packet is only ever reduced into the
\* turn it belongs to: whenever a stream delivers, its send is the active turn's,
\* because every other stream was aborted when that turn began.
THEOREM PacketsStay == Spec => []PacketsStayInTheirTurn
<1>1. CInv => PacketsStayInTheirTurn
    BY DEF CInv, HookInv, OneLiveStream, HistoriesApart, RowsOf, PacketsStayInTheirTurn
<1> QED BY <1>1, CInvAlways, PTL

\* commitTurn writes into the history of the session that the last render left in
\* its callback, and that is a session of the conversation the turn was sent in:
\* "new session" leaves no turn behind, and is rendered with its press.
THEOREM TurnsStay == Spec => []TurnsStayInTheirConversation
<1>1. CInv => TurnsStayInTheirConversation
    BY DEF CInv, HookInv, OneLiveStream, Current, HistoriesApart, RowsOf, SentBeside,
       TurnsStayInTheirConversation
<1> QED BY <1>1, CInvAlways, PTL

\* The history without the active pair, with its keys.
LEMMA KeptIs ==
    ASSUME CInv
    PROVE  /\ Kept \in Seq(Row) /\ Distinct(Kept, RowKey)
           /\ \A m \in ToSet(Kept) : Key(m) \notin ToSet(ActiveKeys)
<1>1. HistoriesApart /\ session \in Sessions \cup {None}
    BY DEF CInv, HookInv, IInv, SessionTypes
<1>2. History \in Seq(Row) /\ Distinct(History, RowKey)
    <2>1. CASE session = None \/ cache[session] = None
        <3>1. History = <<>>
            BY <2>1 DEF History
        <3> QED BY <3>1, NoRows DEF RowsOf
    <2>2. CASE session # None /\ cache[session] # None
        <3>1. History = cache[session] /\ session \in Sessions
            BY <1>1, <2>2 DEF History
        <3> QED BY <1>1, <2>2, <3>1 DEF HistoriesApart, RowsOf
    <2> QED BY <2>1, <2>2
<1> QED BY <1>2, WithoutIs DEF Kept

LEMMA ActiveKeysDiffer ==
    ActiveKeys = <<>> \/ \E a, b : ActiveKeys = <<a, b>> /\ a # b
BY DEF ActiveKeys

LEMMA ShownIsInjective == CInv => ShownOnce
<1> SUFFICES ASSUME CInv PROVE IsInjective(Shown)
    BY DEF ShownOnce
<1>1. /\ Kept \in Seq(Row) /\ Distinct(Kept, RowKey)
      /\ \A m \in ToSet(Kept) : Key(m) \notin ToSet(ActiveKeys)
    BY KeptIs
<1> DEFINE kept == [k \in DOMAIN Kept |-> Key(Kept[k])]
           Keys == ToSet(kept) \cup ToSet(ActiveKeys)
           same == [m \in Keys |-> m]
<1>2. PICK n : n = Len(Kept)
    OBVIOUS
<1>3. /\ n \in Nat /\ DOMAIN Kept = 1..n
      /\ \A k \in 1..n : Kept[k] \in Row /\ Kept[k] \in ToSet(Kept)
    BY <1>1, <1>2 DEF ToSet
<1>4. kept = [k \in 1..n |-> Key(Kept[k])]
    BY <1>3
<1>5. /\ \A k \in 1..n : kept[k] \notin ToSet(ActiveKeys)
      /\ \A k, l \in 1..n : kept[k] = kept[l] => k = l
    <2>1. \A k \in 1..n : kept[k] = Key(Kept[k]) /\ kept[k] = RowKey[Kept[k]]
        BY <1>3, <1>4, RowKeyIs
    <2> QED BY <1>1, <1>3, <2>1 DEF Distinct
<1> HIDE DEF kept
<1>6. kept \in Seq(ToSet(kept))
    <2>1. kept \in [1..n -> ToSet(kept)]
        BY <1>4 DEF ToSet
    <2> QED BY <1>3, <2>1, SeqDef
<1>7. kept \in Seq(Keys) /\ ActiveKeys \in Seq(Keys) /\ DOMAIN kept = 1..n
    <2>1. kept \in [1..n -> Keys]
        BY <1>4 DEF ToSet
    <2>2. kept \in Seq(Keys)
        BY <1>3, <2>1, SeqDef
    <2>3. ActiveKeys \in Seq(ToSet(ActiveKeys))
        <3>1. CASE ActiveKeys = <<>>
            BY <3>1, EmptySeq
        <3>2. CASE \E a, b : ActiveKeys = <<a, b>> /\ a # b
            <4>1. PICK a, b : ActiveKeys = <<a, b>>
                BY <3>2
            <4>2. ActiveKeys \in [1..2 -> ToSet(ActiveKeys)]
                BY <4>1 DEF ToSet
            <4> QED BY <4>2, SeqDef
        <3> QED BY <3>1, <3>2, ActiveKeysDiffer
    <2>4. ActiveKeys \in Seq(Keys)
        BY <2>3, SeqMonotonic
    <2> QED BY <1>4, <2>2, <2>4
<1>8. Distinct(kept, same) /\ Distinct(ActiveKeys, same) /\ KeysApart(kept, ActiveKeys, same)
    <2>1. \A m \in Keys : same[m] = m
        OBVIOUS
    <2>2. \A k \in 1..n : kept[k] \in Keys
        BY <1>7 DEF ToSet
    <2>3. Distinct(kept, same)
        BY <1>5, <1>7, <2>1, <2>2 DEF Distinct
    <2>4. Distinct(ActiveKeys, same)
        <3>1. CASE ActiveKeys = <<>>
            BY <3>1 DEF Distinct
        <3>2. CASE \E a, b : ActiveKeys = <<a, b>> /\ a # b
            <4>1. PICK a, b : ActiveKeys = <<a, b>> /\ a # b
                BY <3>2
            <4>2. DOMAIN ActiveKeys = {1, 2} /\ ActiveKeys[1] = a /\ ActiveKeys[2] = b
                BY <4>1
            <4>3. a \in Keys /\ b \in Keys
                BY <4>2 DEF ToSet
            <4> QED BY <2>1, <4>1, <4>2, <4>3 DEF Distinct
        <3> QED BY <3>1, <3>2, ActiveKeysDiffer
    <2>5. KeysApart(kept, ActiveKeys, same)
        <3> SUFFICES ASSUME NEW m \in ToSet(kept), NEW q \in ToSet(ActiveKeys) PROVE m # q
            BY <2>1 DEF KeysApart
        <3>1. PICK k \in 1..n : m = kept[k]
            BY <1>7 DEF ToSet
        <3> QED BY <1>5, <3>1
    <2> QED BY <2>3, <2>4, <2>5
<1> HIDE DEF Keys
<1>9. Distinct(kept \o ActiveKeys, same) /\ kept \o ActiveKeys \in Seq(Keys)
    BY <1>7, <1>8, ConcatElements
<1>10. Shown = kept \o ActiveKeys
    BY DEF Shown, kept
<1> QED BY <1>9, <1>10 DEF Distinct, IsInjective

\* No message is listed twice, whatever rows a fetch brings while a turn streams,
\* is committed, or was: the active pair hides the rows of its keys, and a
\* committed pair replaces them.
THEOREM ListedOnce == Spec => []ShownOnce
BY ShownIsInjective, CInvAlways, PTL

-----------------------------------------------------------------------------
(* The splitter, a token more at a time.                                   *)

Tokens == [line : {"CR", "LF", "event", "data", ":"}, packet : Nat]
Events == [event : Nat, data : Nat]
Splits == [events : Seq(Events), block : Seq(Tokens)]

LEMMA LineTokens == CR \in Tokens /\ LF \in Tokens /\ CR # LF
BY DEF CR, LF, Tokens

LEMMA EndedType ==
    ASSUME NEW s \in Seq(Tokens), NEW t \in Tokens PROVE Ended(s, t) \in Seq(Tokens)
BY Ending, Appending, LineTokens DEF Ended

LEMMA ParsedType ==
    ASSUME NEW s \in Seq(Tokens) PROVE Parsed(s) \in Seq(Events)
<1> DEFINE lines(kind) == {k \in DOMAIN s : s[k].line = kind}
<1>1. ASSUME NEW all \in SUBSET (DOMAIN s), all # {} PROVE s[Max(all)].packet \in Nat
    <2>1. all \in SUBSET (1..Len(s)) /\ DOMAIN s = 1..Len(s) /\ Len(s) \in Nat
        <3>1. Len(s) \in Nat /\ DOMAIN s = 1..Len(s)
            OBVIOUS
        <3> QED BY <1>1, <3>1
    <2>2. PICK n \in Nat : n = Len(s)
        BY <2>1
    <2>3. Max(all) \in all
        <3>1. all \in SUBSET (1..n)
            BY <2>1, <2>2
        <3> QED BY <1>1, <3>1, MaxOf
    <2>4. \A k \in DOMAIN s : s[k] \in Tokens
        OBVIOUS
    <2>5. s[Max(all)] \in Tokens
        BY <2>3, <2>4
    <2> QED BY <2>5 DEF Tokens
<1>2. CASE lines("event") = {} \/ lines("data") = {}
    BY <1>2 DEF Parsed
<1>3. CASE lines("event") # {} /\ lines("data") # {}
    <2>1. Parsed(s) = <<[event |-> s[Max(lines("event"))].packet,
                         data |-> s[Max(lines("data"))].packet]>>
        BY <1>3 DEF Parsed
    <2>2. s[Max(lines("event"))].packet \in Nat /\ s[Max(lines("data"))].packet \in Nat
        BY <1>1, <1>3
    <2> HIDE DEF lines
    <2>3. [event |-> s[Max(lines("event"))].packet,
           data |-> s[Max(lines("data"))].packet] \in Events
        BY <2>2 DEF Events
    <2> QED BY <2>1, <2>3
<1> QED BY <1>2, <1>3

ScanType == \A s \in Splits, t \in Tokens : Scan(s, t) \in Splits

LEMMA ScanTypeCorrect == ScanType
<1> SUFFICES ASSUME NEW s \in Splits, NEW t \in Tokens PROVE Scan(s, t) \in Splits
    BY DEF ScanType
<1>1. s.events \in Seq(Events) /\ s.block \in Seq(Tokens)
    BY DEF Splits
<1>2. CASE t = LF /\ s.block # <<>> /\ Last(s.block) = LF
    <2>1. Parsed(Front(s.block)) \in Seq(Events)
        BY <1>1, <1>2, Ending, ParsedType
    <2>2. s.events \o Parsed(Front(s.block)) \in Seq(Events)
        BY <1>1, <2>1
    <2> QED BY <1>2, <2>2 DEF Scan, Splits
<1>3. CASE ~(t = LF /\ s.block # <<>> /\ Last(s.block) = LF)
    <2>1. Append(s.block, t) \in Seq(Tokens)
        BY <1>1
    <2> QED BY <1>3, <2>1 DEF Scan, Splits
<1> QED BY <1>2, <1>3

\* A recursion over the elements of a text has one result, which its steps lead to.
Taken(b, f) == f = [k \in 0..Len(b) |-> IF k = 0 THEN <<>> ELSE Ended(f[k - 1], b[k])]

TheTaken(b) == CHOOSE f : Taken(b, f)

EndedFcn == [s \in Seq(Tokens) |-> [t \in Tokens |-> Ended(s, t)]]

LEMMA WithoutIsTaken ==
    ASSUME NEW b \in Seq(Tokens), NEW v, LeadsTo(Seq(Tokens), EndedFcn, <<>>, b, v)
    PROVE  WithoutCRLF(b) = v
<1>1. PICK e \in [0..Len(b) -> Seq(Tokens)] : Along(EndedFcn, <<>>, b, e) /\ e[Len(b)] = v
    BY DEF LeadsTo
<1>2. PICK n \in Nat : n = Len(b)
    OBVIOUS
<1>3. ASSUME NEW k \in 1..n PROVE k - 1 \in 0..n /\ e[k - 1] \in Seq(Tokens) /\ b[k] \in Tokens
    <2>1. k - 1 \in 0..n
        OBVIOUS
    <2>2. e[k - 1] \in Seq(Tokens)
        BY <1>1, <1>2, <2>1
    <2> QED BY <1>2, <2>1, <2>2
<1>4. \A k \in 1..n : e[k] = Ended(e[k - 1], b[k])
    BY <1>1, <1>2, <1>3 DEF Along, EndedFcn
<1>5. e[0] = <<>>
    BY <1>1 DEF Along
<1>6. Taken(b, e)
    <2>1. e = [k \in 0..n |-> e[k]]
        BY <1>2
    <2>2. \A k \in 0..n : e[k] = IF k = 0 THEN <<>> ELSE Ended(e[k - 1], b[k])
        BY <1>4, <1>5
    <2> QED BY <1>2, <2>1, <2>2 DEF Taken
<1>7. Taken(b, TheTaken(b))
    BY <1>6 DEF TheTaken
<1>8. PICK f : f = TheTaken(b)
    OBVIOUS
<1>9. f = [k \in 0..n |-> IF k = 0 THEN <<>> ELSE Ended(f[k - 1], b[k])]
    BY <1>2, <1>7, <1>8 DEF Taken
<1>10. f[n] = e[n]
    <2> DEFINE P == {k \in 0..n : f[k] = e[k]}
    <2>1. 0 \in P
        BY <1>5, <1>9
    <2>2. ASSUME NEW k \in 0..(n - 1), k \in P PROVE k + 1 \in P
        <3>1. k + 1 \in 1..n /\ k + 1 \in 0..n /\ k + 1 - 1 = k
            OBVIOUS
        <3>2. f[k + 1] = Ended(f[k], b[k + 1])
            BY <1>9, <3>1
        <3>3. e[k + 1] = Ended(e[k], b[k + 1])
            BY <1>4, <3>1
        <3> QED BY <2>2, <3>1, <3>2, <3>3
    <2> HIDE DEF P
    <2>3. 0..n \subseteq P
        BY <2>1, <2>2, Induction
    <2> QED BY <2>3 DEF P
<1>11. WithoutCRLF(b) = TheTaken(b)[Len(b)]
    BY DEF WithoutCRLF, TheTaken, Taken
<1> QED BY <1>1, <1>2, <1>8, <1>10, <1>11

LEMMA NormalIs ==
    /\ Normalized(<<>>) = <<>>
    /\ \A b \in Seq(Tokens), t \in Tokens :
          /\ Normalized(b) \in Seq(Tokens)
          /\ Normalized(Append(b, t)) = Ended(Normalized(b), t)
<1>1. EndedFcn \in [Seq(Tokens) -> [Tokens -> Seq(Tokens)]]
    BY EndedType DEF EndedFcn
<1>2. <<>> \in Seq(Tokens)
    OBVIOUS
<1>3. Normalized(<<>>) = <<>>
    BY <1>2, LeadsNowhere, WithoutIsTaken DEF Normalized
<1>4. ASSUME NEW b \in Seq(Tokens), NEW t \in Tokens
      PROVE  /\ Normalized(b) \in Seq(Tokens)
             /\ Normalized(Append(b, t)) = Ended(Normalized(b), t)
    <2>1. PICK v \in Seq(Tokens) : LeadsTo(Seq(Tokens), EndedFcn, <<>>, b, v)
        BY <1>1, <1>2, LeadsSomewhere
    <2>2. LeadsTo(Seq(Tokens), EndedFcn, <<>>, Append(b, t), EndedFcn[v][t])
        BY <1>1, <2>1, LeadsFurther
    <2>3. EndedFcn[v][t] = Ended(v, t) /\ Append(b, t) \in Seq(Tokens)
        BY DEF EndedFcn
    <2> QED BY <2>1, <2>2, <2>3, WithoutIsTaken DEF Normalized
<1> QED BY <1>3, <1>4

\* The search, on a text without CRLFs.
Scans(b, f) ==
    f = [k \in 0..Len(b) |->
            IF k = 0 THEN [events |-> <<>>, block |-> <<>>] ELSE Scan(f[k - 1], b[k])]

TheScan(b) == CHOOSE f : Scans(b, f)

Scanned(b) == TheScan(b)[Len(b)]

Nothing == [events |-> <<>>, block |-> <<>>]

ScanFcn == [s \in Splits |-> [t \in Tokens |-> Scan(s, t)]]

LEMMA ScannedIs ==
    ASSUME NEW b \in Seq(Tokens), NEW v, LeadsTo(Splits, ScanFcn, Nothing, b, v)
    PROVE  Scanned(b) = v
<1>1. PICK e \in [0..Len(b) -> Splits] : Along(ScanFcn, Nothing, b, e) /\ e[Len(b)] = v
    BY DEF LeadsTo
<1>2. PICK n \in Nat : n = Len(b)
    OBVIOUS
<1>3. \A k \in 1..n : k - 1 \in 0..n /\ e[k - 1] \in Splits /\ b[k] \in Tokens
    BY <1>2
<1>4. \A k \in 1..n : e[k] = Scan(e[k - 1], b[k])
    BY <1>1, <1>2, <1>3 DEF Along, ScanFcn
<1>5. e[0] = Nothing
    BY <1>1 DEF Along
<1>6. Scans(b, e)
    <2>1. e = [k \in 0..n |-> e[k]]
        BY <1>2
    <2>2. \A k \in 0..n : e[k] = IF k = 0 THEN Nothing ELSE Scan(e[k - 1], b[k])
        BY <1>4, <1>5
    <2> QED BY <1>2, <2>1, <2>2 DEF Scans, Nothing
<1>7. Scans(b, TheScan(b))
    BY <1>6 DEF TheScan
<1>8. PICK f : f = TheScan(b)
    OBVIOUS
<1>9. f = [k \in 0..n |-> IF k = 0 THEN Nothing ELSE Scan(f[k - 1], b[k])]
    BY <1>2, <1>7, <1>8 DEF Scans, Nothing
<1>10. f[n] = e[n]
    <2> DEFINE P == {k \in 0..n : f[k] = e[k]}
    <2>1. 0 \in P
        BY <1>5, <1>9
    <2>2. ASSUME NEW k \in 0..(n - 1), k \in P PROVE k + 1 \in P
        <3>1. k + 1 \in 1..n /\ k + 1 \in 0..n /\ k + 1 - 1 = k
            OBVIOUS
        <3>2. f[k + 1] = Scan(f[k], b[k + 1])
            BY <1>9, <3>1
        <3>3. e[k + 1] = Scan(e[k], b[k + 1])
            BY <1>4, <3>1
        <3> QED BY <2>2, <3>1, <3>2, <3>3
    <2> HIDE DEF P
    <2>3. 0..n \subseteq P
        BY <2>1, <2>2, Induction
    <2> QED BY <2>3 DEF P
<1> QED BY <1>1, <1>2, <1>8, <1>10 DEF Scanned

LEMMA ScannedStep ==
    /\ Scanned(<<>>) = Nothing
    /\ \A b \in Seq(Tokens), t \in Tokens :
          /\ Scanned(b) \in Splits
          /\ Scanned(Append(b, t)) = Scan(Scanned(b), t)
<1>1. ScanFcn \in [Splits -> [Tokens -> Splits]]
    BY ScanTypeCorrect DEF ScanFcn, ScanType
<1>2. <<>> \in Seq(Tokens) /\ Nothing \in Splits
    BY DEF Nothing, Splits
<1>3. Scanned(<<>>) = Nothing
    BY <1>2, LeadsNowhere, ScannedIs
<1>4. ASSUME NEW b \in Seq(Tokens), NEW t \in Tokens
      PROVE  /\ Scanned(b) \in Splits
             /\ Scanned(Append(b, t)) = Scan(Scanned(b), t)
    <2>1. PICK v \in Splits : LeadsTo(Splits, ScanFcn, Nothing, b, v)
        BY <1>1, <1>2, LeadsSomewhere
    <2>2. LeadsTo(Splits, ScanFcn, Nothing, Append(b, t), ScanFcn[v][t])
        BY <1>1, <2>1, LeadsFurther
    <2>3. ScanFcn[v][t] = Scan(v, t) /\ Append(b, t) \in Seq(Tokens)
        BY DEF ScanFcn
    <2> QED BY <2>1, <2>2, <2>3, ScannedIs
<1> QED BY <1>3, <1>4

LEMMA SplitIs ==
    \A chunk, leftover : SplitSseBlocks(chunk, leftover) = Scanned(Normalized(leftover \o chunk))
BY DEF SplitSseBlocks, Scanned, TheScan, Scans

\* What one token more does to what was split: an LF takes the CR away again.
Took(s, t) ==
    IF t = LF /\ s.block # <<>> /\ Last(s.block) = CR
    THEN Scan([s EXCEPT !.block = Front(@)], LF) ELSE Scan(s, t)

LEMMA ScannedLast ==
    ASSUME NEW b \in Seq(Tokens), NEW t \in Tokens
    PROVE  LET s == Scanned(Append(b, t))
           IN  /\ s.block # <<>> => Last(s.block) = t
               /\ t # LF => /\ s.block # <<>> /\ s.events = Scanned(b).events
                            /\ Front(s.block) = Scanned(b).block
<1> DEFINE r == Scanned(b)
<1>1. r \in Splits /\ Scanned(Append(b, t)) = Scan(r, t)
    BY ScannedStep
<1> HIDE DEF r
<1>2. r.block \in Seq(Tokens)
    BY <1>1 DEF Splits
<1>3. CASE t = LF /\ r.block # <<>> /\ Last(r.block) = LF
    BY <1>1, <1>3 DEF Scan
<1>4. CASE ~(t = LF /\ r.block # <<>> /\ Last(r.block) = LF)
    <2>1. Scan(r, t) = [r EXCEPT !.block = Append(@, t)]
        BY <1>4 DEF Scan
    <2>2. Scan(r, t).block = Append(r.block, t) /\ Scan(r, t).events = r.events
        BY <1>1, <2>1 DEF Splits
    <2> QED BY <1>1, <1>2, <2>2, Appending DEF r
<1> QED BY <1>3, <1>4

LEMMA TookStep ==
    ASSUME NEW leftover \in Seq(Tokens), NEW chunk \in Seq(Tokens), NEW t \in Tokens
    PROVE  /\ SplitSseBlocks(chunk, leftover) \in Splits
           /\ SplitSseBlocks(Append(chunk, t), leftover) = Took(SplitSseBlocks(chunk, leftover), t)
<1> DEFINE b == leftover \o chunk
           n == Normalized(b)
           s == Scanned(n)
<1>1. b \in Seq(Tokens) /\ leftover \o Append(chunk, t) = Append(b, t)
    <2>1. /\ b \in Seq(Tokens) /\ Append(chunk, t) = chunk \o <<t>> /\ Append(b, t) = b \o <<t>>
          /\ <<t>> \in Seq(Tokens)
        OBVIOUS
    <2>2. (leftover \o chunk) \o <<t>> = leftover \o (chunk \o <<t>>)
        BY <2>1, ConcatAssociative
    <2> QED BY <2>1, <2>2
<1>2. SplitSseBlocks(chunk, leftover) = s
    BY SplitIs
<1>3. SplitSseBlocks(Append(chunk, t), leftover) = Scanned(Ended(n, t))
    BY <1>1, NormalIs, SplitIs
<1> HIDE DEF b
<1>4. n \in Seq(Tokens)
    BY <1>1, NormalIs, LineTokens
<1> HIDE DEF n
<1>5. s \in Splits
    BY <1>4, ScannedStep, LineTokens
<1>6. CASE n = <<>>
    <2>1. s = Nothing /\ Ended(n, t) = Append(n, t)
        BY <1>6, ScannedStep DEF Ended
    <2>2. Scanned(Append(n, t)) = Scan(s, t)
        BY <1>4, ScannedStep
    <2> HIDE DEF s
    <2>3. Took(s, t) = Scan(s, t)
        BY <2>1 DEF Took, Nothing
    <2> QED BY <1>2, <1>3, <1>5, <2>1, <2>2, <2>3
<1>7. CASE n # <<>>
    <2>1. Front(n) \in Seq(Tokens) /\ Last(n) \in Tokens /\ n = Append(Front(n), Last(n))
        BY <1>4, <1>7, Ending
    <2>2. /\ s.block # <<>> => Last(s.block) = Last(n)
          /\ Last(n) # LF => /\ s.block # <<>> /\ s.events = Scanned(Front(n)).events
                             /\ Front(s.block) = Scanned(Front(n)).block
        <3>1. PICK f \in Seq(Tokens), l \in Tokens : f = Front(n) /\ l = Last(n) /\ n = Append(f, l)
            BY <2>1
        <3>2. /\ Scanned(Append(f, l)).block # <<>> => Last(Scanned(Append(f, l)).block) = l
              /\ l # LF => /\ Scanned(Append(f, l)).block # <<>>
                           /\ Scanned(Append(f, l)).events = Scanned(f).events
                           /\ Front(Scanned(Append(f, l)).block) = Scanned(f).block
            BY ScannedLast
        <3> QED BY <3>1, <3>2
    <2>3. CASE t = LF /\ Last(n) = CR
        <3>1. Scanned(Ended(n, t)) = Scan(Scanned(Front(n)), LF)
            BY <1>7, <2>1, <2>3, ScannedStep, LineTokens DEF Ended
        <3>2. s.block # <<>> /\ Last(s.block) = CR
            BY <2>2, <2>3, LineTokens
        <3>3. [s EXCEPT !.block = Front(@)] = Scanned(Front(n))
            <4>1. Scanned(Front(n)) \in Splits
                BY <2>1, ScannedStep
            <4>2. s.events = Scanned(Front(n)).events /\ Front(s.block) = Scanned(Front(n)).block
                BY <2>2, <2>3, LineTokens
            <4> HIDE DEF s
            <4> QED BY <1>5, <4>1, <4>2 DEF Splits
        <3> HIDE DEF s
        <3> QED BY <1>2, <1>3, <1>5, <2>3, <3>1, <3>2, <3>3 DEF Took
    <2>4. CASE ~(t = LF /\ Last(n) = CR)
        <3>1. Scanned(Ended(n, t)) = Scan(s, t)
            BY <1>4, <2>4, ScannedStep DEF Ended
        <3>2. ~(t = LF /\ s.block # <<>> /\ Last(s.block) = CR)
            BY <2>2, <2>4
        <3> HIDE DEF s
        <3> QED BY <1>2, <1>3, <1>5, <3>1, <3>2 DEF Took
    <2> QED BY <2>3, <2>4
<1> QED BY <1>6, <1>7

-----------------------------------------------------------------------------
(* Where a text is cut does not show.                                      *)

\* A leftover: nothing in it is still to be replaced or to be found.
Clean(block) ==
    \A k \in 1..(Len(block) - 1) :
        /\ block[k] = CR => block[k + 1] \notin {CR, LF}
        /\ block[k] = LF => block[k + 1] # LF

NoDoubleCR(text) == \A k \in 1..(Len(text) - 1) : ~(text[k] = CR /\ text[k + 1] = CR)

LEMMA CleanAppend ==
    ASSUME NEW b \in Seq(Tokens), Clean(b), NEW t \in Tokens,
           b # <<>> => /\ Last(b) = CR => t \notin {CR, LF}
                       /\ Last(b) = LF => t # LF
    PROVE  Clean(Append(b, t))
<1>1. PICK n \in Nat : n = Len(b)
    OBVIOUS
<1> DEFINE q == Append(b, t)
<1>2. Len(q) = n + 1 /\ q[n + 1] = t /\ \A k \in 1..n : q[k] = b[k]
    BY <1>1
<1> HIDE DEF q
<1>3. ASSUME NEW k \in 1..n
      PROVE  /\ q[k] = CR => q[k + 1] \notin {CR, LF}
             /\ q[k] = LF => q[k + 1] # LF
    <2>1. CASE k = n
        <3>1. b # <<>> /\ q[k] = Last(b) /\ q[k + 1] = t
            BY <1>1, <1>2, <2>1 DEF Last
        <3> QED BY <3>1
    <2>2. CASE k # n
        <3>1. k \in 1..(n - 1) /\ k + 1 \in 1..n
            BY <2>2
        <3> QED BY <1>1, <1>2, <3>1 DEF Clean
    <2> QED BY <2>1, <2>2
<1>4. Len(q) - 1 = n
    BY <1>2
<1> QED BY <1>3, <1>4 DEF Clean, q

LEMMA CleanFront ==
    ASSUME NEW b \in Seq(Tokens), Clean(b), b # <<>>
    PROVE  /\ Clean(Front(b))
           /\ Front(b) # <<>> => ~(Last(Front(b)) = CR /\ Last(b) \in {CR, LF})
<1>1. PICK n \in Nat : n = Len(b) /\ n # 0
    OBVIOUS
<1>2. /\ Front(b) \in Seq(Tokens) /\ Len(Front(b)) = n - 1
      /\ \A k \in 1..(n - 1) : Front(b)[k] = b[k]
    BY <1>1, Ending
<1>3. Clean(Front(b))
    <2>1. \A k \in 1..(n - 1 - 1) : k \in 1..(n - 1) /\ k + 1 \in 1..(n - 1)
        OBVIOUS
    <2> QED BY <1>1, <1>2, <2>1 DEF Clean
<1>4. ASSUME Front(b) # <<>> PROVE ~(Last(Front(b)) = CR /\ Last(b) \in {CR, LF})
    <2>1. n - 1 \in 1..(n - 1)
        BY <1>1, <1>2, <1>4
    <2>2. Last(Front(b)) = b[n - 1] /\ Last(b) = b[n - 1 + 1]
        BY <1>1, <1>2, <2>1 DEF Last
    <2> QED BY <1>1, <2>1, <2>2 DEF Clean
<1> QED BY <1>3, <1>4

LEMMA CleanTook ==
    ASSUME NEW s \in Splits, Clean(s.block), NEW t \in Tokens,
           s.block # <<>> /\ Last(s.block) = CR => t # CR
    PROVE  /\ Took(s, t) \in Splits /\ Clean(Took(s, t).block)
           /\ Took(s, t).block # <<>> => Last(Took(s, t).block) = t
<1>1. s.block \in Seq(Tokens) /\ s.events \in Seq(Events)
    BY DEF Splits
\* The search itself takes a token that no CR waits for.
<1>2. ASSUME NEW r \in Splits, Clean(r.block),
             r.block # <<>> => ~(Last(r.block) = CR /\ t \in {CR, LF})
      PROVE  /\ Scan(r, t) \in Splits /\ Clean(Scan(r, t).block)
             /\ Scan(r, t).block # <<>> => Last(Scan(r, t).block) = t
    <2>0. r.block \in Seq(Tokens) /\ Scan(r, t) \in Splits
        BY ScanTypeCorrect DEF ScanType, Splits
    <2>1. CASE t = LF /\ r.block # <<>> /\ Last(r.block) = LF
        <3>1. Scan(r, t).block = <<>>
            BY <2>1 DEF Scan
        <3>2. Clean(<<>>)
            BY DEF Clean
        <3> QED BY <2>0, <3>1, <3>2
    <2>2. CASE ~(t = LF /\ r.block # <<>> /\ Last(r.block) = LF)
        <3>1. Scan(r, t) = [r EXCEPT !.block = Append(@, t)]
            BY <2>2 DEF Scan
        <3>2. Scan(r, t).block = Append(r.block, t)
            BY <3>1 DEF Splits
        <3>3. Clean(Append(r.block, t))
            BY <1>2, <2>0, <2>2, CleanAppend
        <3>4. Last(Append(r.block, t)) = t
            BY <2>0, Appending
        <3> QED BY <2>0, <3>2, <3>3, <3>4
    <2> QED BY <2>1, <2>2
<1>3. CASE t = LF /\ s.block # <<>> /\ Last(s.block) = CR
    <2> DEFINE r == [s EXCEPT !.block = Front(@)]
    <2>1. Front(s.block) \in Seq(Tokens) /\ Clean(Front(s.block))
          /\ (Front(s.block) # <<>> => Last(Front(s.block)) # CR)
        BY <1>1, <1>3, Ending, CleanFront
    <2>2. r \in Splits /\ r.block = Front(s.block)
        BY <1>1, <2>1 DEF Splits
    <2>3. Took(s, t) = Scan(r, t)
        BY <1>3 DEF Took
    <2> HIDE DEF r
    <2> QED BY <1>2, <2>1, <2>2, <2>3
<1>4. CASE ~(t = LF /\ s.block # <<>> /\ Last(s.block) = CR)
    <2>1. Took(s, t) = Scan(s, t)
        BY <1>4 DEF Took
    <2> QED BY <1>2, <1>4, <2>1
<1> QED BY <1>3, <1>4

\* A token does the same to a block, whatever events came before.
LEMMA TookAlike ==
    ASSUME NEW r \in Splits, NEW s \in Splits, NEW e \in Seq(Events), NEW t \in Tokens,
           r.block = s.block, r.events = e \o s.events
    PROVE  Took(r, t).block = Took(s, t).block /\ Took(r, t).events = e \o Took(s, t).events
<1>1. ASSUME NEW x \in Splits, NEW y \in Splits, x.block = y.block, x.events = e \o y.events
      PROVE  Scan(x, t).block = Scan(y, t).block /\ Scan(x, t).events = e \o Scan(y, t).events
    <2>1. CASE t = LF /\ y.block # <<>> /\ Last(y.block) = LF
        <3>1. Parsed(Front(y.block)) \in Seq(Events) /\ y.events \in Seq(Events)
            BY <2>1, Ending, ParsedType DEF Splits
        <3>2. (e \o y.events) \o Parsed(Front(y.block)) = e \o (y.events \o Parsed(Front(y.block)))
            <4>1. PICK a \in Seq(Events), b \in Seq(Events) :
                     a = y.events /\ b = Parsed(Front(y.block))
                BY <3>1
            <4>2. (e \o a) \o b = e \o (a \o b)
                BY Regroup
            <4> QED BY <4>1, <4>2
        <3> QED BY <1>1, <2>1, <3>2 DEF Scan
    <2>2. CASE ~(t = LF /\ y.block # <<>> /\ Last(y.block) = LF)
        <3>1. Scan(x, t) = [x EXCEPT !.block = Append(@, t)]
              /\ Scan(y, t) = [y EXCEPT !.block = Append(@, t)]
            BY <1>1, <2>2 DEF Scan
        <3> QED BY <1>1, <3>1 DEF Splits
    <2> QED BY <2>1, <2>2
<1>2. CASE t = LF /\ s.block # <<>> /\ Last(s.block) = CR
    <2> DEFINE x == [r EXCEPT !.block = Front(@)]
               y == [s EXCEPT !.block = Front(@)]
    <2>1. Took(r, t) = Scan(x, t) /\ Took(s, t) = Scan(y, t)
        BY <1>2 DEF Took
    <2>2. Front(s.block) \in Seq(Tokens)
        BY <1>2, Ending DEF Splits
    <2>3. x \in Splits /\ y \in Splits /\ x.block = y.block /\ x.events = e \o y.events
        BY <2>2 DEF Splits
    <2>4. Scan(x, t).block = Scan(y, t).block /\ Scan(x, t).events = e \o Scan(y, t).events
        <3> HIDE DEF x, y
        <3> QED BY <1>1, <2>3
    <2> QED BY <2>1, <2>4
<1>3. CASE ~(t = LF /\ s.block # <<>> /\ Last(s.block) = CR)
    <2>1. Took(r, t) = Scan(r, t) /\ Took(s, t) = Scan(s, t)
        BY <1>3 DEF Took
    <2> QED BY <1>1, <2>1
<1> QED BY <1>2, <1>3

\* A token that no CR and no LF waits for is one more of the block.
LEMMA TookOn ==
    ASSUME NEW s, NEW e, NEW b, NEW t, s = [events |-> e, block |-> b],
           b # <<>> => ~(Last(b) \in {CR, LF} /\ t = LF)
    PROVE  Took(s, t) = [events |-> e, block |-> Append(b, t)]
<1>1. s.block = b
    OBVIOUS
<1>2. Took(s, t) = Scan(s, t)
    BY <1>1 DEF Took
<1>3. Scan(s, t) = [s EXCEPT !.block = Append(@, t)]
    BY <1>1 DEF Scan
<1> QED BY <1>2, <1>3

\* A leftover that is split again stays as it is.
LEMMA SplitLeftover ==
    ASSUME NEW leftover \in Seq(Tokens), Clean(leftover)
    PROVE  SplitSseBlocks(<<>>, leftover) = [events |-> <<>>, block |-> leftover]
<1>1. PICK n \in Nat : n = Len(leftover)
    OBVIOUS
<1> DEFINE Split(k) == SplitSseBlocks(SubSeq(leftover, 1, k), <<>>)
           P == {k \in 0..n : Split(k) = [events |-> <<>>, block |-> SubSeq(leftover, 1, k)]}
<1>0. <<>> \in Seq(Tokens) /\ <<>> \o <<>> = <<>>
    OBVIOUS
<1>2. 0 \in P
    <2>1. SubSeq(leftover, 1, 0) = <<>>
        BY SubSeqEmpty
    <2>2. SplitSseBlocks(<<>>, <<>>) = Scanned(Normalized(<<>> \o <<>>))
        BY SplitIs
    <2>3. SplitSseBlocks(<<>>, <<>>) = Nothing
        BY <1>0, <2>2, NormalIs, ScannedStep
    <2>4. Split(0) = [events |-> <<>>, block |-> SubSeq(leftover, 1, 0)]
        BY <2>1, <2>3 DEF Nothing
    <2>5. 0 \in 0..n
        BY <1>1
    <2> HIDE DEF Split
    <2> QED BY <2>4, <2>5
<1>3. ASSUME NEW k \in 0..(n - 1), k \in P PROVE k + 1 \in P
    <2> DEFINE b == SubSeq(leftover, 1, k)
               t == leftover[k + 1]
    <2>1. /\ b \in Seq(Tokens) /\ t \in Tokens /\ Len(b) = k
          /\ SubSeq(leftover, 1, k + 1) = Append(b, t)
        BY <1>1, OneMore
    <2>2. b # <<>> => k \in 1..(n - 1) /\ Last(b) = leftover[k]
        <3>1. ASSUME b # <<>> PROVE k \in 1..(n - 1) /\ b[k] = leftover[k]
            BY <1>1, <2>1, <3>1
        <3> QED BY <2>1, <3>1 DEF Last
    <2>3. Split(k) = [events |-> <<>>, block |-> b]
        BY <1>3
    <2>4. Split(k + 1) = Took(Split(k), t)
        BY <1>0, <2>1, TookStep
    <2>5. Took(Split(k), t) = [events |-> <<>>, block |-> Append(b, t)]
        <3>1. b # <<>> => ~(Last(b) \in {CR, LF} /\ t = LF)
            BY <1>1, <2>2 DEF Clean
        <3> HIDE DEF b, t
        <3> HIDE DEF Split
        <3> QED BY <2>3, <3>1, TookOn
    <2>6. k + 1 \in 0..n
        OBVIOUS
    <2> HIDE DEF Split
    <2> QED BY <2>1, <2>4, <2>5, <2>6
<1> HIDE DEF P
<1>4. n \in P
    <2>1. 0..n \subseteq P
        BY <1>2, <1>3, Induction
    <2> QED BY <2>1
<1>5. SubSeq(leftover, 1, n) = leftover
    BY <1>1, SubSeqFull
<1>6. Split(n) = [events |-> <<>>, block |-> leftover]
    BY <1>4, <1>5 DEF P
<1>7. SplitSseBlocks(leftover, <<>>) = SplitSseBlocks(<<>>, leftover)
    <2>1. <<>> \o leftover = leftover \o <<>>
        BY ConcatEmptySeq
    <2> QED BY <2>1, SplitIs
<1> QED BY <1>5, <1>6, <1>7

\* What the client has made of a text up to position q, without a cut.
Uncut(text, q) == SplitSseBlocks(SubSeq(text, 1, q), <<>>)

LEMMA UncutStep ==
    ASSUME NEW text \in Seq(Tokens), NEW q \in Nat, q < Len(text)
    PROVE  /\ Uncut(text, q) \in Splits /\ text[q + 1] \in Tokens
           /\ Uncut(text, q + 1) = Took(Uncut(text, q), text[q + 1])
<1>1. /\ SubSeq(text, 1, q) \in Seq(Tokens) /\ text[q + 1] \in Tokens
      /\ SubSeq(text, 1, q + 1) = Append(SubSeq(text, 1, q), text[q + 1])
    BY OneMore
<1>2. <<>> \in Seq(Tokens)
    OBVIOUS
<1> QED BY <1>1, <1>2, TookStep DEF Uncut

LEMMA UncutStart ==
    ASSUME NEW text PROVE Uncut(text, 0) = Nothing
<1>1. SubSeq(text, 1, 0) = <<>> /\ <<>> \o <<>> = <<>>
    BY SubSeqEmpty
<1> QED BY <1>1, SplitIs, NormalIs, ScannedStep DEF Uncut

LEMMA UncutClean ==
    ASSUME NEW text \in Seq(Tokens), NoDoubleCR(text)
    PROVE  \A q \in 0..Len(text) :
              /\ Uncut(text, q) \in Splits /\ Clean(Uncut(text, q).block)
              /\ Uncut(text, q).block # <<>> => q # 0 /\ Last(Uncut(text, q).block) = text[q]
<1>1. PICK n \in Nat : n = Len(text)
    OBVIOUS
<1> DEFINE P == {q \in 0..n :
                    /\ Uncut(text, q) \in Splits /\ Clean(Uncut(text, q).block)
                    /\ Uncut(text, q).block # <<>> => q # 0 /\ Last(Uncut(text, q).block) = text[q]}
<1>2. 0 \in P
    <2>1. Uncut(text, 0) = Nothing /\ Nothing \in Splits /\ Nothing.block = <<>>
        BY UncutStart DEF Nothing, Splits
    <2>2. Clean(<<>>)
        BY DEF Clean
    <2> QED BY <2>1, <2>2
<1>3. ASSUME NEW q \in 0..(n - 1), q \in P PROVE q + 1 \in P
    <2>1. /\ Uncut(text, q) \in Splits /\ Clean(Uncut(text, q).block)
          /\ Uncut(text, q).block # <<>> => q # 0 /\ Last(Uncut(text, q).block) = text[q]
        BY <1>3
    <2>2. text[q + 1] \in Tokens /\ Uncut(text, q + 1) = Took(Uncut(text, q), text[q + 1])
        BY <1>1, UncutStep
    <2>3. Uncut(text, q).block # <<>> /\ Last(Uncut(text, q).block) = CR => text[q + 1] # CR
        BY <1>1, <2>1 DEF NoDoubleCR
    <2>4. /\ Uncut(text, q + 1) \in Splits /\ Clean(Uncut(text, q + 1).block)
          /\ Uncut(text, q + 1).block # <<>> => Last(Uncut(text, q + 1).block) = text[q + 1]
        BY <2>1, <2>2, <2>3, CleanTook
    <2>5. q + 1 \in 0..n /\ q + 1 # 0
        OBVIOUS
    <2> QED BY <2>4, <2>5
<1> HIDE DEF P
<1>4. 0..n \subseteq P
    BY <1>2, <1>3, Induction
<1> QED BY <1>1, <1>4 DEF P

(***************************************************************************)
(* splitSseBlocks on any text in which no CR follows a CR, which is any    *)
(* text of whole line ends: wherever it is cut, the chunk behind the cut   *)
(* brings the events that are missing, and the leftover is the same.       *)
(***************************************************************************)
THEOREM CutsAreSeamless ==
    ASSUME NEW text \in Seq(Tokens), NoDoubleCR(text),
           NEW p \in 0..Len(text), NEW q \in p..Len(text)
    PROVE  LET next == SplitSseBlocks(SubSeq(text, p + 1, q), Uncut(text, p).block)
           IN  /\ Uncut(text, q).events = Uncut(text, p).events \o next.events
               /\ Uncut(text, q).block = next.block
<1> DEFINE first == Uncut(text, p)
           n == Len(text)
           After(k) == SplitSseBlocks(SubSeq(text, p + 1, k), first.block)
           Seamless(k) == /\ After(k) \in Splits
                          /\ Uncut(text, k).events = first.events \o After(k).events
                          /\ Uncut(text, k).block = After(k).block
           P == {i \in 0..(n - p) : Seamless(p + i)}
<1>1. n \in Nat /\ p \in 0..n
    OBVIOUS
<1>2. first \in Splits /\ Clean(first.block)
    BY UncutClean
<1>a. first.block \in Seq(Tokens) /\ first.events \in Seq(Events)
    <2> HIDE DEF first
    <2> QED BY <1>2 DEF Splits
<1>3. 0 \in P
    <2>1. SubSeq(text, p + 1, p) = <<>>
        BY SubSeqEmpty
    <2>2. After(p) = [events |-> <<>>, block |-> first.block]
        <3> HIDE DEF first
        <3> QED BY <1>2, <1>a, <2>1, SplitLeftover
    <2>3. first.events \o <<>> = first.events
        <3> HIDE DEF first
        <3> QED BY <1>a, ConcatEmptySeq
    <2>4. After(p) \in Splits
        <3> HIDE DEF first, After
        <3>1. [events |-> <<>>, block |-> first.block] \in Splits
            BY <1>a DEF Splits
        <3> QED BY <2>2, <3>1
    <2>5. Seamless(p)
        <3>1. After(p).events = <<>> /\ After(p).block = first.block
            <4> HIDE DEF After, first
            <4> QED BY <2>2
        <3>2. Uncut(text, p).events = first.events /\ Uncut(text, p).block = first.block
            OBVIOUS
        <3> HIDE DEF After, first
        <3> QED BY <2>3, <2>4, <3>1, <3>2
    <2>6. 0 \in 0..(n - p) /\ p + 0 = p
        BY <1>1
    <2> HIDE DEF Seamless
    <2> QED BY <2>5, <2>6
<1>4. ASSUME NEW i \in 0..(n - p - 1), i \in P PROVE i + 1 \in P
    <2> DEFINE k == p + i
    <2>1. k \in Nat /\ k < n /\ p + 1 <= k + 1 /\ p + (i + 1) = k + 1 /\ i + 1 \in 0..(n - p)
        BY <1>1
    <2>2. Seamless(k)
        BY <1>4
    <2> HIDE DEF k
    <2>3. /\ SubSeq(text, p + 1, k) \in Seq(Tokens) /\ text[k + 1] \in Tokens
          /\ SubSeq(text, p + 1, k + 1) = Append(SubSeq(text, p + 1, k), text[k + 1])
        BY <1>1, <2>1, OneMore
    <2>4. After(k + 1) = Took(After(k), text[k + 1])
        <3> HIDE DEF first
        <3> QED BY <1>a, <2>3, TookStep
    <2>5. Uncut(text, k) \in Splits /\ Uncut(text, k + 1) = Took(Uncut(text, k), text[k + 1])
        BY <2>1, UncutStep
    <2>6. After(k + 1) \in Splits
        <3>1. SubSeq(text, p + 1, k + 1) \in Seq(Tokens)
            <4>1. \A u \in Seq(Tokens), t \in Tokens : Append(u, t) \in Seq(Tokens)
                BY Appending
            <4> QED BY <2>3, <4>1, Zenon
        <3> HIDE DEF first
        <3> QED BY <1>a, <3>1, TookStep, LineTokens
    <2>8. Seamless(k + 1)
        <3> HIDE DEF After, first
        <3>1. /\ After(k) \in Splits /\ Uncut(text, k).events = first.events \o After(k).events
              /\ Uncut(text, k).block = After(k).block
            BY <2>2
        <3>2. /\ Took(Uncut(text, k), text[k + 1]).block = Took(After(k), text[k + 1]).block
              /\ Took(Uncut(text, k), text[k + 1]).events
                   = first.events \o Took(After(k), text[k + 1]).events
            BY <1>a, <2>3, <2>5, <3>1, TookAlike
        <3> QED BY <2>4, <2>5, <2>6, <3>2
    <2> HIDE DEF Seamless
    <2> QED BY <2>1, <2>8
<1>5. 0..(n - p) \subseteq P
    <2>1. n - p \in Nat
        BY <1>1
    <2> HIDE DEF P
    <2> QED BY <1>3, <1>4, <2>1, Induction
<1>6. q - p \in 0..(n - p) /\ p + (q - p) = q
    BY <1>1
<1>7. Seamless(q)
    <2>1. q - p \in P
        BY <1>5, <1>6
    <2> HIDE DEF Seamless
    <2>2. Seamless(p + (q - p))
        BY <2>1
    <2> QED BY <1>6, <2>2
<1> QED BY <1>7

\* The LF behind a CR takes its place, and is one more of the block.
LEMMA TookLineEnd ==
    ASSUME NEW s, NEW e, NEW b \in Seq(Tokens), s = [events |-> e, block |-> Append(b, CR)],
           b # <<>> => Last(b) # LF
    PROVE  Took(s, LF) = [events |-> e, block |-> Append(b, LF)]
<1>1. s.block # <<>> /\ Last(s.block) = CR /\ Front(s.block) = b
    BY Appending, LineTokens
<1> DEFINE r == [s EXCEPT !.block = Front(@)]
<1>2. r = [events |-> e, block |-> b] /\ r.block = b
    BY <1>1
<1>3. Took(s, LF) = Scan(r, LF)
    BY <1>1 DEF Took
<1> HIDE DEF r
<1>4. Scan(r, LF) = [r EXCEPT !.block = Append(@, LF)]
    BY <1>2 DEF Scan
<1> QED BY <1>2, <1>3, <1>4

\* The LF of an empty line ends the block.
LEMMA TookBlockEnd ==
    ASSUME NEW s, NEW e, NEW b \in Seq(Tokens),
           s = [events |-> e, block |-> Append(Append(b, LF), CR)]
    PROVE  Took(s, LF) = [events |-> e \o Parsed(b), block |-> <<>>]
<1> DEFINE c == Append(b, LF)
<1>1. c \in Seq(Tokens) /\ c # <<>> /\ Last(c) = LF /\ Front(c) = b
    BY Appending, LineTokens
<1>a. s.block = Append(c, CR) /\ s.events = e
    OBVIOUS
<1> HIDE DEF c
<1>2. s.block # <<>> /\ Last(s.block) = CR /\ Front(s.block) = c
    <2>1. CR \in Tokens
        BY LineTokens
    <2>2. /\ Append(c, CR) # <<>> /\ Last(Append(c, CR)) = CR /\ Front(Append(c, CR)) = c
        BY <1>1, <2>1, Appending
    <2> QED BY <1>a, <2>2, Zenon
<1> DEFINE r == [s EXCEPT !.block = Front(@)]
<1>3. r.events = e /\ r.block = c
    BY <1>2, <1>a
<1>4. Took(s, LF) = Scan(r, LF)
    BY <1>2 DEF Took
<1> HIDE DEF r
<1>5. Scan(r, LF) = [events |-> r.events \o Parsed(Front(r.block)), block |-> <<>>]
    BY <1>1, <1>3 DEF Scan
<1> QED BY <1>1, <1>3, <1>4, <1>5

\* The lines of a packet's block, and of a keep-alive.
Lines(k) == Append(Append(Append(<<>>, EventLine(k)), LF), DataLine(k))

LEMMA ParsedLines ==
    ASSUME NEW k \in Nat
    PROVE  Lines(k) \in Seq(Tokens) /\ Parsed(Lines(k)) = <<[event |-> k, data |-> k]>>
<1> DEFINE s == Lines(k)
<1>1. EventLine(k) \in Tokens /\ DataLine(k) \in Tokens
    BY DEF EventLine, DataLine, Tokens
<1>2. s \in Seq(Tokens) /\ Len(s) = 3 /\ s[1] = EventLine(k) /\ s[2] = LF /\ s[3] = DataLine(k)
    BY <1>1, LineTokens DEF Lines
<1> HIDE DEF s
<1>3. DOMAIN s = 1..3
    BY <1>2
<1>4. s[1].line = "event" /\ s[1].packet = k /\ s[2].line = "LF"
      /\ s[3].line = "data" /\ s[3].packet = k
    BY <1>2 DEF EventLine, DataLine, LF
<1> DEFINE lines(kind) == {i \in DOMAIN s : s[i].line = kind}
<1>5. lines("event") = {1} /\ lines("data") = {3}
    BY <1>3, <1>4
<1>6. Max({1}) = 1 /\ Max({3}) = 3
    <2>1. {1} \in SUBSET (1..3) /\ {3} \in SUBSET (1..3) /\ {1} # {} /\ {3} # {}
        OBVIOUS
    <2>2. Max({1}) \in {1} /\ Max({3}) \in {3}
        BY <2>1, MaxOf
    <2> QED BY <2>2
<1>7. Parsed(s) = <<[event |-> s[Max(lines("event"))].packet,
                     data |-> s[Max(lines("data"))].packet]>>
    BY <1>5 DEF Parsed
<1> HIDE DEF lines
<1>8. Parsed(s) = <<[event |-> k, data |-> k]>>
    BY <1>4, <1>5, <1>6, <1>7
<1> QED BY <1>2, <1>8 DEF s

LEMMA ParsedComment ==
    LET s == Append(<<>>, Comment) IN s \in Seq(Tokens) /\ Parsed(s) = <<>>
<1> DEFINE s == Append(<<>>, Comment)
<1>1. Comment \in Tokens
    BY DEF Comment, Tokens
<1>2. s \in Seq(Tokens) /\ Len(s) = 1 /\ s[1] = Comment
    BY <1>1
<1> HIDE DEF s
<1>3. DOMAIN s = {1} /\ s[1].line = ":"
    BY <1>2 DEF Comment
<1>4. {i \in DOMAIN s : s[i].line = "event"} = {}
    BY <1>3
<1> QED BY <1>2, <1>4 DEF Parsed, s

-----------------------------------------------------------------------------
(* How many packets are complete.                                          *)

EndsAt(text, q) == SubSeq(text, q - 3, q) = LineEnd \o LineEnd /\ text[q - 4].line = "data"

Ends(text, p) == {q \in 5..p : EndsAt(text, q)}

LEMMA EndsAtIs ==
    ASSUME NEW text \in Seq(Tokens), NEW q \in 5..Len(text)
    PROVE  EndsAt(text, q) <=> /\ text[q - 3] = CR /\ text[q - 2] = LF /\ text[q - 1] = CR
                               /\ text[q] = LF /\ text[q - 4].line = "data"
<1>1. PICK n \in Nat : n = Len(text)
    OBVIOUS
<1> DEFINE s == SubSeq(text, q - 3, q)
           e == LineEnd \o LineEnd
<1>2. e \in Seq(Tokens) /\ Len(e) = 4 /\ e[1] = CR /\ e[2] = LF /\ e[3] = CR /\ e[4] = LF
    BY LineTokens DEF LineEnd
<1>3. /\ s \in Seq(Tokens) /\ Len(s) = 4
      /\ s[1] = text[q - 3] /\ s[2] = text[q - 2] /\ s[3] = text[q - 1] /\ s[4] = text[q]
    BY <1>1
<1> HIDE DEF s, e
<1>4. s = e <=> s[1] = e[1] /\ s[2] = e[2] /\ s[3] = e[3] /\ s[4] = e[4]
    <2>1. ASSUME s[1] = e[1], s[2] = e[2], s[3] = e[3], s[4] = e[4] PROVE s = e
        <3>1. \A i \in 1..4 : s[i] = e[i]
            BY <2>1
        <3> QED BY <1>2, <1>3, <3>1, SeqEqual
    <2> QED BY <2>1
<1> QED BY <1>2, <1>3, <1>4 DEF EndsAt, s, e

LEMMA CompleteStep ==
    ASSUME NEW text, NEW q \in Nat
    PROVE  /\ Complete(text, q) \in Nat
           /\ q + 1 >= 5 /\ EndsAt(text, q + 1) => Complete(text, q + 1) = Complete(text, q) + 1
           /\ ~(q + 1 >= 5 /\ EndsAt(text, q + 1)) => Complete(text, q + 1) = Complete(text, q)
<1>1. Complete(text, q) = Cardinality(Ends(text, q))
      /\ Complete(text, q + 1) = Cardinality(Ends(text, q + 1))
    BY DEF Complete, Ends, EndsAt
<1>2. IsFiniteSet(Ends(text, q))
    <2>1. IsFiniteSet(5..q) /\ Ends(text, q) \subseteq 5..q
        BY FS_Interval DEF Ends
    <2> QED BY <2>1, FS_Subset
<1>3. Cardinality(Ends(text, q)) \in Nat
    BY <1>2, FS_CardinalityType
<1>4. CASE q + 1 >= 5 /\ EndsAt(text, q + 1)
    <2>1. Ends(text, q + 1) = Ends(text, q) \cup {q + 1} /\ q + 1 \notin Ends(text, q)
        BY <1>4 DEF Ends
    <2> QED BY <1>1, <1>2, <1>3, <1>4, <2>1, FS_AddElement
<1>5. CASE ~(q + 1 >= 5 /\ EndsAt(text, q + 1))
    <2>1. Ends(text, q + 1) = Ends(text, q)
        BY <1>5 DEF Ends
    <2> QED BY <1>1, <1>3, <1>5, <2>1
<1> QED BY <1>4, <1>5

LEMMA CompleteStart == ASSUME NEW text PROVE Complete(text, 0) = 0
<1>1. {q \in 5..0 : EndsAt(text, q)} = {}
    OBVIOUS
<1> QED BY <1>1, FS_EmptySet DEF Complete, EndsAt

\* What comes behind does not change it.
LEMMA Prefix ==
    ASSUME NEW text \in Seq(Tokens), NEW more \in Seq(Tokens), NEW p \in 0..Len(text)
    PROVE  /\ Uncut(text \o more, p) = Uncut(text, p)
           /\ Complete(text \o more, p) = Complete(text, p)
<1>1. PICK n \in Nat : n = Len(text)
    OBVIOUS
<1> DEFINE whole == text \o more
<1>2. whole \in Seq(Tokens) /\ Len(whole) >= n /\ \A k \in 1..n : whole[k] = text[k]
    BY <1>1
<1> HIDE DEF whole
<1>3. SubSeq(whole, 1, p) = SubSeq(text, 1, p)
    <2> DEFINE a == SubSeq(whole, 1, p)
               b == SubSeq(text, 1, p)
    <2>1. a \in Seq(Tokens) /\ Len(a) = p /\ \A k \in 1..p : a[k] = whole[k]
        <3>1. PICK m \in Nat : m = Len(whole)
            BY <1>2
        <3>2. p <= m /\ p \in Nat
            BY <1>1, <1>2, <3>1
        <3> QED BY <1>2, <3>1, <3>2
    <2>2. b \in Seq(Tokens) /\ Len(b) = p /\ \A k \in 1..p : b[k] = text[k]
        BY <1>1
    <2> HIDE DEF a, b
    <2>3. \A k \in 1..p : a[k] = b[k]
        BY <1>1, <1>2, <2>1, <2>2
    <2>4. a = b
        BY <2>1, <2>2, <2>3, SeqEqual
    <2> QED BY <2>4 DEF a, b
<1>4. Ends(whole, p) = Ends(text, p)
    <2>1. ASSUME NEW q \in 5..p PROVE EndsAt(whole, q) <=> EndsAt(text, q)
        <3>0. PICK m \in Nat : m = Len(whole)
            BY <1>2
        <3>1. /\ q \in 5..n /\ q \in 5..m
              /\ q \in 1..n /\ q - 1 \in 1..n /\ q - 2 \in 1..n /\ q - 3 \in 1..n /\ q - 4 \in 1..n
            BY <1>1, <1>2, <3>0
        <3>2. /\ whole[q] = text[q] /\ whole[q - 1] = text[q - 1] /\ whole[q - 2] = text[q - 2]
              /\ whole[q - 3] = text[q - 3] /\ whole[q - 4] = text[q - 4]
            BY <1>2, <3>1
        <3>3. EndsAt(whole, q) <=> /\ whole[q - 3] = CR /\ whole[q - 2] = LF /\ whole[q - 1] = CR
                                   /\ whole[q] = LF /\ whole[q - 4].line = "data"
            BY <1>2, <3>0, <3>1, EndsAtIs
        <3>4. EndsAt(text, q) <=> /\ text[q - 3] = CR /\ text[q - 2] = LF /\ text[q - 1] = CR
                                  /\ text[q] = LF /\ text[q - 4].line = "data"
            BY <1>1, <3>1, EndsAtIs
        <3> QED BY <3>2, <3>3, <3>4, Zenon
    <2> QED BY <2>1 DEF Ends
<1> QED BY <1>3, <1>4 DEF Uncut, Complete, Ends, EndsAt, whole

-----------------------------------------------------------------------------
(* The body of a reply, packet by packet.                                  *)

\* The client reads n packets in a text, each as soon as it is complete.
Reads(text, n) ==
    /\ text \in Seq(Tokens) /\ NoDoubleCR(text) /\ (text # <<>> => Last(text) # CR)
    /\ \A p \in 0..Len(text) : Uncut(text, p).events = Run(0, Complete(text, p))
    /\ Uncut(text, Len(text)) = [events |-> Run(0, n), block |-> <<>>]
    /\ Complete(text, Len(text)) = n

LEMMA PieceRead ==
    ASSUME NEW text, NEW n, Reads(text, n), NEW piece \in Seq(Tokens), NoDoubleCR(piece),
           piece # <<>>, Last(piece) # CR, NEW m,
           NEW last \in Nat, last = Len(text) + Len(piece),
           \A i \in 1..Len(piece) : Uncut(text \o piece, Len(text) + i).events
                                      = Run(0, Complete(text \o piece, Len(text) + i)),
           Uncut(text \o piece, last) = [events |-> Run(0, m), block |-> <<>>],
           Complete(text \o piece, last) = m
    PROVE  Reads(text \o piece, m)
<1> DEFINE whole == text \o piece
<1>1. /\ text \in Seq(Tokens) /\ NoDoubleCR(text) /\ (text # <<>> => Last(text) # CR)
      /\ \A p \in 0..Len(text) : Uncut(text, p).events = Run(0, Complete(text, p))
    BY DEF Reads
<1>2. PICK l \in Nat, h \in Nat : l = Len(text) /\ h = Len(piece)
    BY <1>1
<1>3. /\ whole \in Seq(Tokens) /\ Len(whole) = l + h /\ h # 0 /\ whole # <<>>
      /\ \A k \in 1..l : whole[k] = text[k]
      /\ \A k \in 1..h : whole[l + k] = piece[k]
    BY <1>1, <1>2
<1>4. ASSUME NEW p \in 0..(l + h)
      PROVE  Uncut(whole, p).events = Run(0, Complete(whole, p))
    <2>1. CASE p \in 0..l
        <3>1. Uncut(whole, p) = Uncut(text, p) /\ Complete(whole, p) = Complete(text, p)
            BY <1>1, <1>2, <2>1, Prefix
        <3> HIDE DEF whole
        <3> QED BY <1>1, <1>2, <2>1, <3>1
    <2>2. CASE p \notin 0..l
        <3>1. PICK i \in 1..h : i = p - l
            BY <2>2
        <3>2. p = l + i
            BY <3>1
        <3> QED BY <1>2, <3>2
    <2> QED BY <2>1, <2>2
<1>5. Last(whole) # CR
    <2>1. Last(piece) = piece[h]
        BY <1>2 DEF Last
    <2>2. h \in 1..h
        BY <1>2, <1>3
    <2> HIDE DEF whole
    <2>3. Last(whole) = whole[l + h]
        BY <1>3 DEF Last
    <2> QED BY <1>3, <2>1, <2>2, <2>3
<1> HIDE DEF whole
<1>6. ASSUME NEW k \in 1..(l + h - 1) PROVE ~(whole[k] = CR /\ whole[k + 1] = CR)
    <2>1. CASE k + 1 <= l
        <3>1. k \in 1..(l - 1) /\ k \in 1..l /\ k + 1 \in 1..l
            BY <2>1
        <3> QED BY <1>1, <1>2, <1>3, <3>1 DEF NoDoubleCR
    <2>2. CASE k = l
        <3>1. k \in 1..l
            BY <2>2
        <3>2. Last(text) = whole[k] /\ text # <<>>
            BY <1>1, <1>2, <1>3, <2>2, <3>1 DEF Last
        <3> QED BY <1>1, <3>2
    <2>3. CASE k > l
        <3>1. PICK j \in 1..(h - 1) : j = k - l
            BY <2>3
        <3>2. j \in 1..h /\ j + 1 \in 1..h /\ k = l + j /\ k + 1 = l + (j + 1)
            BY <3>1
        <3> QED BY <1>2, <1>3, <3>2 DEF NoDoubleCR
    <2> QED BY <2>1, <2>2, <2>3
<1>7. NoDoubleCR(whole)
    BY <1>3, <1>6 DEF NoDoubleCR
<1>8. last = l + h
    BY <1>2
<1> QED BY <1>3, <1>4, <1>5, <1>7, <1>8 DEF Reads, whole

\* A line more, and a line end more.
LEMMA LineMore ==
    ASSUME NEW x \in Seq(Tokens), NEW t \in Tokens, NEW y, y = x \o <<t>>
    PROVE  /\ y \in Seq(Tokens) /\ Len(y) = Len(x) + 1 /\ y[Len(x) + 1] = t
           /\ \A k \in 1..Len(x) : y[k] = x[k]
OBVIOUS

LEMMA LineEndMore ==
    ASSUME NEW x \in Seq(Tokens), NEW y, y = x \o LineEnd
    PROVE  /\ y \in Seq(Tokens) /\ Len(y) = Len(x) + 2
           /\ y[Len(x) + 1] = CR /\ y[Len(x) + 2] = LF
           /\ \A k \in 1..Len(x) : y[k] = x[k]
<1>1. LineEnd \in Seq(Tokens) /\ Len(LineEnd) = 2 /\ LineEnd[1] = CR /\ LineEnd[2] = LF
    BY LineTokens DEF LineEnd
<1>2. PICK e \in Seq(Tokens), h \in Nat : e = LineEnd /\ h = Len(e) /\ h = 2
    BY <1>1
<1>3. PICK n \in Nat : n = Len(x)
    OBVIOUS
<1>4. /\ x \o e \in Seq(Tokens) /\ Len(x \o e) = Len(x) + Len(e)
      /\ \A k \in 1..Len(x) : (x \o e)[k] = x[k]
      /\ \A k \in 1..Len(e) : (x \o e)[Len(x) + k] = e[k]
    BY Joined
<1>5. y = x \o e
    BY <1>2
<1>6. /\ y \in Seq(Tokens) /\ Len(y) = n + h
      /\ \A k \in 1..n : y[k] = x[k]
      /\ \A k \in 1..h : y[n + k] = e[k]
    BY <1>2, <1>3, <1>4, <1>5, Zenon
<1>7. y[n + 1] = e[1] /\ y[n + 2] = e[2]
    BY <1>2, <1>6
<1>8. e[1] = CR /\ e[2] = LF
    BY <1>1, <1>2
<1> QED BY <1>2, <1>3, <1>6, <1>7, <1>8

LEMMA BlockIs ==
    ASSUME NEW k \in Nat
    PROVE  LET b == Block(k) IN
           /\ b \in Seq(Tokens) /\ Len(b) = 8
           /\ b[1] = EventLine(k) /\ b[2] = CR /\ b[3] = LF /\ b[4] = DataLine(k)
           /\ b[5] = CR /\ b[6] = LF /\ b[7] = CR /\ b[8] = LF
           /\ EventLine(k) \in Tokens /\ DataLine(k) \in Tokens
           /\ EventLine(k) \notin {CR, LF} /\ DataLine(k) \notin {CR, LF}
<1>1. /\ EventLine(k) \in Tokens /\ DataLine(k) \in Tokens
      /\ EventLine(k) \notin {CR, LF} /\ DataLine(k) \notin {CR, LF}
    BY DEF EventLine, DataLine, CR, LF, Tokens
<1>2. PICK e \in Tokens, d \in Tokens : e = EventLine(k) /\ d = DataLine(k)
    BY <1>1
<1>3. Block(k) = (<<e>> \o LineEnd) \o <<d>> \o LineEnd \o LineEnd
    BY <1>2 DEF Block
<1>4. <<e>> \in Seq(Tokens) /\ Len(<<e>>) = 1 /\ <<e>>[1] = e
    OBVIOUS
<1>w. PICK w \in Seq(Tokens) : w = <<e>> /\ Len(w) = 1 /\ w[1] = e
    BY <1>4
<1>5. PICK x : x = w \o LineEnd
    OBVIOUS
<1>6. x \in Seq(Tokens) /\ Len(x) = 3 /\ x[1] = e /\ x[2] = CR /\ x[3] = LF
    <2>1. /\ x \in Seq(Tokens) /\ Len(x) = 1 + 2 /\ x[1 + 1] = CR /\ x[1 + 2] = LF
          /\ \A i \in 1..1 : x[i] = w[i]
        BY <1>w, <1>5, LineEndMore
    <2> QED BY <1>w, <2>1
<1>7. PICK y : y = x \o <<d>>
    OBVIOUS
<1>8. y \in Seq(Tokens) /\ Len(y) = 4 /\ y[1] = e /\ y[2] = CR /\ y[3] = LF /\ y[4] = d
    <2>1. /\ y \in Seq(Tokens) /\ Len(y) = Len(x) + 1 /\ y[Len(x) + 1] = d
          /\ \A i \in 1..Len(x) : y[i] = x[i]
        <3>1. x \in Seq(Tokens)
            BY <1>6
        <3> QED BY <1>7, <3>1, LineMore
    <2>2. Len(x) = 3
        BY <1>6
    <2> QED BY <1>6, <2>1, <2>2
<1>9. PICK z : z = y \o LineEnd
    OBVIOUS
<1>10. /\ z \in Seq(Tokens) /\ Len(z) = 6 /\ z[1] = e /\ z[2] = CR /\ z[3] = LF /\ z[4] = d
       /\ z[5] = CR /\ z[6] = LF
    <2>1. /\ z \in Seq(Tokens) /\ Len(z) = Len(y) + 2 /\ z[Len(y) + 1] = CR /\ z[Len(y) + 2] = LF
          /\ \A i \in 1..Len(y) : z[i] = y[i]
        BY <1>8, <1>9, LineEndMore, Zenon
    <2>2. Len(y) = 4
        BY <1>8
    <2> QED BY <1>8, <2>1, <2>2
<1>a. PICK b : b = z \o LineEnd
    OBVIOUS
<1>11. /\ b \in Seq(Tokens) /\ Len(b) = 8 /\ b[1] = e /\ b[2] = CR /\ b[3] = LF /\ b[4] = d
       /\ b[5] = CR /\ b[6] = LF /\ b[7] = CR /\ b[8] = LF
    <2>1. /\ b \in Seq(Tokens) /\ Len(b) = Len(z) + 2 /\ b[Len(z) + 1] = CR /\ b[Len(z) + 2] = LF
          /\ \A i \in 1..Len(z) : b[i] = z[i]
        BY <1>10, <1>a, LineEndMore, Zenon
    <2>2. Len(z) = 6
        BY <1>10
    <2> QED BY <1>10, <2>1, <2>2
<1>12. Block(k) = b
    BY <1>3, <1>w, <1>5, <1>7, <1>9, <1>a
<1> QED BY <1>1, <1>2, <1>11, <1>12

LEMMA PingIs ==
    /\ Ping \in Seq(Tokens) /\ Len(Ping) = 5
    /\ Ping[1] = Comment /\ Ping[2] = CR /\ Ping[3] = LF /\ Ping[4] = CR /\ Ping[5] = LF
    /\ Comment \in Tokens /\ Comment \notin {CR, LF} /\ Comment.line # "data"
<1>1. Comment \in Tokens /\ Comment \notin {CR, LF} /\ Comment.line # "data"
    BY DEF Comment, CR, LF, Tokens
<1>2. PICK c \in Tokens : c = Comment
    BY <1>1
<1>a. <<c>> \in Seq(Tokens) /\ Len(<<c>>) = 1 /\ <<c>>[1] = c
    OBVIOUS
<1>w. PICK w \in Seq(Tokens) : w = <<c>> /\ Len(w) = 1 /\ w[1] = c
    BY <1>a
<1>3. PICK x : x = w \o LineEnd
    OBVIOUS
<1>4. x \in Seq(Tokens) /\ Len(x) = 3 /\ x[1] = c /\ x[2] = CR /\ x[3] = LF
    <2>1. /\ x \in Seq(Tokens) /\ Len(x) = 1 + 2 /\ x[1 + 1] = CR /\ x[1 + 2] = LF
          /\ \A i \in 1..1 : x[i] = w[i]
        BY <1>w, <1>3, LineEndMore
    <2> QED BY <1>w, <2>1
<1>5. PICK b : b = x \o LineEnd
    OBVIOUS
<1>6. /\ b \in Seq(Tokens) /\ Len(b) = 5 /\ b[1] = c /\ b[2] = CR /\ b[3] = LF
      /\ b[4] = CR /\ b[5] = LF
    <2>1. /\ b \in Seq(Tokens) /\ Len(b) = Len(x) + 2 /\ b[Len(x) + 1] = CR /\ b[Len(x) + 2] = LF
          /\ \A i \in 1..Len(x) : b[i] = x[i]
        BY <1>4, <1>5, LineEndMore, Zenon
    <2>2. Len(x) = 3
        BY <1>4
    <2> QED BY <1>4, <2>1, <2>2
<1>7. Ping = b
    BY <1>2, <1>w, <1>3, <1>5 DEF Ping
<1> QED BY <1>1, <1>2, <1>6, <1>7

LEMMA TookOther ==
    ASSUME NEW e, NEW b, NEW t, t # LF
    PROVE  Took([events |-> e, block |-> b], t) = [events |-> e, block |-> Append(b, t)]
BY TookOn

LEMMA TookLF ==
    ASSUME NEW e, NEW b \in Seq(Tokens), b # <<>> => Last(b) # LF
    PROVE  Took([events |-> e, block |-> Append(b, CR)], LF)
              = [events |-> e, block |-> Append(b, LF)]
BY TookLineEnd

\* One more packet's block is one more packet, at its last token and not before.
LEMMA BlockRead ==
    ASSUME NEW text, NEW n \in Nat, Reads(text, n)
    PROVE  Reads(text \o Block(n + 1), n + 1)
<1> DEFINE piece == Block(n + 1)
           whole == text \o piece
           E == EventLine(n + 1)
           D == DataLine(n + 1)
<1>1. text \in Seq(Tokens) /\ Complete(text, Len(text)) = n
      /\ Uncut(text, Len(text)) = [events |-> Run(0, n), block |-> <<>>]
    BY DEF Reads
<1>2. PICK l \in Nat : l = Len(text)
    BY <1>1
<1>3. /\ piece \in Seq(Tokens) /\ Len(piece) = 8
      /\ piece[1] = E /\ piece[2] = CR /\ piece[3] = LF /\ piece[4] = D
      /\ piece[5] = CR /\ piece[6] = LF /\ piece[7] = CR /\ piece[8] = LF
      /\ E \in Tokens /\ D \in Tokens /\ E \notin {CR, LF} /\ D \notin {CR, LF}
    BY BlockIs
<1>a. D.line = "data"
    BY DEF DataLine
<1> HIDE DEF piece, E, D
<1>4. /\ whole \in Seq(Tokens) /\ Len(whole) = l + 8
      /\ whole[l + 1] = E /\ whole[l + 2] = CR /\ whole[l + 3] = LF /\ whole[l + 4] = D
      /\ whole[l + 5] = CR /\ whole[l + 6] = LF /\ whole[l + 7] = CR /\ whole[l + 8] = LF
    <2>1. /\ whole \in Seq(Tokens) /\ Len(whole) = l + 8
          /\ \A k \in 1..8 : whole[l + k] = piece[k]
        <3>1. /\ text \o piece \in Seq(Tokens) /\ Len(text \o piece) = Len(text) + Len(piece)
              /\ \A k \in 1..Len(piece) : (text \o piece)[Len(text) + k] = piece[k]
            <4>1. text \in Seq(Tokens) /\ piece \in Seq(Tokens)
                BY <1>1, <1>3
            <4> QED BY <4>1, Joined
        <3>2. Len(text) = l /\ Len(piece) = 8
            BY <1>2, <1>3
        <3> QED BY <3>1, <3>2, Zenon
    <2> HIDE DEF whole
    <2>2. /\ whole[l + 1] = piece[1] /\ whole[l + 2] = piece[2] /\ whole[l + 3] = piece[3]
          /\ whole[l + 4] = piece[4] /\ whole[l + 5] = piece[5] /\ whole[l + 6] = piece[6]
          /\ whole[l + 7] = piece[7] /\ whole[l + 8] = piece[8]
        BY <2>1
    <2> QED BY <1>3, <2>1, <2>2
<1>5. Uncut(whole, l) = [events |-> Run(0, n), block |-> <<>>] /\ Complete(whole, l) = n
    <2>1. l \in 0..Len(text)
        BY <1>2
    <2>2. Uncut(whole, l) = Uncut(text, l) /\ Complete(whole, l) = Complete(text, l)
        BY <1>1, <1>3, <2>1, Prefix
    <2> HIDE DEF whole
    <2> QED BY <1>1, <1>2, <2>2
<1> HIDE DEF whole
\* The splitter.
<1>6. ASSUME NEW i \in 0..7 PROVE Uncut(whole, l + i + 1) = Took(Uncut(whole, l + i), whole[l + i + 1])
    BY <1>4, UncutStep
<1> DEFINE b1 == Append(<<>>, E)
           b2 == Append(b1, LF)
           b3 == Append(b2, D)
           R == Run(0, n)
<1>b. CR \in Tokens /\ LF \in Tokens /\ CR # LF
    BY LineTokens
<1>7. /\ b1 \in Seq(Tokens) /\ b1 # <<>> /\ Last(b1) = E
      /\ b2 \in Seq(Tokens) /\ b2 # <<>> /\ Last(b2) = LF
      /\ b3 \in Seq(Tokens) /\ b3 # <<>> /\ Last(b3) = D
    <2>1. <<>> \in Seq(Tokens)
        OBVIOUS
    <2>2. b1 \in Seq(Tokens) /\ b1 # <<>> /\ Last(b1) = E
        BY <1>3, <2>1, Appending
    <2> HIDE DEF b1
    <2>3. b2 \in Seq(Tokens) /\ b2 # <<>> /\ Last(b2) = LF
        BY <1>b, <2>2, Appending
    <2> HIDE DEF b2
    <2>4. b3 \in Seq(Tokens) /\ b3 # <<>> /\ Last(b3) = D
        BY <1>3, <2>3, Appending
    <2> QED BY <2>2, <2>3, <2>4
<1>8. Parsed(b3) = <<[event |-> n + 1, data |-> n + 1]>>
    BY ParsedLines DEF Lines, E, D
<1> HIDE DEF R
<1>9. /\ Uncut(whole, l + 1) = [events |-> R, block |-> b1]
      /\ Uncut(whole, l + 2) = [events |-> R, block |-> Append(b1, CR)]
    <2>1. Uncut(whole, l) = [events |-> R, block |-> <<>>]
        BY <1>5 DEF R
    <2>2. /\ Uncut(whole, l + 1) = Took(Uncut(whole, l), E)
          /\ Uncut(whole, l + 2) = Took(Uncut(whole, l + 1), CR)
        <3>1. Uncut(whole, l + 0 + 1) = Took(Uncut(whole, l + 0), whole[l + 0 + 1])
              /\ Uncut(whole, l + 1 + 1) = Took(Uncut(whole, l + 1), whole[l + 1 + 1])
            BY <1>6
        <3>2. l + 0 = l /\ l + 0 + 1 = l + 1 /\ l + 1 + 1 = l + 2
            OBVIOUS
        <3> QED BY <1>4, <3>1, <3>2
    <2>3. Uncut(whole, l + 1) = [events |-> R, block |-> b1]
        BY <2>1, <2>2, TookOn
    <2> HIDE DEF b1
    <2> QED BY <1>b, <2>2, <2>3, TookOther, Zenon
<1> HIDE DEF b1
<1>10. /\ Uncut(whole, l + 3) = [events |-> R, block |-> b2]
       /\ Uncut(whole, l + 4) = [events |-> R, block |-> b3]
    <2>2. /\ Uncut(whole, l + 3) = Took(Uncut(whole, l + 2), LF)
          /\ Uncut(whole, l + 4) = Took(Uncut(whole, l + 3), D)
        <3>1. Uncut(whole, l + 2 + 1) = Took(Uncut(whole, l + 2), whole[l + 2 + 1])
              /\ Uncut(whole, l + 3 + 1) = Took(Uncut(whole, l + 3), whole[l + 3 + 1])
            BY <1>6
        <3>2. l + 2 + 1 = l + 3 /\ l + 3 + 1 = l + 4
            OBVIOUS
        <3> QED BY <1>4, <3>1, <3>2
    <2>3. Uncut(whole, l + 3) = [events |-> R, block |-> b2]
        <3>1. b1 # <<>> => Last(b1) # LF
            BY <1>3, <1>7
        <3>2. b1 \in Seq(Tokens)
            BY <1>7
        <3>3. Took([events |-> R, block |-> Append(b1, CR)], LF) = [events |-> R, block |-> b2]
            BY <3>1, <3>2, TookLF
        <3>4. /\ Uncut(whole, l + 3) = Took(Uncut(whole, l + 2), LF)
              /\ Uncut(whole, l + 2) = [events |-> R, block |-> Append(b1, CR)]
            BY <1>9, <2>2
        <3> HIDE DEF b2
        <3> QED BY <3>3, <3>4
    <2> HIDE DEF b2
    <2>4. D # LF
        BY <1>3
    <2>5. Uncut(whole, l + 4) = [events |-> R, block |-> b3]
        BY <2>2, <2>3, <2>4, TookOther, Zenon
    <2> QED BY <2>3, <2>5
<1> HIDE DEF b2
<1>11. /\ Uncut(whole, l + 5) = [events |-> R, block |-> Append(b3, CR)]
       /\ Uncut(whole, l + 6) = [events |-> R, block |-> Append(b3, LF)]
    <2>2. /\ Uncut(whole, l + 5) = Took(Uncut(whole, l + 4), CR)
          /\ Uncut(whole, l + 6) = Took(Uncut(whole, l + 5), LF)
        <3>1. Uncut(whole, l + 4 + 1) = Took(Uncut(whole, l + 4), whole[l + 4 + 1])
              /\ Uncut(whole, l + 5 + 1) = Took(Uncut(whole, l + 5), whole[l + 5 + 1])
            BY <1>6
        <3>2. l + 4 + 1 = l + 5 /\ l + 5 + 1 = l + 6
            OBVIOUS
        <3> QED BY <1>4, <3>1, <3>2
    <2> HIDE DEF b3
    <2>3. Uncut(whole, l + 5) = [events |-> R, block |-> Append(b3, CR)]
        BY <1>b, <1>10, <2>2, TookOther, Zenon
    <2>4. b3 # <<>> => Last(b3) # LF
        BY <1>3, <1>7
    <2> QED BY <1>7, <2>2, <2>3, <2>4, TookLineEnd
<1> HIDE DEF b3
<1>12. /\ Uncut(whole, l + 7) = [events |-> R, block |-> Append(Append(b3, LF), CR)]
       /\ Uncut(whole, l + 8) = [events |-> R \o Parsed(b3), block |-> <<>>]
    <2>2. /\ Uncut(whole, l + 7) = Took(Uncut(whole, l + 6), CR)
          /\ Uncut(whole, l + 8) = Took(Uncut(whole, l + 7), LF)
        <3>1. Uncut(whole, l + 6 + 1) = Took(Uncut(whole, l + 6), whole[l + 6 + 1])
              /\ Uncut(whole, l + 7 + 1) = Took(Uncut(whole, l + 7), whole[l + 7 + 1])
            BY <1>6
        <3>2. l + 6 + 1 = l + 7 /\ l + 7 + 1 = l + 8
            OBVIOUS
        <3> QED BY <1>4, <3>1, <3>2
    <2>3. Uncut(whole, l + 7) = [events |-> R, block |-> Append(Append(b3, LF), CR)]
        BY <1>b, <1>11, <2>2, TookOther, Zenon
    <2> QED BY <1>7, <2>2, <2>3, TookBlockEnd
<1>13. R \o Parsed(b3) = Run(0, n + 1)
    <2> DEFINE e == [event |-> n + 1, data |-> n + 1]
               a == R \o <<e>>
               c == Run(0, n + 1)
    <2>0. e \in Events
        BY DEF Events
    <2>1. /\ R \in Seq(Events) /\ Len(R) = n
          /\ \A j \in 1..n : R[j] = [event |-> 0 + j, data |-> 0 + j]
        <3>1. R = [j \in 1..n |-> [event |-> 0 + j, data |-> 0 + j]]
            BY DEF R, Run
        <3>2. \A j \in 1..n : [event |-> 0 + j, data |-> 0 + j] \in Events
            BY DEF Events
        <3> QED BY <3>1, <3>2
    <2>2. /\ c \in Seq(Events) /\ Len(c) = n + 1
          /\ \A j \in 1..(n + 1) : c[j] = [event |-> 0 + j, data |-> 0 + j]
        <3>1. c = [j \in 1..(n + 1) |-> [event |-> 0 + j, data |-> 0 + j]]
            BY DEF Run
        <3>2. \A j \in 1..(n + 1) : [event |-> 0 + j, data |-> 0 + j] \in Events
            BY DEF Events
        <3> HIDE DEF c
        <3> QED BY <3>1, <3>2
    <2>3. e = [event |-> 0 + (n + 1), data |-> 0 + (n + 1)]
        OBVIOUS
    <2> HIDE DEF e, c
    <2>4. a \in Seq(Events) /\ Len(a) = n + 1 /\ a[n + 1] = e /\ \A j \in 1..n : a[j] = R[j]
        BY <2>0, <2>1
    <2> HIDE DEF a
    <2>5. \A j \in 1..(n + 1) : a[j] = c[j]
        <3>1. \A j \in 1..(n + 1) : j \in 1..n \/ j = n + 1
            OBVIOUS
        <3> QED BY <2>1, <2>2, <2>3, <2>4, <3>1
    <2>6. a = c
        BY <2>2, <2>4, <2>5, SeqEqual
    <2> QED BY <1>8, <2>6 DEF a, c, e
\* The count.
<1>14. ASSUME NEW i \in 0..7
       PROVE  LET ends == l + i + 1 >= 5 /\ EndsAt(whole, l + i + 1)
              IN  /\ ends => Complete(whole, l + i + 1) = Complete(whole, l + i) + 1
                  /\ ~ends => Complete(whole, l + i + 1) = Complete(whole, l + i)
    BY CompleteStep
<1>15. ASSUME NEW i \in 1..7 PROVE ~(l + i >= 5 /\ EndsAt(whole, l + i))
    <2> SUFFICES ASSUME l + i >= 5, EndsAt(whole, l + i) PROVE FALSE
        OBVIOUS
    <2>1. l + i \in 5..Len(whole)
        BY <1>4
    <2>2. whole[l + i - 2] = LF /\ whole[l + i] = LF
        BY <1>4, <2>1, EndsAtIs
    <2>3. i = 3 \/ i = 6
        <3>1. i \in {1, 2, 3, 4, 5, 6, 7}
            OBVIOUS
        <3> QED BY <1>3, <1>4, <1>b, <2>2, <3>1
    <2>4. l + 3 - 2 = l + 1 /\ l + 6 - 2 = l + 4
        OBVIOUS
    <2> QED BY <1>3, <1>4, <2>2, <2>3, <2>4
<1>16. l + 8 >= 5 /\ EndsAt(whole, l + 8)
    <2>1. l + 8 \in 5..Len(whole) /\ l + 8 - 1 = l + 7 /\ l + 8 - 2 = l + 6
          /\ l + 8 - 3 = l + 5 /\ l + 8 - 4 = l + 4
        BY <1>4
    <2> QED BY <1>4, <1>a, <2>1, EndsAtIs
<1>17. /\ Complete(whole, l + 1) = n /\ Complete(whole, l + 2) = n /\ Complete(whole, l + 3) = n
       /\ Complete(whole, l + 4) = n /\ Complete(whole, l + 5) = n /\ Complete(whole, l + 6) = n
       /\ Complete(whole, l + 7) = n
    <2>1. ASSUME NEW i \in 0..6 PROVE Complete(whole, l + (i + 1)) = Complete(whole, l + i)
        <3>1. i + 1 \in 1..7 /\ l + i + 1 = l + (i + 1)
            OBVIOUS
        <3>2. ~(l + (i + 1) >= 5 /\ EndsAt(whole, l + (i + 1)))
            BY <1>15, <3>1
        <3> QED BY <1>14, <3>1, <3>2
    <2>2. l + 0 = l /\ 0 + 1 = 1 /\ 1 + 1 = 2 /\ 2 + 1 = 3 /\ 3 + 1 = 4 /\ 4 + 1 = 5 /\ 5 + 1 = 6
          /\ 6 + 1 = 7
        OBVIOUS
    <2>3. /\ Complete(whole, l + (0 + 1)) = Complete(whole, l + 0)
          /\ Complete(whole, l + (1 + 1)) = Complete(whole, l + 1)
          /\ Complete(whole, l + (2 + 1)) = Complete(whole, l + 2)
          /\ Complete(whole, l + (3 + 1)) = Complete(whole, l + 3)
          /\ Complete(whole, l + (4 + 1)) = Complete(whole, l + 4)
          /\ Complete(whole, l + (5 + 1)) = Complete(whole, l + 5)
          /\ Complete(whole, l + (6 + 1)) = Complete(whole, l + 6)
        BY <2>1
    <2> QED BY <1>5, <2>2, <2>3
<1>18. Complete(whole, l + 8) = n + 1
    <2>1. 7 \in 0..7 /\ l + 7 + 1 = l + 8
        OBVIOUS
    <2> QED BY <1>14, <1>16, <1>17, <2>1
\* Together.
<1>19. ASSUME NEW i \in 1..8
       PROVE  Uncut(whole, l + i).events = Run(0, Complete(whole, l + i))
    <2>1. i \in {1, 2, 3, 4, 5, 6, 7, 8}
        OBVIOUS
    <2>2. CASE i = 8
        BY <1>12, <1>13, <1>18, <2>2
    <2>3. CASE i # 8
        <3>1. Uncut(whole, l + i).events = R
            BY <1>9, <1>10, <1>11, <1>12, <2>1, <2>3
        <3>2. Complete(whole, l + i) = n
            BY <1>17, <2>1, <2>3
        <3> QED BY <3>1, <3>2 DEF R
    <2> QED BY <2>2, <2>3
<1>20. NoDoubleCR(piece) /\ piece # <<>> /\ Last(piece) # CR
    <2>1. \A k \in 1..7 : k \in {1, 2, 3, 4, 5, 6, 7}
        OBVIOUS
    <2>2. NoDoubleCR(piece)
        BY <1>3, <1>b, <2>1 DEF NoDoubleCR
    <2>3. Last(piece) = piece[8] /\ piece # <<>>
        <3>1. Last(piece) = piece[Len(piece)]
            BY DEF Last
        <3>2. Len(piece) = 8 /\ Len(<<>>) = 0
            BY <1>3
        <3> QED BY <3>1, <3>2
    <2> QED BY <1>3, <1>b, <2>2, <2>3
<1>21. l + 8 \in Nat /\ l + 8 = Len(text) + Len(piece) /\ Len(piece) = 8
    BY <1>2, <1>3
<1>22. Uncut(whole, l + 8) = [events |-> Run(0, n + 1), block |-> <<>>]
    BY <1>12, <1>13
<1>23. Reads(text \o piece, n + 1)
    <2>1. \A i \in 1..Len(piece) : Uncut(text \o piece, Len(text) + i).events
                                      = Run(0, Complete(text \o piece, Len(text) + i))
        BY <1>2, <1>19, <1>21 DEF whole
    <2>2. /\ Uncut(text \o piece, l + 8) = [events |-> Run(0, n + 1), block |-> <<>>]
          /\ Complete(text \o piece, l + 8) = n + 1
        BY <1>18, <1>22 DEF whole
    <2> QED BY <1>3, <1>20, <1>21, <2>1, <2>2, PieceRead
<1> QED BY <1>23 DEF piece

\* A keep-alive between two packets is read, and is none.
LEMMA PingRead ==
    ASSUME NEW text, NEW n \in Nat, Reads(text, n) PROVE Reads(text \o Ping, n)
<1> DEFINE whole == text \o Ping
<1>1. text \in Seq(Tokens) /\ Complete(text, Len(text)) = n
      /\ Uncut(text, Len(text)) = [events |-> Run(0, n), block |-> <<>>]
    BY DEF Reads
<1>2. PICK l \in Nat : l = Len(text)
    BY <1>1
<1>3. PICK piece \in Seq(Tokens) :
        /\ piece = Ping /\ Len(piece) = 5
        /\ piece[1] = Comment /\ piece[2] = CR /\ piece[3] = LF /\ piece[4] = CR /\ piece[5] = LF
    BY PingIs
<1>b. /\ CR \in Tokens /\ LF \in Tokens /\ CR # LF
      /\ Comment \in Tokens /\ Comment # CR /\ Comment # LF /\ Comment.line # "data"
    BY LineTokens, PingIs
<1>4. /\ whole \in Seq(Tokens) /\ Len(whole) = l + 5
      /\ whole[l + 1] = Comment /\ whole[l + 2] = CR /\ whole[l + 3] = LF
      /\ whole[l + 4] = CR /\ whole[l + 5] = LF
    <2>1. /\ whole \in Seq(Tokens) /\ Len(whole) = l + 5
          /\ \A k \in 1..5 : whole[l + k] = piece[k]
        <3>1. /\ text \o piece \in Seq(Tokens) /\ Len(text \o piece) = Len(text) + Len(piece)
              /\ \A k \in 1..Len(piece) : (text \o piece)[Len(text) + k] = piece[k]
            BY <1>1, Joined
        <3>2. Len(text) = l /\ Len(piece) = 5
            BY <1>2, <1>3
        <3> QED BY <1>3, <3>1, <3>2, Zenon
    <2> HIDE DEF whole
    <2>2. /\ whole[l + 1] = piece[1] /\ whole[l + 2] = piece[2] /\ whole[l + 3] = piece[3]
          /\ whole[l + 4] = piece[4] /\ whole[l + 5] = piece[5]
        BY <2>1
    <2> QED BY <1>3, <2>1, <2>2
<1>5. Uncut(whole, l) = [events |-> Run(0, n), block |-> <<>>] /\ Complete(whole, l) = n
    <2>1. l \in 0..Len(text)
        BY <1>2
    <2>2. Uncut(whole, l) = Uncut(text, l) /\ Complete(whole, l) = Complete(text, l)
        BY <1>1, <1>3, <2>1, Prefix
    <2> HIDE DEF whole
    <2> QED BY <1>1, <1>2, <2>2
<1> HIDE DEF whole
\* The splitter.
<1>6. ASSUME NEW i \in 0..4
      PROVE  Uncut(whole, l + i + 1) = Took(Uncut(whole, l + i), whole[l + i + 1])
    <2>1. PICK q \in Nat : q = l + i /\ q < Len(whole)
        BY <1>4
    <2>2. Uncut(whole, q + 1) = Took(Uncut(whole, q), whole[q + 1])
        BY <1>4, <2>1, UncutStep
    <2> QED BY <2>1, <2>2
<1> DEFINE c == Append(<<>>, Comment)
           R == Run(0, n)
<1>7. c \in Seq(Tokens) /\ c # <<>> /\ Last(c) = Comment /\ Parsed(c) = <<>>
    <2>1. <<>> \in Seq(Tokens)
        OBVIOUS
    <2> QED BY <1>b, <2>1, Appending, ParsedComment
<1>8. R \in Seq(Events)
    <2>1. R = [j \in 1..n |-> [event |-> 0 + j, data |-> 0 + j]]
        BY DEF Run
    <2>2. \A j \in 1..n : [event |-> 0 + j, data |-> 0 + j] \in Events
        BY DEF Events
    <2> QED BY <2>1, <2>2
<1> HIDE DEF R
<1>9. /\ Uncut(whole, l + 1) = Took(Uncut(whole, l), Comment)
      /\ Uncut(whole, l + 2) = Took(Uncut(whole, l + 1), CR)
      /\ Uncut(whole, l + 3) = Took(Uncut(whole, l + 2), LF)
      /\ Uncut(whole, l + 4) = Took(Uncut(whole, l + 3), CR)
      /\ Uncut(whole, l + 5) = Took(Uncut(whole, l + 4), LF)
    <2>1. /\ Uncut(whole, l + 0 + 1) = Took(Uncut(whole, l + 0), whole[l + 0 + 1])
          /\ Uncut(whole, l + 1 + 1) = Took(Uncut(whole, l + 1), whole[l + 1 + 1])
          /\ Uncut(whole, l + 2 + 1) = Took(Uncut(whole, l + 2), whole[l + 2 + 1])
          /\ Uncut(whole, l + 3 + 1) = Took(Uncut(whole, l + 3), whole[l + 3 + 1])
          /\ Uncut(whole, l + 4 + 1) = Took(Uncut(whole, l + 4), whole[l + 4 + 1])
        BY <1>6
    <2>2. l + 0 = l /\ l + 0 + 1 = l + 1 /\ l + 1 + 1 = l + 2 /\ l + 2 + 1 = l + 3
          /\ l + 3 + 1 = l + 4 /\ l + 4 + 1 = l + 5
        OBVIOUS
    <2> QED BY <1>4, <2>1, <2>2
<1>10. Uncut(whole, l + 1) = [events |-> R, block |-> c]
    <2>1. Uncut(whole, l) = [events |-> R, block |-> <<>>]
        BY <1>5 DEF R
    <2> QED BY <1>9, <2>1, TookOn
<1> HIDE DEF c
<1>11. Uncut(whole, l + 2) = [events |-> R, block |-> Append(c, CR)]
    BY <1>b, <1>9, <1>10, TookOther, Zenon
<1>12. Uncut(whole, l + 3) = [events |-> R, block |-> Append(c, LF)]
    <2>1. c \in Seq(Tokens) /\ (c # <<>> => Last(c) # LF)
        BY <1>b, <1>7
    <2>2. Took([events |-> R, block |-> Append(c, CR)], LF) = [events |-> R, block |-> Append(c, LF)]
        BY <2>1, TookLF
    <2> QED BY <1>9, <1>11, <2>2, Zenon
<1>13. Uncut(whole, l + 4) = [events |-> R, block |-> Append(Append(c, LF), CR)]
    BY <1>b, <1>9, <1>12, TookOther, Zenon
<1>14. Uncut(whole, l + 5) = [events |-> R, block |-> <<>>]
    <2>1. Took(Uncut(whole, l + 4), LF) = [events |-> R \o Parsed(c), block |-> <<>>]
        BY <1>7, <1>13, TookBlockEnd
    <2>2. R \o <<>> = R
        BY <1>8, ConcatEmptySeq
    <2> QED BY <1>7, <1>9, <2>1, <2>2
\* The count.
<1>15. ASSUME NEW i \in 1..5 PROVE ~(l + i >= 5 /\ EndsAt(whole, l + i))
    <2> SUFFICES ASSUME l + i >= 5, EndsAt(whole, l + i) PROVE FALSE
        OBVIOUS
    <2>1. l + i \in 5..Len(whole)
        BY <1>4
    <2>2. /\ whole[l + i - 2] = LF /\ whole[l + i] = LF
          /\ whole[l + i - 4].line = "data"
        BY <1>4, <2>1, EndsAtIs
    <2>3. i = 3 \/ i = 5
        <3>1. i \in {1, 2, 3, 4, 5}
            OBVIOUS
        <3> QED BY <1>4, <1>b, <2>2, <3>1
    <2>4. l + 3 - 2 = l + 1 /\ l + 5 - 4 = l + 1
        OBVIOUS
    <2> QED BY <1>4, <1>b, <2>2, <2>3, <2>4
<1>16. ASSUME NEW i \in 0..4 PROVE Complete(whole, l + (i + 1)) = Complete(whole, l + i)
    <2>1. i + 1 \in 1..5 /\ l + i + 1 = l + (i + 1)
        OBVIOUS
    <2>2. ~(l + (i + 1) >= 5 /\ EndsAt(whole, l + (i + 1)))
        BY <1>15, <2>1
    <2> QED BY <2>1, <2>2, CompleteStep
<1>17. /\ Complete(whole, l + 1) = n /\ Complete(whole, l + 2) = n /\ Complete(whole, l + 3) = n
       /\ Complete(whole, l + 4) = n /\ Complete(whole, l + 5) = n
    <2>1. l + 0 = l /\ 0 + 1 = 1 /\ 1 + 1 = 2 /\ 2 + 1 = 3 /\ 3 + 1 = 4 /\ 4 + 1 = 5
        OBVIOUS
    <2>2. /\ Complete(whole, l + (0 + 1)) = Complete(whole, l + 0)
          /\ Complete(whole, l + (1 + 1)) = Complete(whole, l + 1)
          /\ Complete(whole, l + (2 + 1)) = Complete(whole, l + 2)
          /\ Complete(whole, l + (3 + 1)) = Complete(whole, l + 3)
          /\ Complete(whole, l + (4 + 1)) = Complete(whole, l + 4)
        BY <1>16
    <2> QED BY <1>5, <2>1, <2>2
\* Together.
<1>18. ASSUME NEW i \in 1..5
       PROVE  Uncut(whole, l + i).events = Run(0, Complete(whole, l + i))
    <2>1. i \in {1, 2, 3, 4, 5}
        OBVIOUS
    <2>2. Uncut(whole, l + i).events = R
        BY <1>10, <1>11, <1>12, <1>13, <1>14, <2>1
    <2>3. Complete(whole, l + i) = n
        BY <1>17, <2>1
    <2> QED BY <2>2, <2>3 DEF R
<1>19. NoDoubleCR(piece) /\ piece # <<>> /\ Last(piece) # CR
    <2>1. \A k \in 1..4 : k \in {1, 2, 3, 4}
        OBVIOUS
    <2>2. NoDoubleCR(piece)
        BY <1>3, <1>b, <2>1 DEF NoDoubleCR
    <2>3. Last(piece) = piece[5] /\ piece # <<>>
        <3>1. Last(piece) = piece[Len(piece)]
            BY DEF Last
        <3>2. Len(piece) = 5 /\ Len(<<>>) = 0
            BY <1>3
        <3> QED BY <3>1, <3>2
    <2> QED BY <1>3, <1>b, <2>2, <2>3
<1>20. l + 5 \in Nat /\ l + 5 = Len(text) + Len(piece) /\ Len(piece) = 5
    BY <1>2, <1>3
<1>21. Reads(text \o piece, n)
    <2>0. whole = text \o piece
        BY <1>3 DEF whole
    <2>1. \A i \in 1..Len(piece) : Uncut(text \o piece, Len(text) + i).events
                                      = Run(0, Complete(text \o piece, Len(text) + i))
        BY <1>2, <1>18, <1>20, <2>0
    <2>2. /\ Uncut(text \o piece, l + 5) = [events |-> Run(0, n), block |-> <<>>]
          /\ Complete(text \o piece, l + 5) = n
        BY <1>14, <1>17, <2>0 DEF R
    <2> QED BY <1>19, <1>20, <2>1, <2>2, PieceRead
<1> QED BY <1>3, <1>21

\* The pieces of a body.
Pieces(n) == [k \in 1..n |-> IF k = 1 THEN Block(k) \o Ping ELSE Block(k)]

LEMMA PiecesGrow ==
    ASSUME NEW n \in Nat
    PROVE  LET piece == IF n = 0 THEN Block(n + 1) \o Ping ELSE Block(n + 1)
           IN  /\ Pieces(n) \in Seq(Seq(Tokens)) /\ piece \in Seq(Tokens)
               /\ Pieces(n + 1) = Append(Pieces(n), piece)
<1> DEFINE p(k) == IF k = 1 THEN Block(k) \o Ping ELSE Block(k)
           a == Pieces(n)
           b == Append(a, p(n + 1))
           c == Pieces(n + 1)
<1>1. \A k \in Nat : p(k) \in Seq(Tokens)
    <2>1. Ping \in Seq(Tokens) /\ \A k \in Nat : Block(k) \in Seq(Tokens)
        BY PingIs, BlockIs
    <2> QED BY <2>1
<1>2. a = [k \in 1..n |-> p(k)] /\ c = [k \in 1..(n + 1) |-> p(k)]
    BY DEF Pieces
<1>3. n + 1 = 1 <=> n = 0
    OBVIOUS
<1>4. p(n + 1) = IF n = 0 THEN Block(n + 1) \o Ping ELSE Block(n + 1)
    BY <1>3
<1> HIDE DEF p, a, c
<1>5. a \in Seq(Seq(Tokens)) /\ Len(a) = n /\ \A k \in 1..n : a[k] = p(k)
    BY <1>1, <1>2
<1>6. c \in Seq(Seq(Tokens)) /\ Len(c) = n + 1 /\ \A k \in 1..(n + 1) : c[k] = p(k)
    BY <1>1, <1>2
<1>7. p(n + 1) \in Seq(Tokens)
    BY <1>1
<1>8. /\ b \in Seq(Seq(Tokens)) /\ Len(b) = n + 1 /\ b[n + 1] = p(n + 1)
      /\ \A k \in 1..n : b[k] = a[k]
    BY <1>5, <1>7
<1> HIDE DEF b
<1>9. \A k \in 1..(n + 1) : b[k] = c[k]
    <2>1. \A k \in 1..(n + 1) : k \in 1..n \/ k = n + 1
        OBVIOUS
    <2> QED BY <1>5, <1>6, <1>8, <2>1
<1>10. b = c
    BY <1>6, <1>8, <1>9, SeqEqual
<1> QED BY <1>4, <1>5, <1>7, <1>10 DEF a, b, c

\* A body is read as its packets.
LEMMA BodyRead == ASSUME NEW n \in Nat PROVE Reads(Body(n), n)
<1> DEFINE P == {k \in 0..n : Reads(Body(k), k)}
<1>0. \A k : Body(k) = FlattenSeq(Pieces(k))
    BY DEF Body, Pieces
<1>1. 0 \in P
    <2>1. Pieces(0) = <<>>
        BY DEF Pieces
    <2>2. Body(0) = <<>>
        BY <1>0, <2>1, FlattenNothing
    <2>3. Run(0, 0) = <<>>
        BY DEF Run
    <2>4. Uncut(<<>>, 0) = [events |-> <<>>, block |-> <<>>] /\ Complete(<<>>, 0) = 0
        BY UncutStart, CompleteStart DEF Nothing
    <2>5. \A p \in 0..Len(<<>>) : p = 0
        OBVIOUS
    <2>6. <<>> \in Seq(Tokens) /\ Len(<<>>) = 0 /\ NoDoubleCR(<<>>)
        BY DEF NoDoubleCR
    <2>7. Reads(<<>>, 0)
        BY <2>3, <2>4, <2>5, <2>6 DEF Reads
    <2> QED BY <2>2, <2>7
<1>2. ASSUME NEW k \in 0..(n - 1), k \in P PROVE k + 1 \in P
    <2> DEFINE piece == IF k = 0 THEN Block(k + 1) \o Ping ELSE Block(k + 1)
    <2>1. k \in Nat /\ k + 1 \in 0..n /\ Reads(Body(k), k)
        BY <1>2
    <2>2. /\ Pieces(k) \in Seq(Seq(Tokens)) /\ piece \in Seq(Tokens)
          /\ Pieces(k + 1) = Append(Pieces(k), piece)
        BY <2>1, PiecesGrow
    <2>3. Body(k + 1) = Body(k) \o piece
        <3> HIDE DEF piece
        <3> QED BY <1>0, <2>2, FlattenAppend
    <2>4. Reads(Body(k) \o Block(k + 1), k + 1)
        BY <2>1, BlockRead
    <2>5. CASE k = 0
        <3>1. Reads((Body(k) \o Block(k + 1)) \o Ping, k + 1)
            BY <2>1, <2>4, PingRead
        <3>2. (Body(k) \o Block(k + 1)) \o Ping = Body(k) \o (Block(k + 1) \o Ping)
            <4>1. PICK a \in Seq(Tokens), b \in Seq(Tokens), c \in Seq(Tokens) :
                     a = Body(k) /\ b = Block(k + 1) /\ c = Ping
                BY <2>1, BlockIs, PingIs DEF Reads
            <4>2. (a \o b) \o c = a \o (b \o c)
                BY Regroup
            <4> QED BY <4>1, <4>2
        <3>3. piece = Block(k + 1) \o Ping
            BY <2>5
        <3> HIDE DEF piece
        <3>4. Reads(Body(k + 1), k + 1)
            BY <2>3, <3>1, <3>2, <3>3
        <3> QED BY <2>1, <3>4
    <2>6. CASE k # 0
        <3>1. piece = Block(k + 1)
            BY <2>6
        <3> HIDE DEF piece
        <3>2. Reads(Body(k + 1), k + 1)
            BY <2>3, <2>4, <3>1
        <3> QED BY <2>1, <3>2
    <2> QED BY <2>5, <2>6
<1> HIDE DEF P
<1>3. n \in P
    <2>1. 0..n \subseteq P
        BY <1>1, <1>2, Induction
    <2> QED BY <2>1
<1> QED BY <1>3 DEF P

\* The packets k + 1..m are what the packets 0 + 1..m have more than 0 + 1..k.
LEMMA RunFrom ==
    ASSUME NEW k \in Nat, NEW m \in Nat, NEW e \in Seq(Events), Run(0, m) = Run(0, k) \o e
    PROVE  e = Run(k, m)
<1>2. ASSUME NEW i \in Nat
      PROVE  /\ Run(0, i) \in Seq(Events) /\ Len(Run(0, i)) = i
             /\ \A j \in 1..i : Run(0, i)[j] = [event |-> 0 + j, data |-> 0 + j]
    <2>1. Run(0, i) = [j \in 1..i |-> [event |-> 0 + j, data |-> 0 + j]]
        BY DEF Run
    <2>2. \A j \in 1..i : [event |-> 0 + j, data |-> 0 + j] \in Events
        BY DEF Events
    <2> QED BY <2>1, <2>2
<1>3. PICK a \in Seq(Events), b \in Seq(Events) : a = Run(0, k) /\ b = Run(0, m) /\ b = a \o e
    BY <1>2
<1>4. PICK h \in Nat : h = Len(e)
    OBVIOUS
<1>5. Len(a) = k /\ Len(b) = m
    BY <1>2, <1>3
<1>6. m = k + h /\ \A j \in 1..h : b[k + j] = e[j]
    <2>1. /\ Len(a \o e) = Len(a) + Len(e)
          /\ \A j \in 1..Len(e) : (a \o e)[Len(a) + j] = e[j]
        BY Joined
    <2> QED BY <1>3, <1>4, <1>5, <2>1
<1>7. ASSUME NEW j \in 1..h PROVE e[j] = [event |-> k + j, data |-> k + j]
    <2>1. k + j \in 1..m /\ 0 + (k + j) = k + j
        BY <1>6
    <2>2. b[k + j] = [event |-> 0 + (k + j), data |-> 0 + (k + j)]
        BY <1>2, <1>3, <2>1
    <2> QED BY <1>6, <2>1, <2>2
<1>8. m - k = h
    BY <1>6
<1>9. Run(k, m) = [j \in 1..h |-> [event |-> k + j, data |-> k + j]]
    BY <1>8 DEF Run
<1>10. Run(k, m) \in Seq(Events) /\ Len(Run(k, m)) = h
       /\ \A j \in 1..h : Run(k, m)[j] = [event |-> k + j, data |-> k + j]
    <2>1. \A j \in 1..h : [event |-> k + j, data |-> k + j] \in Events
        BY DEF Events
    <2>2. PICK r : r = Run(k, m) /\ r = [j \in 1..h |-> [event |-> k + j, data |-> k + j]]
        BY <1>9
    <2>3. r \in Seq(Events)
        <3>1. r \in [1..h -> Events]
            BY <2>1, <2>2, Zenon
        <3> QED BY <3>1
    <2>4. Len(r) = h /\ \A j \in 1..h : r[j] = [event |-> k + j, data |-> k + j]
        BY <2>2
    <2> QED BY <2>2, <2>3, <2>4, Zenon
<1> QED BY <1>4, <1>7, <1>10, SeqEqual

(***************************************************************************)
(* Wherever a body of any number of packets is cut, and whatever the       *)
(* client has received of it, the next chunk brings the packets that have  *)
(* become complete, each once and with its own data.                       *)
(***************************************************************************)
THEOREM CutsNeverShow == \A n \in Nat, k \in Nat : CutsDoNotShow(Body(n), k)
<1> SUFFICES ASSUME NEW n \in Nat, NEW k \in Nat PROVE CutsDoNotShow(Body(n), k)
    OBVIOUS
<1>1. PICK text : text = Body(n)
    OBVIOUS
<1>2. /\ text \in Seq(Tokens) /\ NoDoubleCR(text)
      /\ \A p \in 0..Len(text) : Uncut(text, p).events = Run(0, Complete(text, p))
    BY <1>1, BodyRead DEF Reads
<1>3. ASSUME NEW p \in 0..Len(text), Complete(text, p) = k, NEW q \in p..Len(text)
      PROVE  LET next == SplitSseBlocks(SubSeq(text, p + 1, q), Uncut(text, p).block) IN
             /\ next.events = Run(k, Complete(text, q))
             /\ next.block = Uncut(text, q).block
    <2> DEFINE next == SplitSseBlocks(SubSeq(text, p + 1, q), Uncut(text, p).block)
    <2>1. /\ Uncut(text, q).events = Uncut(text, p).events \o next.events
          /\ Uncut(text, q).block = next.block
        BY <1>2, CutsAreSeamless
    <2>2. q \in 0..Len(text) /\ q \in Nat /\ Len(text) \in Nat
        BY <1>2
    <2>3. next.events \in Seq(Events)
        <3>1. Uncut(text, p).block \in Seq(Tokens)
            BY <1>2, UncutClean DEF Splits
        <3>2. SubSeq(text, p + 1, q) \in Seq(Tokens)
            BY <1>2, <2>2
        <3>3. next \in Splits
            BY <3>1, <3>2, TookStep, LineTokens
        <3> HIDE DEF next
        <3> QED BY <3>3 DEF Splits
    <2>4. Complete(text, q) \in Nat
        BY <2>2, CompleteStep
    <2> HIDE DEF next
    <2>5. Run(0, Complete(text, q)) = Run(0, k) \o next.events
        BY <1>2, <1>3, <2>1, <2>2
    <2>6. next.events = Run(k, Complete(text, q))
        BY <2>3, <2>4, <2>5, RunFrom
    <2> QED BY <2>1, <2>6 DEF next
<1>4. CutsDoNotShow(text, k)
    BY <1>2, <1>3 DEF CutsDoNotShow, Uncut
<1> QED BY <1>1, <1>4

\* The chunks of an open stream bring the packets it has not received, none twice,
\* none lost, none merged with its neighbour, for a reply of any length.
THEOREM ChunksRight == Spec => []ChunksArePackets
<1>1. TypeOK => ChunksArePackets
    <2> SUFFICES ASSUME TypeOK, NEW x \in Sends, stream[x].pc = "open"
                 PROVE  WireAfter[stream[x].received]
        BY DEF ChunksArePackets
    <2>1. stream[x] \in Stream
        BY DEF TypeOK
    <2>2. stream[x].received \in 0..Packets
        BY <2>1 DEF Stream
    <2>3. Packets + 1 \in Nat
        BY PacketsAssumption
    <2>4. stream[x].received \in Nat
        BY <2>2, PacketsAssumption
    <2>5. CutsDoNotShow(Body(Packets + 1), stream[x].received)
        BY <2>3, <2>4, CutsNeverShow
    <2> HIDE DEF CutsDoNotShow
    <2> QED BY <2>2, <2>5 DEF WireAfter
<1> QED BY <1>1, TypeCorrect, PTL
=============================================================================
