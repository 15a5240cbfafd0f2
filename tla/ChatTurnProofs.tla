---------------------------- MODULE ChatTurnProofs ----------------------------
(***************************************************************************)
(* Theorems about ChatTurn, for any turns, posts and texts, and about      *)
(* ChatHistory, for any finite sets of turns and posts and any             *)
(* chat_history_turns.                                                     *)
(***************************************************************************)
EXTENDS ChatHistory, SequenceLemmas, FiniteSetTheorems

(***************************************************************************)
(* What makes a finish packet honest is decided well before it is sent: by *)
(* the INSERT for a fresh reply, by the lookup for a replay.  Backed says  *)
(* of an id what FinishIsStored says of a finished one; the strengthening  *)
(* is that every stream that may still finish already has a backed id, and *)
(* that a stream before its INSERT has no row under its own id.            *)
(***************************************************************************)
Backed(a, t) ==
    /\ a \in Posts /\ replies[a] # None /\ replies[a].turn = t
    /\ ~closed => LiveReply(a)

StreamBacked(p, q) ==
    /\ q.answer # None => q.pc = "done" /\ Backed(q.answer, q.turn)
    /\ q.pc = "replay" => Backed(q.reply, q.turn)
    /\ q.pc = "finish" => Backed(p, q.turn)
    /\ q.pc \notin {"finish", "done"} => replies[p] = None
    /\ q.pc # "new" => q.turn \in Turns

StreamsBacked == \A p \in Posts : StreamBacked(p, post[p])

AnsweredBefore == \A p \in Posts : \A q \in post[p].answered : post[q].answer # None

MarkedExist == marked # None => \A a \in marked.replies : replies[a] # None

IInv ==
    /\ TypeOK
    /\ MarkedExist
    /\ OneLiveReply
    /\ StreamsBacked
    /\ AnsweredBefore
    /\ AnsweredTurnIsReplayed

-----------------------------------------------------------------------------
LEMMA NewType == New \in Post /\ New.pc = "new" /\ New.answer = None /\ New.answered = {}
BY DEF New, Post, Pcs, Outcomes

LEMMA InitIInv == Init => IInv
<1> SUFFICES ASSUME Init PROVE IInv
    OBVIOUS
<1>1. \A p \in Posts : post[p] = New /\ replies[p] = None
    BY DEF Init
<1>2. TypeOK
    BY NewType DEF Init, TypeOK
<1>3. OneLiveReply
    BY <1>1 DEF OneLiveReply, LiveReply
<1>4. StreamsBacked
    BY <1>1, NewType DEF StreamsBacked, StreamBacked
<1>5. AnsweredBefore /\ AnsweredTurnIsReplayed
    BY <1>1, NewType DEF AnsweredBefore, AnsweredTurnIsReplayed
<1>6. MarkedExist
    BY DEF Init, MarkedExist
<1> QED BY <1>2, <1>3, <1>4, <1>5, <1>6 DEF IInv

\* A step of one post that writes no message keeps the invariant if its new
\* record does.
LEMMA PostStep ==
    ASSUME IInv, NEW p \in Posts, NEW new \in Post,
           post' = [post EXCEPT ![p] = new],
           UNCHANGED <<closed, replies, marked>>,
           asked' \in [Turns -> {"none", "live", "deleted"}],
           memories' \in [Turns -> SUBSET Texts],
           post[p].answer = None,
           StreamBacked(p, new),
           \A q \in new.answered : post[q].answer # None,
           \A q \in new.answered :
               ~closed /\ post[q].turn = new.turn => new.pc \notin {"run", "persist", "finish"}
    PROVE  IInv'
<1>1. post'[p] = new /\ \A q \in Posts \ {p} : post'[q] = post[q]
    BY DEF IInv, TypeOK
<1>2. TypeOK'
    BY DEF IInv, TypeOK
<1>3. OneLiveReply'
    BY DEF IInv, OneLiveReply, LiveReply
<1>4. StreamsBacked'
    BY <1>1 DEF IInv, StreamsBacked, StreamBacked, Backed, LiveReply
<1>5. \A q \in Posts : post[q].answer # None => q # p /\ post'[q] = post[q]
    BY <1>1
<1>6. \A q \in Posts : post[q].answered \subseteq Posts
    BY DEF IInv, TypeOK, Post
<1>7. new.answered \subseteq Posts
    BY DEF Post
<1>8. AnsweredBefore'
    BY <1>1, <1>5, <1>6, <1>7 DEF IInv, AnsweredBefore
<1>9. AnsweredTurnIsReplayed'
    BY <1>1, <1>5, <1>6, <1>7 DEF IInv, AnsweredBefore, AnsweredTurnIsReplayed
<1>10. MarkedExist'
    BY DEF IInv, MarkedExist
<1> QED BY <1>2, <1>3, <1>4, <1>8, <1>9, <1>10 DEF IInv

\* A post that is still under way.
LEMMA UnderWay ==
    ASSUME IInv, NEW p \in Posts, post[p].pc # "done"
    PROVE  /\ post[p] \in Post /\ post[p].answer = None
           /\ \A q \in post[p].answered : q \in Posts /\ post[q].answer # None
           /\ post[p].pc \notin {"finish", "done"} => replies[p] = None
           /\ post[p].pc # "new" => post[p].turn \in Turns
           /\ post[p].pc = "replay" => Backed(post[p].reply, post[p].turn)
           /\ post[p].pc = "finish" => Backed(p, post[p].turn)
BY DEF IInv, TypeOK, Post, StreamsBacked, StreamBacked, AnsweredBefore

\* Moving a post under way on to its next place.
LEMMA MoveStep ==
    ASSUME IInv, NEW p \in Posts, post[p].pc \notin {"new", "done"},
           NEW pc \in Pcs, NEW outcome \in Outcomes, NEW reply \in Posts \cup {None},
           post' = [post EXCEPT ![p] =
                       [post[p] EXCEPT !.pc = pc, !.outcome = outcome, !.reply = reply]],
           UNCHANGED <<closed, replies, marked>>,
           asked' \in [Turns -> {"none", "live", "deleted"}],
           memories' \in [Turns -> SUBSET Texts],
           pc # "new",
           pc = "replay" => Backed(reply, post[p].turn),
           pc = "finish" => post[p].pc = "finish",
           pc = "done" \/ post[p].pc # "finish",
           pc \in {"run", "persist"} =>
               \/ post[p].pc \in {"run", "persist"}
               \/ LiveReplies(post[p].turn) = {}
    PROVE  IInv'
<1> DEFINE new == [post[p] EXCEPT !.pc = pc, !.outcome = outcome, !.reply = reply]
<1>1. /\ new \in Post /\ new.pc = pc /\ new.turn = post[p].turn
      /\ new.answer = None /\ new.reply = reply /\ new.answered = post[p].answered
    BY UnderWay DEF Post
<1>2. post' = [post EXCEPT ![p] = new]
    OBVIOUS
<1> HIDE DEF new
<1>3. StreamBacked(p, new)
    BY <1>1, UnderWay DEF StreamBacked
<1>4. ASSUME NEW q \in new.answered, ~closed, post[q].turn = new.turn
      PROVE  pc \notin {"run", "persist", "finish"}
    <2>1. q \in Posts /\ post[q].answer # None /\ q \in post[p].answered
        BY <1>1, <1>4, UnderWay
    <2>2. post[p].pc \notin {"run", "persist", "finish"}
        BY <1>1, <1>4, <2>1 DEF IInv, AnsweredTurnIsReplayed
    <2>3. post[q].answer \in LiveReplies(post[p].turn)
        BY <1>1, <1>4, <2>1 DEF IInv, StreamsBacked, StreamBacked, Backed, LiveReplies
    <2> QED BY <2>2, <2>3
<1>5. \A q \in new.answered : post[q].answer # None
    BY <1>1, UnderWay
<1> QED BY <1>1, <1>2, <1>3, <1>4, <1>5, UnderWay, PostStep

LEMMA TypesKept ==
    ASSUME IInv
    PROVE  /\ asked \in [Turns -> {"none", "live", "deleted"}]
           /\ memories \in [Turns -> SUBSET Texts]
BY DEF IInv, TypeOK

\* Goto changes the place only.
LEMMA GotoStep ==
    ASSUME IInv, NEW p \in Posts, post[p].pc \notin {"new", "done"},
           NEW pc \in {"lookup", "run", "done"}, Goto(p, pc),
           UNCHANGED <<closed, replies, memories, marked>>,
           asked' \in [Turns -> {"none", "live", "deleted"}],
           pc = "done" \/ post[p].pc # "finish",
           pc = "run" => LiveReplies(post[p].turn) = {}
    PROVE  IInv'
<1>1. /\ post[p].outcome \in Outcomes /\ post[p].reply \in Posts \cup {None}
      /\ post' = [post EXCEPT ![p] =
            [post[p] EXCEPT !.pc = pc, !.outcome = post[p].outcome,
                            !.reply = post[p].reply]]
    BY DEF Goto, IInv, TypeOK, Post
<1>2. pc \in Pcs /\ pc # "new" /\ pc # "replay" /\ pc # "finish" /\ pc # "persist"
    BY DEF Pcs
<1>3. memories' \in [Turns -> SUBSET Texts] /\ UNCHANGED <<closed, replies, marked>>
    BY TypesKept
<1>4. pc \in {"run", "persist"} =>
          post[p].pc \in {"run", "persist"} \/ LiveReplies(post[p].turn) = {}
    BY <1>2
<1>5. /\ pc = "replay" => Backed(post[p].reply, post[p].turn)
      /\ pc = "finish" => post[p].pc = "finish"
    BY <1>2
<1> QED BY <1>1, <1>2, <1>3, <1>4, <1>5, MoveStep

-----------------------------------------------------------------------------
LEMMA OpenStep ==
    ASSUME IInv, NEW p \in Posts, NEW t \in Turns, Open(p, t)
    PROVE  IInv'
<1> DEFINE pc == IF closed THEN "done" ELSE "record"
           seen == {q \in Posts : post[q].answer # None}
           new == [New EXCEPT !.pc = pc, !.turn = t, !.answered = seen]
<1>1. /\ new \in Post /\ new.pc = pc /\ new.turn = t /\ new.answer = None
      /\ new.answered = seen
    BY DEF New, Post, Pcs, Outcomes
<1>2. post' = [post EXCEPT ![p] = new] /\ UNCHANGED <<closed, asked, replies, memories, marked>>
      /\ post[p].pc = "new"
    BY DEF Open
<1>3. StreamBacked(p, new)
    BY <1>1, <1>2, UnderWay DEF StreamBacked
<1> HIDE DEF new
<1> QED BY <1>1, <1>2, <1>3, UnderWay, TypesKept, PostStep

LEMMA RecordUserStep ==
    ASSUME IInv, NEW p \in Posts, RecordUser(p)
    PROVE  IInv'
<1>1. /\ post[p].pc = "record" /\ Goto(p, "lookup")
      /\ UNCHANGED <<closed, replies, memories, marked>>
    BY DEF RecordUser
<1>2. asked' \in [Turns -> {"none", "live", "deleted"}]
    BY DEF RecordUser, IInv, TypeOK
<1> QED BY <1>1, <1>2, GotoStep

LEMMA LookUpStep ==
    ASSUME IInv, NEW p \in Posts, LookUp(p)
    PROVE  IInv'
<1>1. /\ post[p].pc = "lookup" /\ UNCHANGED <<closed, asked, replies, memories, marked>>
      /\ {"replay", "run"} \subseteq Pcs
    BY DEF LookUp, Pcs
<1>2. CASE Cached(post[p].turn) = {} /\ Goto(p, "run")
    BY <1>1, <1>2, TypesKept, GotoStep DEF Cached
<1>3. ASSUME NEW a \in Cached(post[p].turn),
             post' = [post EXCEPT ![p].pc = "replay", ![p].reply = a]
      PROVE  IInv'
    <2>1. a \in Posts /\ Backed(a, post[p].turn)
        BY <1>3 DEF Cached, LiveReplies, LiveReply, Backed
    <2>2. post[p].outcome \in Outcomes
          /\ post' = [post EXCEPT ![p] = [post[p] EXCEPT !.pc = "replay",
                         !.outcome = post[p].outcome, !.reply = a]]
        BY <1>3 DEF IInv, TypeOK, Post
    <2> QED BY <1>1, <2>1, <2>2, TypesKept, MoveStep
<1> QED BY <1>2, <1>3 DEF LookUp

\* A finish packet, of a backed id.
LEMMA AnswerStep ==
    ASSUME IInv, NEW p \in Posts, post[p].pc \in {"replay", "finish"},
           NEW a \in Posts, Backed(a, post[p].turn),
           post' = [post EXCEPT ![p].pc = "done", ![p].answer = a],
           UNCHANGED <<closed, asked, replies, memories, marked>>
    PROVE  IInv'
<1> DEFINE new == [post[p] EXCEPT !.pc = "done", !.answer = a]
<1>1. /\ new \in Post /\ new.pc = "done" /\ new.turn = post[p].turn
      /\ new.answer = a /\ new.answered = post[p].answered
    BY UnderWay DEF Post, Pcs
<1>2. post' = [post EXCEPT ![p] = new]
    BY DEF IInv, TypeOK
<1>3. StreamBacked(p, new)
    BY <1>1, UnderWay DEF StreamBacked
<1> HIDE DEF new
<1> QED BY <1>1, <1>2, <1>3, UnderWay, TypesKept, PostStep

LEMMA CreateMemoryStep ==
    ASSUME IInv, NEW p \in Posts, NEW x \in Texts, CreateMemory(p, x)
    PROVE  IInv'
<1>1. /\ post[p].pc = "run" /\ UNCHANGED <<closed, asked, replies, marked>>
      /\ "run" \in Pcs /\ "text" \in Outcomes
    BY DEF CreateMemory, Pcs, Outcomes
<1>2. memories' \in [Turns -> SUBSET Texts]
    BY <1>1, UnderWay DEF CreateMemory, IInv, TypeOK
<1>3. /\ post[p].reply \in Posts \cup {None}
      /\ post' = [post EXCEPT ![p] = [post[p] EXCEPT !.pc = "run", !.outcome = "text",
                                          !.reply = post[p].reply]]
    BY <1>1 DEF CreateMemory, IInv, TypeOK, Post
<1> QED BY <1>1, <1>2, <1>3, TypesKept, MoveStep

LEMMA EndRunStep ==
    ASSUME IInv, NEW p \in Posts, NEW outcome \in {"text", "empty", "error"},
           EndRun(p, outcome)
    PROVE  IInv'
<1>1. /\ post[p].pc = "run" /\ UNCHANGED <<closed, asked, replies, memories, marked>>
      /\ "persist" \in Pcs /\ outcome \in Outcomes
    BY DEF EndRun, Pcs, Outcomes
<1>2. /\ post[p].reply \in Posts \cup {None}
      /\ post' = [post EXCEPT ![p] = [post[p] EXCEPT !.pc = "persist", !.outcome = outcome,
                                          !.reply = post[p].reply]]
    BY DEF EndRun, IInv, TypeOK, Post
<1> QED BY <1>1, <1>2, TypesKept, MoveStep

LEMMA HangupStep ==
    ASSUME IInv, NEW p \in Posts, post[p].pc \notin {"new", "done"}, Hangup(p),
           UNCHANGED <<closed, asked, replies, memories, marked>>
    PROVE  IInv'
<1>1. Goto(p, "done")
    BY DEF Hangup
<1> QED BY <1>1, TypesKept, GotoStep

\* The INSERT, the one step that adds a reply.
LEMMA PersistStep ==
    ASSUME IInv, NEW p \in Posts, Persist(p)
    PROVE  IInv'
<1> DEFINE t == post[p].turn
           new == [post[p] EXCEPT !.pc = "finish"]
           row == [turn |-> t, deleted |-> FALSE]
<1>1. post[p].pc = "persist" /\ UNCHANGED <<closed, asked, memories, marked>>
    BY DEF Persist
<1>2. CASE EndUnpersisted(p) /\ UNCHANGED replies
    BY <1>1, <1>2, HangupStep DEF EndUnpersisted
<1>3. CASE /\ SameParent(t) = {}
           /\ replies' = [replies EXCEPT ![p] = row]
           /\ Goto(p, "finish")
    <2>1. /\ post[p] \in Post /\ post[p].answer = None /\ t \in Turns /\ replies[p] = None
        BY <1>1, UnderWay
    <2>2. row \in Reply /\ row.turn = t /\ ~row.deleted /\ row # None
        <3>1. row \in Reply
            BY <2>1 DEF Reply
        <3> QED BY <3>1, NoneAssumption
    <2>3. /\ replies'[p] = row /\ \A a \in Posts \ {p} : replies'[a] = replies[a]
          /\ post'[p] = new /\ \A q \in Posts \ {p} : post'[q] = post[q]
        BY <1>3 DEF Goto, IInv, TypeOK
    <2>4. /\ new \in Post /\ new.pc = "finish" /\ new.turn = t /\ new.answer = None
          /\ new.answered = post[p].answered
        BY <2>1 DEF Post, Pcs
    <2>5. TypeOK'
        <3>1. post' \in [Posts -> Post] /\ replies' \in [Posts -> Reply \cup {None}]
            BY <1>3, <2>2, <2>4 DEF Goto, IInv, TypeOK
        <3> QED BY <1>1, <3>1 DEF IInv, TypeOK
    <2> HIDE DEF new, row
    <2>6. \A a \in Posts \ {p} : LiveReply(a)' = LiveReply(a)
        BY <2>3 DEF LiveReply
    <2>7. OneLiveReply'
        BY <1>3, <2>2, <2>3, <2>6 DEF IInv, OneLiveReply, SameParent, LiveReplies
    <2>8. \A a, u : Backed(a, u) => Backed(a, u)'
        BY <1>1, <2>1, <2>3, <2>6 DEF Backed
    <2>9. Backed(p, t)'
        <3>1. replies'[p] # None /\ replies'[p].turn = t
            BY <2>2, <2>3
        <3>2. ~replies'[p].deleted
            BY <2>3 DEF row
        <3>3. t' = t
            BY <2>3, <2>4
        <3> QED BY <3>1, <3>2, <3>3 DEF Backed, LiveReply
    <2>10. StreamsBacked'
        <3> SUFFICES ASSUME NEW q \in Posts PROVE StreamBacked(q, post[q])'
            BY DEF StreamsBacked
        <3>1. CASE q = p
            BY <2>1, <2>3, <2>4, <2>9, <3>1 DEF StreamBacked
        <3>2. CASE q # p
            BY <2>3, <2>8, <3>2 DEF IInv, StreamsBacked, StreamBacked
        <3> QED BY <3>1, <3>2
    <2>11. \A q \in Posts : post[q].answer # None => q # p /\ post'[q] = post[q]
        BY <2>1, <2>3
    <2>12. \A q \in Posts : post[q].answered \subseteq Posts /\ post'[q].answered = post[q].answered
        BY <2>3, <2>4 DEF IInv, TypeOK, Post
    <2>13. AnsweredBefore'
        BY <2>11, <2>12 DEF IInv, AnsweredBefore
    <2>14. AnsweredTurnIsReplayed'
        BY <1>1, <2>3, <2>4, <2>11, <2>12 DEF IInv, AnsweredBefore, AnsweredTurnIsReplayed
    <2>15. MarkedExist'
        BY <1>1, <2>2, <2>3 DEF IInv, TypeOK, MarkedExist
    <2> QED BY <2>5, <2>7, <2>10, <2>13, <2>14, <2>15 DEF IInv
<1> QED BY <1>2, <1>3 DEF Persist

\* Deleting messages only ever marks them: no row goes away or changes its turn.
LEMMA DeletedReply ==
    ASSUME IInv, DeleteCommit, NEW a \in Posts
    PROVE  /\ replies'[a] \in Reply \cup {None}
           /\ replies[a] = None => replies'[a] = None
           /\ replies[a] # None =>
                  replies'[a] # None /\ replies'[a].turn = replies[a].turn
           /\ LiveReply(a)' => LiveReply(a)
<1>1. replies'[a] = Deleted(a)
    BY DEF DeleteCommit
<1>2. CASE a \notin marked.replies
    BY <1>1, <1>2 DEF Deleted, LiveReply, IInv, TypeOK
<1>3. CASE a \in marked.replies
    <2>1. replies[a] \in Reply /\ replies[a] # None
        BY <1>3 DEF DeleteCommit, IInv, TypeOK, MarkedExist
    <2>2. replies'[a] = [replies[a] EXCEPT !.deleted = TRUE]
        BY <1>1, <1>3 DEF Deleted
    <2>3. replies'[a] \in Reply /\ replies'[a].turn = replies[a].turn /\ replies'[a].deleted
        BY <2>1, <2>2 DEF Reply
    <2> QED BY <2>1, <2>3, NoneAssumption DEF LiveReply
<1> QED BY <1>2, <1>3

LEMMA DeleteCommitStep ==
    ASSUME IInv, DeleteCommit
    PROVE  IInv'
<1>1. closed' = TRUE /\ marked' = None /\ UNCHANGED <<memories, post>>
    BY DEF DeleteCommit
<1>2. TypeOK'
    <2>1. asked' \in [Turns -> {"none", "live", "deleted"}]
        BY DEF DeleteCommit, IInv, TypeOK
    <2>2. replies' \in [Posts -> Reply \cup {None}]
        BY DeletedReply DEF DeleteCommit
    <2> QED BY <1>1, <2>1, <2>2 DEF IInv, TypeOK
<1>3. OneLiveReply'
    <2> SUFFICES ASSUME NEW a \in Posts, NEW b \in Posts, LiveReply(a)', LiveReply(b)',
                        replies'[a].turn = replies'[b].turn
                 PROVE  a = b
        BY DEF OneLiveReply
    <2>1. LiveReply(a) /\ LiveReply(b) /\ replies[a].turn = replies[b].turn
        BY DeletedReply DEF LiveReply
    <2> QED BY <2>1 DEF IInv, OneLiveReply
<1>4. StreamsBacked'
    <2>1. \A a, t : Backed(a, t) => Backed(a, t)'
        BY <1>1, DeletedReply DEF Backed
    <2> QED BY <1>1, <2>1, DeletedReply DEF IInv, StreamsBacked, StreamBacked
<1>5. AnsweredBefore' /\ AnsweredTurnIsReplayed' /\ MarkedExist'
    BY <1>1 DEF IInv, AnsweredBefore, AnsweredTurnIsReplayed, MarkedExist
<1> QED BY <1>2, <1>3, <1>4, <1>5 DEF IInv

LEMMA DeleteMessagesStep ==
    ASSUME IInv, DeleteMessages
    PROVE  IInv'
<1>1. /\ UNCHANGED <<closed, asked, replies, memories, post>>
      /\ marked' = [turns |-> {t \in Turns : asked[t] = "live"},
                    replies |-> {a \in Posts : LiveReply(a)}]
    BY DEF DeleteMessages
<1>2. TypeOK'
    BY <1>1 DEF IInv, TypeOK
<1>3. MarkedExist'
    BY <1>1 DEF MarkedExist, LiveReply
<1>4. OneLiveReply' /\ StreamsBacked' /\ AnsweredBefore' /\ AnsweredTurnIsReplayed'
    BY <1>1 DEF IInv, OneLiveReply, LiveReply, StreamsBacked, StreamBacked, Backed,
        AnsweredBefore, AnsweredTurnIsReplayed
<1> QED BY <1>2, <1>3, <1>4 DEF IInv

\* A DELETE that is rolled back shows nothing of itself.
LEMMA DeleteRollbackStep ==
    ASSUME IInv, DeleteRollback
    PROVE  IInv'
<1>1. marked' = None /\ UNCHANGED <<closed, asked, replies, memories, post>>
    BY DEF DeleteRollback
<1>2. TypeOK' /\ MarkedExist'
    BY <1>1 DEF IInv, TypeOK, MarkedExist
<1>3. OneLiveReply' /\ StreamsBacked' /\ AnsweredBefore' /\ AnsweredTurnIsReplayed'
    BY <1>1 DEF IInv, OneLiveReply, LiveReply, StreamsBacked, StreamBacked, Backed,
        AnsweredBefore, AnsweredTurnIsReplayed
<1> QED BY <1>2, <1>3 DEF IInv

LEMMA NextIInv == IInv /\ [Next]_vars => IInv'
<1> SUFFICES ASSUME IInv, [Next]_vars PROVE IInv'
    OBVIOUS
<1>1. CASE UNCHANGED vars
    BY <1>1 DEF vars, IInv, TypeOK, MarkedExist, OneLiveReply, LiveReply, StreamsBacked,
        StreamBacked, Backed, AnsweredBefore, AnsweredTurnIsReplayed
<1>2. ASSUME NEW p \in Posts, NEW t \in Turns, Open(p, t) PROVE IInv'
    BY <1>2, OpenStep
<1>3. ASSUME NEW p \in Posts, Step(p) PROVE IInv'
    <2>1. CASE Replay(p)
        <3>1. post[p].pc = "replay" /\ Backed(post[p].reply, post[p].turn)
            BY <2>1, UnderWay DEF Replay
        <3> QED BY <2>1, <3>1, AnswerStep DEF Replay, ReplayId, Backed
    <2>2. CASE Finish(p)
        <3>1. post[p].pc = "finish" /\ Backed(p, post[p].turn)
            BY <2>2, UnderWay DEF Finish
        <3> QED BY <2>2, <3>1, AnswerStep DEF Finish
    <2> QED BY <1>3, <2>1, <2>2, RecordUserStep, LookUpStep, CreateMemoryStep, EndRunStep,
               PersistStep DEF Step
<1>4. ASSUME NEW p \in Posts, Disconnect(p) PROVE IInv'
    BY <1>4, HangupStep DEF Disconnect
<1>5. CASE DeleteMessages \/ DeleteCommit \/ DeleteRollback
    BY <1>5, DeleteMessagesStep, DeleteCommitStep, DeleteRollbackStep
<1> QED BY <1>1, <1>2, <1>3, <1>4, <1>5 DEF Next

THEOREM Invariance == Spec => []IInv
BY InitIInv, NextIInv, PTL DEF Spec

-----------------------------------------------------------------------------
\* Messages, replies and requests stay well formed.
THEOREM TypeCorrect == Spec => []TypeOK
<1>1. IInv => TypeOK
    BY DEF IInv
<1> QED BY <1>1, Invariance, PTL

\* One post of a turn persists its reply, whatever number of them runs.
THEOREM RepliesUnique == Spec => []OneLiveReply
<1>1. IInv => OneLiveReply
    BY DEF IInv
<1> QED BY <1>1, Invariance, PTL

LEMMA Stored == IInv => FinishIsStored
BY DEF IInv, StreamsBacked, StreamBacked, Backed, FinishIsStored

\* A finish packet names a persisted reply of its turn, which lives as long as
\* the session.
THEOREM FinishesHonest == Spec => []FinishIsStored
BY Stored, Invariance, PTL

\* As long as the session is open, every finished post of a turn names the same
\* reply: first answers and replays agree because both name a live row and a turn has only one.
THEOREM AnswersUnique == Spec => []AnswersAgree
<1>1. ASSUME IInv PROVE AnswersAgree
    <2>1. FinishIsStored /\ OneLiveReply
        BY <1>1, Stored DEF IInv
    <2>2. \A p \in Posts : post[p].answer # None => post[p].answer \in Posts
        BY <1>1 DEF IInv, StreamsBacked, StreamBacked, Backed
    <2> QED BY <2>1, <2>2 DEF FinishIsStored, OneLiveReply, AnswersAgree
<1> QED BY <1>1, Invariance, PTL

\* As long as the session is open, a turn its client saw finished is replayed,
\* never run again, by every later post of it.
THEOREM AnsweredTurnsReplay == Spec => []AnsweredTurnIsReplayed
<1>1. IInv => AnsweredTurnIsReplayed
    BY DEF IInv
<1> QED BY <1>1, Invariance, PTL

-----------------------------------------------------------------------------
(***************************************************************************)
(* The log of turns.  That a turn has one answer while its session lives   *)
(* is the INSERT's doing only because no row of an open session is ever    *)
(* deleted; a turn is in the log before anything of it is, because a post  *)
(* goes on to the lookup by recording it; and a DELETE closes the session  *)
(* once.                                                                   *)
(***************************************************************************)
AskedBefore ==
    \A p \in Posts :
        post[p].pc \in {"lookup", "replay", "run", "persist", "finish"} => post[p].turn \in AskedTurns

OpenKeepsReplies == ~closed => \A a \in Posts : replies[a] # None => ~replies[a].deleted

DeletesOnce == marked # None => ~closed /\ marked.turns \subseteq AskedTurns

LInv == AskedBefore /\ OpenKeepsReplies /\ DeletesOnce

LEMMA InitLInv == Init => LInv
BY NewType DEF Init, LInv, AskedBefore, OpenKeepsReplies, DeletesOnce

\* A post gets past the insertion of the user message by RecordUser only.
LEMMA AskedBeforeStep ==
    ASSUME IInv, LInv, [Next]_vars PROVE AskedBefore' /\ AskedTurns \subseteq AskedTurns'
<1>1. asked \in [Turns -> {"none", "live", "deleted"}] /\ post \in [Posts -> Post]
    BY DEF IInv, TypeOK
<1>2. \A p \in Posts : post[p].pc # "new" => post[p].turn \in Turns
    BY DEF IInv, StreamsBacked, StreamBacked
<1> DEFINE late == {"lookup", "replay", "run", "persist", "finish"}
<1>3. ASSUME AskedTurns \subseteq AskedTurns',
             \A p \in Posts : post'[p].pc \in late =>
                 post[p].pc \in late /\ post'[p].turn = post[p].turn
      PROVE  AskedBefore'
    BY <1>3 DEF LInv, AskedBefore
<1>4. CASE UNCHANGED vars
    BY <1>3, <1>4 DEF vars, AskedTurns
<1>5. ASSUME NEW p \in Posts, NEW t \in Turns, Open(p, t)
      PROVE  AskedBefore' /\ AskedTurns \subseteq AskedTurns'
    <2>1. asked' = asked /\ \A q \in Posts \ {p} : post'[q] = post[q]
        BY <1>1, <1>5 DEF Open
    <2>2. post'[p].pc \notin late
        BY <1>1, <1>5 DEF Open, New
    <2> QED BY <1>3, <2>1, <2>2 DEF AskedTurns
<1>6. ASSUME NEW p \in Posts, RecordUser(p)
      PROVE  AskedBefore' /\ AskedTurns \subseteq AskedTurns'
    <2>1. AskedTurns \subseteq AskedTurns' /\ post[p].turn \in AskedTurns'
        BY <1>1, <1>2, <1>6 DEF RecordUser, AskedTurns
    <2>2. /\ post'[p].turn = post[p].turn /\ \A q \in Posts \ {p} : post'[q] = post[q]
        BY <1>1, <1>6 DEF RecordUser, Goto
    <2> QED BY <2>1, <2>2 DEF LInv, AskedBefore
<1>7. ASSUME NEW p \in Posts, asked' = asked, post[p].pc \in late \/ post'[p].pc \notin late,
             post'[p].turn = post[p].turn, \A q \in Posts \ {p} : post'[q] = post[q]
      PROVE  AskedBefore' /\ AskedTurns \subseteq AskedTurns'
    BY <1>3, <1>7 DEF AskedTurns
<1>8. ASSUME NEW p \in Posts, Step(p), ~RecordUser(p)
      PROVE  AskedBefore' /\ AskedTurns \subseteq AskedTurns'
    <2>1. asked' = asked /\ post[p].pc \in late
        BY <1>8 DEF Step, LookUp, Replay, CreateMemory, EndRun, Persist, Finish
    <2>2. \/ \E a \in Posts :
               post' = [post EXCEPT ![p].pc = "replay", ![p].reply = a]
          \/ \E pc \in {"run", "finish", "done"} : Goto(p, pc)
          \/ \E a \in Posts : post' = [post EXCEPT ![p].pc = "done", ![p].answer = a]
          \/ post' = [post EXCEPT ![p].outcome = "text"]
          \/ \E o \in Outcomes : post' = [post EXCEPT ![p].pc = "persist", ![p].outcome = o]
        <3>1. LookUp(p) => \/ \E a \in Posts :
                                 post' = [post EXCEPT ![p].pc = "replay", ![p].reply = a]
                           \/ Goto(p, "run")
            BY DEF LookUp, Cached, LiveReplies
        <3>2. Replay(p) =>
                  \E a \in Posts : post' = [post EXCEPT ![p].pc = "done", ![p].answer = a]
            BY UnderWay DEF Replay, ReplayId, Backed
        <3>3. Finish(p) =>
                  \E a \in Posts : post' = [post EXCEPT ![p].pc = "done", ![p].answer = a]
            BY DEF Finish
        <3>4. \A x \in Texts : CreateMemory(p, x) => post' = [post EXCEPT ![p].outcome = "text"]
            BY DEF CreateMemory
        <3>5. \A o \in {"text", "empty", "error"} :
                  EndRun(p, o) => post' = [post EXCEPT ![p].pc = "persist", ![p].outcome = o]
            BY DEF EndRun
        <3>6. {"text", "empty", "error"} \subseteq Outcomes
            BY DEF Outcomes
        <3>7. Persist(p) => Goto(p, "finish") \/ Goto(p, "done")
            BY DEF Persist, EndUnpersisted, Hangup
        <3> QED BY <1>8, <3>1, <3>2, <3>3, <3>4, <3>5, <3>6, <3>7 DEF Step
    <2>3. post'[p].turn = post[p].turn /\ \A q \in Posts \ {p} : post'[q] = post[q]
        BY <1>1, <2>2 DEF Goto, Post
    <2> QED BY <1>7, <2>1, <2>3
<1>9. ASSUME NEW p \in Posts, Disconnect(p)
      PROVE  AskedBefore' /\ AskedTurns \subseteq AskedTurns'
    <2>1. /\ asked' = asked /\ post'[p].pc = "done" /\ post'[p].turn = post[p].turn
          /\ \A q \in Posts \ {p} : post'[q] = post[q]
        BY <1>1, <1>9 DEF Disconnect, Hangup, Goto
    <2> QED BY <1>7, <2>1
<1>10. CASE DeleteMessages \/ DeleteRollback
    BY <1>3, <1>10 DEF DeleteMessages, DeleteRollback, AskedTurns
<1>11. CASE DeleteCommit
    <2>1. AskedTurns \subseteq AskedTurns' /\ post' = post
        BY <1>11 DEF DeleteCommit, AskedTurns
    <2> QED BY <1>3, <2>1
<1> QED BY <1>4, <1>5, <1>6, <1>8, <1>9, <1>10, <1>11 DEF Next

\* Only the insertion of a reply and the commit of a DELETE touch the rows.
LEMMA WhoWritesReplies ==
    ASSUME [Next]_vars
    PROVE  \/ replies' = replies /\ closed' = closed
           \/ DeleteCommit
           \/ \E p \in Posts :
                 /\ Persist(p) /\ closed' = closed /\ SameParent(post[p].turn) = {}
                 /\ replies' = [replies EXCEPT ![p] = [turn |-> post[p].turn, deleted |-> FALSE]]
<1>1. CASE UNCHANGED vars
    BY <1>1 DEF vars
<1>2. ASSUME NEW p \in Posts, NEW t \in Turns, Open(p, t)
      PROVE  replies' = replies /\ closed' = closed
    BY <1>2 DEF Open
<1>3. ASSUME NEW p \in Posts, Step(p), ~Persist(p) PROVE replies' = replies /\ closed' = closed
    BY <1>3 DEF Step, RecordUser, LookUp, Replay, CreateMemory, EndRun, Finish
<1>4. ASSUME NEW p \in Posts, Disconnect(p) PROVE replies' = replies /\ closed' = closed
    BY <1>4 DEF Disconnect
<1>5. CASE DeleteMessages \/ DeleteRollback
    BY <1>5 DEF DeleteMessages, DeleteRollback
<1>6. ASSUME NEW p \in Posts, Persist(p)
      PROVE  /\ closed' = closed
             /\ \/ replies' = replies
                \/ /\ SameParent(post[p].turn) = {}
                   /\ replies' = [replies EXCEPT ![p] =
                                     [turn |-> post[p].turn, deleted |-> FALSE]]
    BY <1>6 DEF Persist
<1> QED BY <1>1, <1>2, <1>3, <1>4, <1>5, <1>6 DEF Next

LEMMA NextLInv == IInv /\ LInv /\ [Next]_vars => LInv'
<1> SUFFICES ASSUME IInv, LInv, [Next]_vars PROVE LInv'
    OBVIOUS
<1>1. AskedBefore' /\ AskedTurns \subseteq AskedTurns'
    BY AskedBeforeStep
<1>2. OpenKeepsReplies'
    <2> SUFFICES ASSUME ~closed', NEW a \in Posts, replies'[a] # None PROVE ~replies'[a].deleted
        BY DEF OpenKeepsReplies
    <2>1. CASE replies' = replies /\ closed' = closed
        BY <2>1 DEF LInv, OpenKeepsReplies
    <2>2. CASE DeleteCommit
        BY <2>2 DEF DeleteCommit
    <2>3. ASSUME NEW p \in Posts, closed' = closed,
                 replies' = [replies EXCEPT ![p] = [turn |-> post[p].turn, deleted |-> FALSE]]
          PROVE  ~replies'[a].deleted
        <3>1. replies'[a] = IF a = p THEN [turn |-> post[p].turn, deleted |-> FALSE] ELSE replies[a]
            BY <2>3 DEF IInv, TypeOK
        <3>2. CASE a = p
            BY <3>1, <3>2
        <3>3. CASE a # p
            BY <2>3, <3>1, <3>3 DEF LInv, OpenKeepsReplies
        <3> QED BY <3>2, <3>3
    <2> QED BY <2>1, <2>2, <2>3, WhoWritesReplies
<1>3. DeletesOnce'
    <2>1. CASE DeleteMessages
        <3>1. {t \in Turns : asked[t] = "live"} \subseteq AskedTurns
            BY DEF AskedTurns
        <3> QED BY <1>1, <2>1, <3>1 DEF DeleteMessages, DeletesOnce
    <2>2. CASE DeleteCommit \/ DeleteRollback
        BY <2>2 DEF DeleteCommit, DeleteRollback, DeletesOnce
    <2>3. ASSUME closed' = closed /\ marked' = marked PROVE DeletesOnce'
        BY <1>1, <2>3 DEF LInv, DeletesOnce
    <2>4. \A p \in Posts : Step(p) \/ Disconnect(p) => closed' = closed /\ marked' = marked
        BY DEF Step, Disconnect, RecordUser, LookUp, Replay, CreateMemory, EndRun, Persist, Finish
    <2>5. \A p \in Posts, t \in Turns : Open(p, t) => closed' = closed /\ marked' = marked
        BY DEF Open
    <2>6. UNCHANGED vars => closed' = closed /\ marked' = marked
        BY DEF vars
    <2> QED BY <2>1, <2>2, <2>3, <2>4, <2>5, <2>6 DEF Next
<1> QED BY <1>1, <1>2, <1>3 DEF LInv

\* What a step writes of the log: nothing, but for the insertions, the finish
\* packets and the commit of a DELETE.
LEMMA LogUnchanged ==
    ASSUME UNCHANGED <<closed, asked, replies>>,
           \A p \in Posts :
               /\ post'[p].answer = post[p].answer
               /\ post[p].answer # None => post'[p].turn = post[p].turn
    PROVE  UNCHANGED <<AskedTurns, Answers, Told, closed>>
<1>1. Answers' = Answers
    BY DEF Answers
<1>2. ASSUME NEW p \in Posts PROVE ToldTo(p)' = ToldTo(p)
    <2>1. CASE post[p].answer = None
        BY <2>1 DEF ToldTo
    <2>2. CASE post[p].answer # None
        BY <2>2 DEF ToldTo
    <2> QED BY <2>1, <2>2
<1>3. Told' = Told
    BY <1>2 DEF Told
<1> QED BY <1>1, <1>3 DEF AskedTurns

LEMMA LogAsks ==
    ASSUME IInv, NEW p \in Posts, RecordUser(p)
    PROVE  [Log!Next]_<<AskedTurns, Answers, Told, closed>>
<1> DEFINE t == post[p].turn
<1>1. /\ post \in [Posts -> Post] /\ asked \in [Turns -> {"none", "live", "deleted"}]
      /\ t \in Turns
    BY UnderWay DEF IInv, TypeOK, RecordUser
<1>2. /\ UNCHANGED <<closed, replies>>
      /\ \A q \in Posts : post'[q].answer = post[q].answer /\ post'[q].turn = post[q].turn
    BY <1>1 DEF RecordUser, Goto, Post
<1>3. Told' = Told /\ Answers' = Answers
    <2>1. \A q \in Posts : ToldTo(q)' = ToldTo(q)
        BY <1>2 DEF ToldTo
    <2> QED BY <1>2, <2>1 DEF Answers, Told
<1>4. CASE asked[t] = "none"
    <2>1. t \notin AskedTurns /\ AskedTurns' = AskedTurns \cup {t}
        BY <1>1, <1>4 DEF RecordUser, AskedTurns
    <2>2. Log!Ask(t)
        BY <1>2, <1>3, <2>1 DEF Log!Ask
    <2> QED BY <1>1, <2>2 DEF Log!Next
<1>5. CASE asked[t] # "none"
    <2>1. AskedTurns' = AskedTurns
        BY <1>5 DEF RecordUser, AskedTurns
    <2> QED BY <1>2, <1>3, <2>1
<1> QED BY <1>4, <1>5

LEMMA LogAnswers ==
    ASSUME IInv, LInv, NEW p \in Posts, Persist(p),
           SameParent(post[p].turn) = {},
           replies' = [replies EXCEPT ![p] = [turn |-> post[p].turn, deleted |-> FALSE]]
    PROVE  Log!Next
<1> DEFINE t == post[p].turn
           row == [turn |-> t, deleted |-> FALSE]
           entry == [turn |-> t, answer |-> p]
<1>1. /\ post \in [Posts -> Post] /\ replies \in [Posts -> Reply \cup {None}]
      /\ t \in Turns /\ replies[p] = None /\ post[p].answer = None /\ post[p].pc = "persist"
    BY UnderWay DEF IInv, TypeOK, Persist
<1>2. t \in AskedTurns
    BY <1>1 DEF LInv, AskedBefore
<1>3. row # None /\ row.turn = t
    <2>1. row \in Reply
        BY <1>1 DEF Reply
    <2> QED BY <2>1, NoneAssumption
<1>4. /\ replies'[p] = row /\ \A a \in Posts \ {p} : replies'[a] = replies[a]
    BY <1>1
<1>5. Answers' = Answers \cup {entry}
    <2> HIDE DEF row, t
    <2>1. \A a \in Posts : replies'[a] # None <=> replies[a] # None \/ a = p
        BY <1>3, <1>4
    <2>2. \A a \in Posts : replies[a] # None => replies'[a].turn = replies[a].turn
        BY <1>1, <1>4
    <2>3. Answers' \subseteq Answers \cup {entry}
        <3> SUFFICES ASSUME NEW a \in Posts, replies'[a] # None
                     PROVE  [turn |-> replies'[a].turn, answer |-> a] \in Answers \cup {entry}
            BY DEF Answers
        <3>1. CASE a = p
            BY <1>3, <1>4, <3>1
        <3>2. CASE a # p
            BY <1>4, <2>1, <3>2 DEF Answers
        <3> QED BY <3>1, <3>2
    <2>4. entry \in Answers'
        BY <1>3, <1>4, <2>1 DEF Answers
    <2>5. Answers \subseteq Answers'
        <3> SUFFICES ASSUME NEW a \in Posts, replies[a] # None
                     PROVE  [turn |-> replies[a].turn, answer |-> a] \in Answers'
            BY DEF Answers
        <3> QED BY <2>1, <2>2 DEF Answers
    <2> QED BY <2>3, <2>4, <2>5
<1>6. closed \/ \A r \in Answers : r.turn # t
    <2> SUFFICES ASSUME ~closed, NEW a \in Posts, replies[a] # None PROVE replies[a].turn # t
        BY DEF Answers
    <2>1. LiveReply(a)
        BY DEF LInv, OpenKeepsReplies, LiveReply
    <2> QED BY <2>1 DEF SameParent, LiveReplies
<1>7. \A r \in Answers : r.answer # p
    BY <1>1 DEF Answers
<1>8. UNCHANGED <<AskedTurns, Told, closed>>
    <2>1. Goto(p, "finish") \/ Goto(p, "done")
        BY DEF Persist, EndUnpersisted, Hangup
    <2>2. \A q \in Posts : post'[q].answer = post[q].answer /\ post'[q].turn = post[q].turn
        BY <1>1, <2>1 DEF Goto, Post
    <2>3. \A q \in Posts : ToldTo(q)' = ToldTo(q)
        BY <2>2 DEF ToldTo
    <2>4. UNCHANGED <<asked, closed>>
        BY DEF Persist
    <2> QED BY <2>3, <2>4 DEF Told, AskedTurns
<1>9. Log!Answer(t)
    <2> HIDE DEF row, t
    <2> QED BY <1>2, <1>5, <1>6, <1>7, <1>8 DEF Log!Answer
<1> QED BY <1>1, <1>9 DEF Log!Next

LEMMA LogTells ==
    ASSUME IInv, NEW p \in Posts, post[p].pc \in {"replay", "finish"},
           NEW a \in Posts, Backed(a, post[p].turn),
           post' = [post EXCEPT ![p].pc = "done", ![p].answer = a],
           UNCHANGED <<closed, asked, replies>>
    PROVE  Log!Next
<1> DEFINE entry == [turn |-> post[p].turn, answer |-> a]
<1>1. post \in [Posts -> Post] /\ post[p].answer = None /\ a # None
    BY UnderWay, NoneAssumption DEF IInv, TypeOK
<1>2. /\ post'[p].answer = a /\ post'[p].turn = post[p].turn
      /\ \A q \in Posts \ {p} : post'[q] = post[q]
    BY <1>1 DEF Post
<1>3. entry \in Answers
    BY DEF Backed, Answers
<1>4. ToldTo(p) = None /\ ToldTo(p)' = entry /\ \A q \in Posts \ {p} : ToldTo(q)' = ToldTo(q)
    BY <1>1, <1>2 DEF ToldTo
<1> HIDE DEF entry
<1>5. Told[p] = None /\ Told' = [Told EXCEPT ![p] = entry]
    BY <1>4 DEF Told
<1>6. UNCHANGED <<AskedTurns, Answers, closed>>
    BY DEF AskedTurns, Answers
<1>7. Log!Tell(p)
    BY <1>3, <1>5, <1>6 DEF Log!Tell
<1> QED BY <1>7 DEF Log!Next

LEMMA LogCloses ==
    ASSUME IInv, LInv, DeleteCommit
    PROVE  Log!Next
<1>1. ~closed /\ closed' /\ post' = post /\ marked.turns \subseteq AskedTurns
    BY DEF DeleteCommit, LInv, DeletesOnce
<1>2. AskedTurns' = AskedTurns
    <2>1. asked' = [t \in Turns |-> IF t \in marked.turns THEN "deleted" ELSE asked[t]]
        BY DEF DeleteCommit
    <2>2. \A t \in Turns : asked'[t] # "none" <=> asked[t] # "none"
        BY <1>1, <2>1 DEF AskedTurns
    <2> QED BY <2>2 DEF AskedTurns
<1>3. Answers' = Answers
    <2>1. \A a \in Posts :
              /\ replies'[a] # None <=> replies[a] # None
              /\ replies[a] # None => replies'[a].turn = replies[a].turn
        BY DeletedReply
    <2> QED BY <2>1 DEF Answers
<1>4. Told' = Told
    BY <1>1 DEF Told, ToldTo
<1>5. closed' = TRUE
    BY DEF DeleteCommit
<1>6. Log!Close
    BY <1>1, <1>2, <1>3, <1>4, <1>5 DEF Log!Close
<1> QED BY <1>6 DEF Log!Next

LEMMA NextLog ==
    IInv /\ LInv /\ [Next]_vars => [Log!Next]_<<AskedTurns, Answers, Told, closed>>
<1> SUFFICES ASSUME IInv, LInv, [Next]_vars
             PROVE  Log!Next \/ UNCHANGED <<AskedTurns, Answers, Told, closed>>
    OBVIOUS
<1>0. post \in [Posts -> Post]
    BY DEF IInv, TypeOK
<1>1. CASE UNCHANGED vars
    BY <1>1, LogUnchanged DEF vars
<1>2. ASSUME NEW p \in Posts, NEW t \in Turns, Open(p, t)
      PROVE  UNCHANGED <<AskedTurns, Answers, Told, closed>>
    <2>1. UNCHANGED <<closed, asked, replies>> /\ post[p].answer = None
        BY <1>2, UnderWay DEF Open
    <2>2. post'[p].answer = None /\ \A q \in Posts \ {p} : post'[q] = post[q]
        BY <1>0, <1>2, NewType DEF Open, New
    <2>3. \A q \in Posts :
              /\ post'[q].answer = post[q].answer
              /\ post[q].answer # None => post'[q].turn = post[q].turn
        BY <2>1, <2>2
    <2> QED BY <2>1, <2>3, LogUnchanged
<1>3. ASSUME NEW p \in Posts, RecordUser(p)
      PROVE  Log!Next \/ UNCHANGED <<AskedTurns, Answers, Told, closed>>
    BY <1>3, LogAsks
<1>4. ASSUME NEW p \in Posts, Replay(p) \/ Finish(p) PROVE Log!Next
    <2>1. CASE Replay(p)
        <3>1. post[p].pc = "replay" /\ Backed(post[p].reply, post[p].turn)
            BY <2>1, UnderWay DEF Replay
        <3> QED BY <2>1, <3>1, LogTells DEF Replay, ReplayId, Backed
    <2>2. CASE Finish(p)
        <3>1. post[p].pc = "finish" /\ Backed(p, post[p].turn)
            BY <2>2, UnderWay DEF Finish
        <3> QED BY <2>2, <3>1, LogTells DEF Finish
    <2> QED BY <1>4, <2>1, <2>2
\* A step that moves its post on and tells nothing.
<1>5. ASSUME NEW p \in Posts, UNCHANGED <<closed, asked, replies>>,
             post'[p].turn = post[p].turn, post'[p].answer = post[p].answer,
             \A q \in Posts \ {p} : post'[q] = post[q]
      PROVE  UNCHANGED <<AskedTurns, Answers, Told, closed>>
    <2>1. \A q \in Posts : post'[q].answer = post[q].answer /\ post'[q].turn = post[q].turn
        BY <1>5
    <2> QED BY <1>5, <2>1, LogUnchanged
<1>6. ASSUME NEW p \in Posts, UNCHANGED <<closed, asked, replies>>, NEW pc, Goto(p, pc)
      PROVE  UNCHANGED <<AskedTurns, Answers, Told, closed>>
    <2>1. /\ post'[p].turn = post[p].turn /\ post'[p].answer = post[p].answer
          /\ \A q \in Posts \ {p} : post'[q] = post[q]
        BY <1>0, <1>6 DEF Goto, Post
    <2> QED BY <1>5, <1>6, <2>1
<1>7. ASSUME NEW p \in Posts, LookUp(p) PROVE UNCHANGED <<AskedTurns, Answers, Told, closed>>
    <2>1. UNCHANGED <<closed, asked, replies>>
        BY <1>7 DEF LookUp
    <2>2. ASSUME NEW a \in Posts, post' = [post EXCEPT ![p].pc = "replay", ![p].reply = a]
          PROVE  UNCHANGED <<AskedTurns, Answers, Told, closed>>
        <3>1. /\ post'[p].turn = post[p].turn /\ post'[p].answer = post[p].answer
              /\ \A q \in Posts \ {p} : post'[q] = post[q]
            BY <1>0, <2>2 DEF Post
        <3> QED BY <1>5, <2>1, <3>1
    <2>3. \/ Goto(p, "run")
          \/ \E a \in Posts : post' = [post EXCEPT ![p].pc = "replay", ![p].reply = a]
        BY <1>7 DEF LookUp, Cached, LiveReplies
    <2> QED BY <1>6, <2>1, <2>2, <2>3
<1>8. ASSUME NEW p \in Posts, NEW t \in Texts, CreateMemory(p, t)
      PROVE  UNCHANGED <<AskedTurns, Answers, Told, closed>>
    <2>1. UNCHANGED <<closed, asked, replies>> /\ post' = [post EXCEPT ![p].outcome = "text"]
        BY <1>8 DEF CreateMemory
    <2>2. /\ post'[p].turn = post[p].turn /\ post'[p].answer = post[p].answer
          /\ \A q \in Posts \ {p} : post'[q] = post[q]
        BY <1>0, <2>1 DEF Post
    <2> QED BY <1>5, <2>1, <2>2
<1>9. ASSUME NEW p \in Posts, NEW o \in {"text", "empty", "error"}, EndRun(p, o)
       PROVE  UNCHANGED <<AskedTurns, Answers, Told, closed>>
    <2>1. /\ UNCHANGED <<closed, asked, replies>>
          /\ post' = [post EXCEPT ![p].pc = "persist", ![p].outcome = o]
        BY <1>9 DEF EndRun
    <2>2. /\ post'[p].turn = post[p].turn /\ post'[p].answer = post[p].answer
          /\ \A q \in Posts \ {p} : post'[q] = post[q]
        BY <1>0, <2>1 DEF Post
    <2> QED BY <1>5, <2>1, <2>2
<1>10. ASSUME NEW p \in Posts, Persist(p)
       PROVE  Log!Next \/ UNCHANGED <<AskedTurns, Answers, Told, closed>>
    <2>1. CASE /\ SameParent(post[p].turn) = {}
               /\ replies' = [replies EXCEPT ![p] = [turn |-> post[p].turn, deleted |-> FALSE]]
        BY <1>10, <2>1, LogAnswers
    <2>2. CASE EndUnpersisted(p) /\ UNCHANGED replies
        <3>1. UNCHANGED <<closed, asked, replies>> /\ Goto(p, "done")
            BY <1>10, <2>2 DEF Persist, EndUnpersisted, Hangup
        <3> QED BY <1>6, <3>1
    <2> QED BY <1>10, <2>1, <2>2 DEF Persist
<1>11. ASSUME NEW p \in Posts, Disconnect(p)
       PROVE  UNCHANGED <<AskedTurns, Answers, Told, closed>>
    <2>1. UNCHANGED <<closed, asked, replies>> /\ Goto(p, "done")
        BY <1>11 DEF Disconnect, Hangup
    <2> QED BY <1>6, <2>1
<1>12. CASE DeleteMessages \/ DeleteRollback
    BY <1>12, LogUnchanged DEF DeleteMessages, DeleteRollback
<1>13. ASSUME NEW p \in Posts, Step(p)
       PROVE  Log!Next \/ UNCHANGED <<AskedTurns, Answers, Told, closed>>
    BY <1>3, <1>4, <1>7, <1>8, <1>9, <1>10, <1>13 DEF Step
<1> QED BY <1>1, <1>2, <1>11, <1>12, <1>13, LogCloses DEF Next

LEMMA InitLog == Init => Log!Init
<1> SUFFICES ASSUME Init PROVE Log!Init
    OBVIOUS
<1>1. AskedTurns = {} /\ Answers = {} /\ closed = FALSE
    BY DEF Init, AskedTurns, Answers
<1>2. Told = [p \in Posts |-> None]
    BY NewType DEF Init, Told, ToldTo
<1> QED BY <1>1, <1>2 DEF Log!Init

\* The endpoint keeps the log of TurnLog: however the posts of the turns overlap,
\* retry, break off and outlive a DELETE of the session, each of their steps asks a
\* turn, gives it its one answer, tells a post an answer of the log, closes it, or
\* leaves it alone.
THEOREM TurnLogImplemented == Spec => ImplementsTurnLog
<1>1. Spec => []LInv
    BY InitLInv, NextLInv, Invariance, PTL DEF Spec
<1>2. IInv /\ LInv /\ [Next]_vars => [Log!Next]_(Log!vars)
    BY NextLog DEF Log!vars
<1> QED BY <1>1, <1>2, InitLog, Invariance, PTL DEF Spec, ImplementsTurnLog, Log!Spec

-----------------------------------------------------------------------------
(***************************************************************************)
(* The history of a run.  ChatHistory only adds to ChatTurn, and a run     *)
(* knows the turns that were answered before it.                           *)
(***************************************************************************)
HistoryTypeOK ==
    /\ began \in [Posts -> Nat]
    /\ askedAt \in [Turns -> Nat]
    /\ repliedAt \in [Posts -> Nat]
    /\ loaded \subseteq Posts
    /\ raced \subseteq Turns

\* A message is recorded after the one it answers, and goes with the session.
Recorded ==
    /\ \A t \in Turns : asked[t] = "deleted" => closed
    /\ marked # None => \A t \in marked.turns : asked[t] # "none"
    /\ \A a \in Posts : replies[a] # None => asked[replies[a].turn] # "none"
    /\ \A p \in Posts :
          post[p].pc \in {"lookup", "replay", "run", "persist", "finish"} =>
              asked[post[p].turn] # "none"

InTransaction == {"record", "lookup", "replay", "run", "persist"}

\* Unless posts raced for it, a question is older than the transaction of every
\* post of its turn that has found it, and older than the answer.
Ordered ==
    /\ \A p \in Posts :
          LET t == post[p].turn IN
          post[p].pc \in InTransaction /\ asked[t] # "none" /\ t \notin raced =>
              askedAt[t] < began[p]
    /\ \A a \in Posts :
          LET t == replies[a].turn IN
          replies[a] # None /\ t \notin raced => askedAt[t] < repliedAt[a]

HInv == HistoryTypeOK /\ Recorded /\ Ordered

-----------------------------------------------------------------------------
(* The clock.                                                              *)

\* The greatest element has the fewest above it.
LEMMA MaxIsGreatest ==
    ASSUME NEW T \in SUBSET Nat, IsFiniteSet(T), T # {}
    PROVE  Max(T) \in T /\ \A y \in T : y <= Max(T)
<1> DEFINE Above(x) == {y \in T : y > x}
           S == {Cardinality(Above(x)) : x \in T}
<1>1. \A x \in T : IsFiniteSet(Above(x)) /\ Cardinality(Above(x)) \in Nat
    BY FS_Subset, FS_CardinalityType
<1>2. PICK x \in T : \A y \in T : Cardinality(Above(x)) <= Cardinality(Above(y))
    <2>1. S \in SUBSET Nat /\ S # {}
        BY <1>1
    <2>2. PICK n \in S : \A m \in S : n <= m
        <3> HIDE DEF S
        <3> QED BY <2>1, LeastNatural
    <2> QED BY <2>2
<1>3. ASSUME NEW y \in T, y > x PROVE FALSE
    <2>1. Above(y) \in SUBSET Above(x) /\ y \in Above(x) /\ y \notin Above(y)
        <3>1. T \subseteq Nat /\ x \in Nat /\ y \in Nat
            OBVIOUS
        <3>2. \A z \in T : z > y => z > x
            BY <1>3, <3>1
        <3>3. y > x /\ ~(y > y)
            BY <1>3, <3>1
        <3> QED BY <3>2, <3>3
    <2>2. Cardinality(Above(y)) <= Cardinality(Above(x)) /\ Cardinality(Above(y)) # Cardinality(Above(x))
        <3> HIDE DEF Above
        <3> QED BY <1>1, <2>1, FS_Subset
    <2> QED BY <1>1, <1>2, <2>2
<1>4. \A y \in T : x >= y
    BY <1>3
<1>5. Max(T) \in T /\ \A y \in T : Max(T) >= y
    BY <1>4 DEF Max
<1> QED BY <1>5

LEMMA ValuesAreFinite ==
    ASSUME NEW D, IsFiniteSet(D), NEW f \in [D -> Nat]
    PROVE  IsFiniteSet({f[x] : x \in D})
<1>1. f \in Surjection(D, {f[x] : x \in D})
    BY DEF Surjection
<1> QED BY <1>1, FS_Surjection

LEMMA NowIsLater ==
    ASSUME HistoryTypeOK, NEW q \in Posts
    PROVE  /\ Now \in Nat
           /\ \A p \in Posts : began[p] < Now /\ repliedAt[p] < Now
           /\ \A t \in Turns : askedAt[t] < Now
<1> DEFINE A == {began[p] : p \in Posts}
           B == {askedAt[t] : t \in Turns}
           C == {repliedAt[p] : p \in Posts}
           T == A \cup B \cup C
<1>1. IsFiniteSet(A) /\ IsFiniteSet(B) /\ IsFiniteSet(C)
    BY ValuesAreFinite, FiniteAssumption DEF HistoryTypeOK
<1>2. T \in SUBSET Nat /\ IsFiniteSet(T)
    <2>1. A \subseteq Nat /\ B \subseteq Nat /\ C \subseteq Nat
        BY DEF HistoryTypeOK
    <2> HIDE DEF A, B, C
    <2> QED BY <1>1, <2>1, FS_Union
<1>3. Now = 1 + Max(T)
    BY DEF Now
<1>4. Max(T) \in T /\ \A y \in T : y <= Max(T)
    <2>1. T # {}
        OBVIOUS
    <2> HIDE DEF T
    <2> QED BY <1>2, <2>1, MaxIsGreatest
<1>5. Now \in Nat /\ \A y \in T : y < Now
    <2> DEFINE m == Max(T)
    <2>1. m \in Nat /\ Now = 1 + m /\ \A y \in T : y \in Nat /\ y <= m
        BY <1>2, <1>3, <1>4
    <2> HIDE DEF T, m
    <2> QED BY <2>1
<1>6. /\ \A p \in Posts : began[p] \in T /\ repliedAt[p] \in T
      /\ \A t \in Turns : askedAt[t] \in T
    OBVIOUS
<1> HIDE DEF T
<1> QED BY <1>5, <1>6

-----------------------------------------------------------------------------
(* Every step is one of ChatTurn, or stutters there.                       *)

LEMMA StepOfChatTurn == [HistoryNext]_historyVars => [Next]_vars
<1> SUFFICES ASSUME [HistoryNext]_historyVars PROVE [Next]_vars
    OBVIOUS
<1>1. CASE UNCHANGED historyVars
    BY <1>1 DEF historyVars, vars
<1>2. ASSUME NEW p \in Posts, NEW t \in Turns, Receive(p, t) PROVE Next
    BY <1>2 DEF Receive, Next
<1>3. ASSUME NEW p \in Posts, Record(p) \/ Run(p) \/ Insert(p) \/ Read(p) PROVE Next
    BY <1>3 DEF Record, Run, Insert, Read, Step, Next
<1>4. ASSUME NEW p \in Posts, Load(p) PROVE UNCHANGED vars
    BY <1>4 DEF Load
<1>5. CASE Delete
    BY <1>5 DEF Delete, Next
<1> QED BY <1>1, <1>2, <1>3, <1>4, <1>5 DEF HistoryNext

-----------------------------------------------------------------------------
(* The invariant.                                                          *)

LEMMA InitHInv == InitHistory => HInv
<1> SUFFICES ASSUME InitHistory PROVE HInv
    OBVIOUS
<1>1. HistoryTypeOK
    BY DEF InitHistory, HistoryTypeOK
<1>2. /\ \A p \in Posts : post[p].pc = "new" /\ replies[p] = None
      /\ marked = None /\ \A t \in Turns : asked[t] = "none"
    BY NewType DEF InitHistory, Init
<1>3. Recorded /\ Ordered
    BY <1>2 DEF Recorded, Ordered, InTransaction
<1> QED BY <1>1, <1>3 DEF HInv

LEMMA RecordedStep ==
    ASSUME IInv, Recorded, [Next]_vars
    PROVE  Recorded'
<1>0. /\ post \in [Posts -> Post] /\ asked \in [Turns -> {"none", "live", "deleted"}]
      /\ replies \in [Posts -> Reply \cup {None}]
      /\ \A a \in Posts : replies[a] # None => replies[a].turn \in Turns
      /\ marked # None => marked.turns \subseteq Turns
    BY DEF IInv, TypeOK, Reply
<1>1. CASE UNCHANGED vars
    BY <1>1 DEF vars, Recorded
<1>2. ASSUME NEW p \in Posts, NEW t \in Turns, Open(p, t) PROVE Recorded'
    BY <1>0, <1>2 DEF Open, New, Recorded
<1>3. ASSUME NEW p \in Posts, RecordUser(p) PROVE Recorded'
    <2>1. post[p].turn \in Turns
        BY <1>3, UnderWay DEF RecordUser
    <2>2. /\ \A t \in Turns : asked'[t] = asked[t] \/ (asked[t] = "none" /\ asked'[t] = "live")
          /\ asked'[post[p].turn] # "none"
        BY <1>0, <1>3, <2>1 DEF RecordUser
    <2>3. /\ UNCHANGED <<closed, replies, marked>> /\ post'[p].turn = post[p].turn
          /\ \A q \in Posts \ {p} : post'[q] = post[q]
        BY <1>0, <1>3 DEF RecordUser, Goto, Post
    <2>4. \A q \in Posts : post[q].pc \in {"lookup", "replay", "run", "persist", "finish"} =>
              post[q].turn \in Turns
        BY UnderWay
    <2> QED BY <1>0, <2>1, <2>2, <2>3, <2>4 DEF Recorded
<1>5. ASSUME NEW p \in Posts,
             \/ LookUp(p) \/ Replay(p) \/ (\E x \in Texts : CreateMemory(p, x))
             \/ (\E outcome \in {"text", "empty", "error"} : EndRun(p, outcome))
             \/ Finish(p) \/ Disconnect(p)
      PROVE  Recorded'
    <2>1. UNCHANGED <<closed, asked, replies, marked>>
        BY <1>5 DEF LookUp, Replay, CreateMemory, EndRun, Finish, Disconnect
    <2>2. /\ post'[p].turn = post[p].turn /\ \A q \in Posts \ {p} : post'[q] = post[q]
          /\ \/ post'[p].pc = "done"
             \/ post[p].pc \in {"lookup", "replay", "run", "persist", "finish"}
        BY <1>0, <1>5 DEF LookUp, Replay, CreateMemory, EndRun, Finish, Disconnect,
            Hangup, Goto, Post
    <2> QED BY <1>0, <2>1, <2>2 DEF Recorded
<1>6. ASSUME NEW p \in Posts, Persist(p) PROVE Recorded'
    <2>1. /\ UNCHANGED <<closed, asked, marked>> /\ post[p].pc = "persist"
          /\ post'[p].turn = post[p].turn /\ \A q \in Posts \ {p} : post'[q] = post[q]
        BY <1>0, <1>6 DEF Persist, EndUnpersisted, Hangup, Goto, Post
    <2>2. /\ \A a \in Posts \ {p} : replies'[a] = replies[a]
          /\ replies'[p] = replies[p] \/ replies'[p].turn = post[p].turn
        BY <1>0, <1>6 DEF Persist
    <2> QED BY <2>1, <2>2 DEF Recorded
<1>7. CASE DeleteMessages \/ DeleteRollback
    <2>1. UNCHANGED <<closed, asked, replies, post>>
        BY <1>7 DEF DeleteMessages, DeleteRollback
    <2>2. marked' # None => \A t \in marked'.turns : asked[t] # "none"
        BY <1>7 DEF DeleteMessages, DeleteRollback
    <2> QED BY <2>1, <2>2 DEF Recorded
<1>8. CASE DeleteCommit
    <2>1. /\ closed' /\ marked' = None /\ UNCHANGED post
          /\ \A t \in Turns : asked[t] # "none" => asked'[t] # "none"
        BY <1>0, <1>8 DEF DeleteCommit
    <2>2. \A a \in Posts : replies'[a] # None =>
              replies[a] # None /\ replies'[a].turn = replies[a].turn
        BY <1>8, DeletedReply
    <2>3. \A q \in Posts : post[q].pc \in {"lookup", "replay", "run", "persist", "finish"} =>
              post[q].turn \in Turns
        BY UnderWay
    <2> QED BY <1>0, <2>1, <2>2, <2>3 DEF Recorded
<1> QED BY <1>1, <1>2, <1>3, <1>5, <1>6, <1>7, <1>8 DEF Next, Step

\* What Begun does to the transactions.
LEMMA BegunStep ==
    ASSUME HistoryTypeOK, NEW p \in Posts, NEW time \in Nat, Begun(p, time)
    PROVE  /\ began' \in [Posts -> Nat] /\ loaded' \subseteq loaded
           /\ \A q \in Posts \ {p} : began'[q] = began[q]
           /\ post'[p].pc # "done" => began'[p] = time
BY DEF HistoryTypeOK, Begun

LEMMA HistoryTypeStep ==
    ASSUME IInv, HistoryTypeOK, [HistoryNext]_historyVars
    PROVE  HistoryTypeOK'
<1>1. CASE UNCHANGED historyVars
    BY <1>1 DEF historyVars, HistoryTypeOK
<1>2. ASSUME NEW p \in Posts, NEW t \in Turns, Receive(p, t) PROVE HistoryTypeOK'
    BY <1>2, NowIsLater, BegunStep DEF Receive, HistoryTypeOK
<1>3. ASSUME NEW p \in Posts, Record(p) PROVE HistoryTypeOK'
    <2>1. post[p].turn \in Turns /\ began[p] \in Nat
        BY <1>3, UnderWay DEF Record, RecordUser, HistoryTypeOK
    <2>2. askedAt' \in [Turns -> Nat] /\ raced' \subseteq Turns /\ UNCHANGED repliedAt
        BY <1>3, <2>1 DEF Record, CreatedAt, HistoryTypeOK
    <2>3. Begun(p, Now) \/ UNCHANGED <<began, loaded>>
        BY <1>3 DEF Record
    <2> QED BY <2>2, <2>3, NowIsLater, BegunStep DEF HistoryTypeOK
<1>4. ASSUME NEW p \in Posts, Load(p) PROVE HistoryTypeOK'
    BY <1>4 DEF Load, HistoryTypeOK
<1>5. ASSUME NEW p \in Posts, Run(p) \/ Read(p) PROVE HistoryTypeOK'
    <2>1. PICK time \in {began[p], Now} : Begun(p, time)
        BY <1>5 DEF Run, Read
    <2>2. time \in Nat /\ UNCHANGED <<askedAt, repliedAt, raced>>
        BY <1>5, NowIsLater DEF Run, Read, HistoryTypeOK
    <2> QED BY <2>1, <2>2, BegunStep DEF HistoryTypeOK
<1>6. ASSUME NEW p \in Posts, Insert(p) PROVE HistoryTypeOK'
    <2>1. repliedAt' \in [Posts -> Nat] /\ Begun(p, 0) /\ UNCHANGED <<askedAt, raced>>
        BY <1>6 DEF Insert, CreatedAt, HistoryTypeOK
    <2> QED BY <2>1, BegunStep DEF HistoryTypeOK
<1>7. CASE Delete
    BY <1>7 DEF Delete, HistoryTypeOK
<1> QED BY <1>1, <1>2, <1>3, <1>4, <1>5, <1>6, <1>7 DEF HistoryNext

\* What a step of post p that records no message has to show for the order.
LEMMA OrderKept ==
    ASSUME IInv, HInv, NEW p \in Posts,
           UNCHANGED <<asked, replies, askedAt, repliedAt, raced>>,
           \A q \in Posts \ {p} : post'[q] = post[q] /\ began'[q] = began[q],
           LET t == post'[p].turn IN
           post'[p].pc \in InTransaction /\ asked[t] # "none" /\ t \notin raced =>
               askedAt[t] < began'[p]
    PROVE  Ordered'
BY DEF HInv, Ordered

LEMMA OrderedStep ==
    ASSUME IInv, HInv, [HistoryNext]_historyVars
    PROVE  Ordered'
<1>0. /\ post \in [Posts -> Post] /\ asked \in [Turns -> {"none", "live", "deleted"}]
      /\ replies \in [Posts -> Reply \cup {None}] /\ HistoryTypeOK
      /\ \A a \in Posts : replies[a] # None => replies[a].turn \in Turns
    BY DEF IInv, TypeOK, Reply, HInv
<1>1. CASE UNCHANGED historyVars
    BY <1>1 DEF historyVars, vars, HInv, Ordered
<1>2. ASSUME NEW p \in Posts, NEW t \in Turns, Receive(p, t) PROVE Ordered'
    <2>1. /\ UNCHANGED <<asked, replies, askedAt, repliedAt, raced>> /\ post'[p].turn = t
          /\ \A q \in Posts \ {p} : post'[q] = post[q]
        BY <1>0, <1>2 DEF Receive, Open, New
    <2>2. /\ askedAt[t] < Now
          /\ \A q \in Posts \ {p} : began'[q] = began[q]
          /\ post'[p].pc # "done" => began'[p] = Now
        BY <1>0, <1>2, NowIsLater, BegunStep DEF Receive
    <2> QED BY <2>1, <2>2, OrderKept DEF InTransaction
<1>3. ASSUME NEW p \in Posts, Record(p) PROVE Ordered'
    <2> DEFINE t == post[p].turn
    <2>1. /\ t \in Turns /\ UNCHANGED <<replies, repliedAt>> /\ post'[p].turn = t
          /\ post[p].pc = "record" /\ post'[p].pc = "lookup"
          /\ \A q \in Posts \ {p} : post'[q] = post[q]
        BY <1>0, <1>3, UnderWay DEF Record, RecordUser, Goto, Post
    <2>2. CASE asked[t] # "none"
        <3>1. UNCHANGED <<asked, askedAt, began, raced>>
            BY <1>3, <2>2 DEF Record, RecordUser
        <3> QED BY <1>0, <2>1, <3>1, OrderKept DEF HInv, Ordered, InTransaction
    <2>3. CASE asked[t] = "none"
        <3>1. /\ askedAt' = [askedAt EXCEPT ![t] = began[p]] /\ Begun(p, Now)
              /\ asked' = [asked EXCEPT ![t] = "live"]
            BY <1>3, <2>3 DEF Record, RecordUser, CreatedAt
        <3>2. /\ began'[p] = Now /\ began[p] < Now /\ raced \subseteq raced'
              /\ \A q \in Posts \ {p} : began'[q] = began[q]
            BY <1>0, <1>3, <2>1, <2>3, <3>1, NowIsLater, BegunStep DEF Record
        <3>3. \A q \in Posts \ {p} : post[q].pc \in InTransaction /\ post[q].turn = t =>
                  post[q].pc = "record"
            BY <2>3 DEF HInv, Recorded, InTransaction
        <3>4. \A q \in Posts \ {p} : post[q].pc \in InTransaction /\ post[q].turn = t =>
                  t \in raced'
            BY <1>3, <2>3, <3>3 DEF Record
        <3>5. \A a \in Posts : replies[a] # None => replies[a].turn # t
            BY <2>3 DEF HInv, Recorded
        <3>6. \A q \in Posts : post[q].pc \in InTransaction => post[q].turn \in Turns
            BY UnderWay DEF InTransaction
        <3>7. \A u \in Turns \ {t} : askedAt'[u] = askedAt[u] /\ asked'[u] = asked[u]
            BY <1>0, <3>1 DEF HistoryTypeOK
        <3>8. askedAt'[t] = began[p]
            BY <1>0, <2>1, <3>1 DEF HistoryTypeOK
        <3>9. ASSUME NEW q \in Posts, post'[q].pc \in InTransaction,
                     asked'[post'[q].turn] # "none", post'[q].turn \notin raced'
              PROVE  askedAt'[post'[q].turn] < began'[q]
            <4>1. CASE q = p
                BY <2>1, <3>2, <3>8, <4>1
            <4>2. CASE q # p
                BY <2>1, <3>2, <3>4, <3>6, <3>7, <3>9, <4>2 DEF HInv, Ordered
            <4> QED BY <4>1, <4>2
        <3>10. ASSUME NEW a \in Posts, replies'[a] # None, replies'[a].turn \notin raced'
               PROVE  askedAt'[replies'[a].turn] < repliedAt'[a]
            BY <1>0, <2>1, <3>2, <3>5, <3>7, <3>10 DEF HInv, Ordered
        <3> QED BY <3>9, <3>10 DEF Ordered
    <2> QED BY <2>2, <2>3
<1>4. ASSUME NEW p \in Posts, Load(p) PROVE Ordered'
    BY <1>4 DEF Load, vars, HInv, Ordered
<1>5. ASSUME NEW p \in Posts, Run(p) \/ Read(p) PROVE Ordered'
    <2>1. PICK time \in {began[p], Now} : Begun(p, time)
        BY <1>5 DEF Run, Read
    <2>2. /\ UNCHANGED <<asked, replies, askedAt, repliedAt, raced>>
          /\ post'[p].turn = post[p].turn /\ \A q \in Posts \ {p} : post'[q] = post[q]
          /\ post'[p].pc = "done" \/ post[p].pc \in {"lookup", "replay", "run", "persist"}
        BY <1>0, <1>5 DEF Run, Read, LookUp, Replay, CreateMemory, EndRun, Finish,
            Disconnect, Hangup, Goto, Post
    <2>3. time \in Nat /\ began[p] \in Nat /\ began[p] <= time
        BY <1>0, NowIsLater DEF HistoryTypeOK
    <2>4. /\ \A q \in Posts \ {p} : began'[q] = began[q]
          /\ post'[p].pc # "done" => began'[p] = time
        BY <1>0, <2>1, <2>3, BegunStep
    <2>5. post'[p].pc # "done" => askedAt[post[p].turn] \in Nat
        <3>1. post[p].pc \in {"lookup", "replay", "run", "persist"} => post[p].turn \in Turns
            BY UnderWay
        <3> QED BY <1>0, <2>2, <3>1 DEF HistoryTypeOK
    <2> QED BY <2>2, <2>3, <2>4, <2>5, OrderKept DEF HInv, Ordered, InTransaction
<1>6. ASSUME NEW p \in Posts, Insert(p) PROVE Ordered'
    <2>1. /\ UNCHANGED <<asked, askedAt, raced>> /\ post[p].pc = "persist"
          /\ \A q \in Posts \ {p} : post'[q] = post[q] /\ began'[q] = began[q]
          /\ post'[p].pc \in {"finish", "done"}
        BY <1>0, <1>6, BegunStep DEF Insert, Persist, EndUnpersisted, Hangup, Goto, Post
    <2>2. CASE UNCHANGED replies
        BY <1>6, <2>1, <2>2, OrderKept DEF Insert, InTransaction
    <2>3. CASE replies' # replies
        <3>1. /\ replies' = [replies EXCEPT ![p] = [turn |-> post[p].turn, deleted |-> FALSE]]
              /\ repliedAt' = [repliedAt EXCEPT ![p] = began[p]]
            BY <1>6, <2>3 DEF Insert, Persist, CreatedAt
        <3>2. /\ replies'[p].turn = post[p].turn /\ repliedAt'[p] = began[p]
              /\ \A a \in Posts \ {p} : replies'[a] = replies[a] /\ repliedAt'[a] = repliedAt[a]
            BY <1>0, <3>1 DEF HistoryTypeOK
        <3>3. asked[post[p].turn] # "none"
            BY <2>1 DEF HInv, Recorded
        <3> QED BY <2>1, <3>2, <3>3 DEF HInv, Ordered, InTransaction
    <2> QED BY <2>2, <2>3
<1>7. CASE Delete
    <2>1. UNCHANGED <<began, askedAt, repliedAt, raced, post>>
        BY <1>7 DEF Delete, DeleteMessages, DeleteCommit, DeleteRollback
    <2>2. /\ \A t \in Turns : asked'[t] # "none" => asked[t] # "none"
          /\ \A a \in Posts : replies'[a] # None =>
                 replies[a] # None /\ replies'[a].turn = replies[a].turn
        <3>1. CASE DeleteMessages \/ DeleteRollback
            BY <3>1 DEF DeleteMessages, DeleteRollback
        <3>2. CASE DeleteCommit
            <4>1. \A t \in Turns : asked'[t] # "none" => asked[t] # "none"
                BY <1>0, <3>2 DEF DeleteCommit, HInv, Recorded
            <4> QED BY <3>2, <4>1, DeletedReply
        <3> QED BY <1>7, <3>1, <3>2 DEF Delete
    <2>3. \A q \in Posts : post[q].pc \in InTransaction => post[q].turn \in Turns
        BY UnderWay DEF InTransaction
    <2> QED BY <2>1, <2>2, <2>3 DEF HInv, Ordered
<1> QED BY <1>1, <1>2, <1>3, <1>4, <1>5, <1>6, <1>7 DEF HistoryNext

LEMMA NextHInv ==
    ASSUME IInv, HInv, [HistoryNext]_historyVars
    PROVE  HInv'
<1>1. Recorded'
    BY StepOfChatTurn, RecordedStep DEF HInv
<1> QED BY <1>1, HistoryTypeStep, OrderedStep DEF HInv

\* The history only adds to ChatTurn: what is true of its behaviours is true here.
THEOREM HistoryIsOfChatTurn == HistorySpec => Spec
<1>1. InitHistory => Init
    BY DEF InitHistory
<1> QED BY <1>1, StepOfChatTurn, PTL DEF HistorySpec, Spec

THEOREM HistoryInvariance == HistorySpec => [](IInv /\ HInv)
<1>1. IInv /\ HInv /\ [HistoryNext]_historyVars => HInv'
    BY NextHInv
<1> QED BY <1>1, InitHInv, HistoryIsOfChatTurn, Invariance, PTL DEF HistorySpec

-----------------------------------------------------------------------------
(* The rows of a history: two of a turn at most.                           *)

Roles == {"user", "assistant"}

LEMMA RolesCount == IsFiniteSet(Roles) /\ Cardinality(Roles) = 2
<1>1. IsFiniteSet({"user"}) /\ Cardinality({"user"}) = 1
    BY FS_Singleton
<1>2. Roles = {"user"} \cup {"assistant"} /\ "assistant" \notin {"user"}
    BY DEF Roles
<1> QED BY <1>1, <1>2, FS_AddElement

LEMMA RowsOfTurns ==
    ASSUME IInv, HInv, NEW t
    PROVE  /\ \A m \in Candidates(t) : m.turn \in Turns /\ m.role \in Roles /\ m.at \in Nat
           /\ \A m, n \in Candidates(t) : m.turn = n.turn /\ m.role = n.role => m = n
<1>1. \A a \in Posts : LiveReply(a) => replies[a].turn \in Turns
    BY DEF IInv, TypeOK, Reply, LiveReply
<1>2. ASSUME NEW m \in Candidates(t)
      PROVE  \/ \E u \in Turns : m = Question(u)
             \/ \E a \in Posts : LiveReply(a) /\ m = Answer(a)
    BY DEF Candidates
<1>3. ASSUME NEW m \in Candidates(t)
      PROVE  m.turn \in Turns /\ m.role \in Roles /\ m.at \in Nat
    BY <1>1, <1>2 DEF Question, Answer, Roles, HInv, HistoryTypeOK
<1>4. ASSUME NEW m \in Candidates(t), NEW n \in Candidates(t),
             m.turn = n.turn, m.role = n.role
      PROVE  m = n
    <2>0. /\ \A u : Question(u).role = "user" /\ Question(u).turn = u
          /\ \A a : Answer(a).role = "assistant" /\ Answer(a).turn = replies[a].turn
        BY DEF Question, Answer
    <2>1. CASE m.role = "user"
        <3>1. PICK u \in Turns : m = Question(u)
            BY <1>2, <2>0, <2>1
        <3>2. PICK v \in Turns : n = Question(v)
            BY <1>2, <1>4, <2>0, <2>1
        <3> QED BY <1>4, <2>0, <3>1, <3>2
    <2>2. CASE m.role = "assistant"
        <3>1. PICK a \in Posts : LiveReply(a) /\ m = Answer(a)
            BY <1>2, <2>0, <2>2
        <3>2. PICK b \in Posts : LiveReply(b) /\ n = Answer(b)
            BY <1>2, <1>4, <2>0, <2>2
        <3>3. replies[a].turn = replies[b].turn
            BY <1>4, <2>0, <3>1, <3>2
        <3> QED BY <3>1, <3>2, <3>3 DEF IInv, OneLiveReply
    <2> QED BY <1>3, <2>1, <2>2 DEF Roles
<1> QED BY <1>3, <1>4

\* Rows of the turns in N.
LEMMA TwoRowsPerTurn ==
    ASSUME IInv, HInv, NEW t, NEW N \in SUBSET Turns,
           NEW rows \in SUBSET {m \in Candidates(t) : m.turn \in N}
    PROVE  /\ IsFiniteSet(rows) /\ Cardinality(rows) \in Nat /\ Cardinality(N) \in Nat
           /\ Cardinality(rows) <= 2 * Cardinality(N)
<1> DEFINE f == [m \in rows |-> <<m.turn, m.role>>]
<1>1. IsFiniteSet(N) /\ Cardinality(N) \in Nat
    BY FiniteAssumption, FS_Subset, FS_CardinalityType
<1>2. IsFiniteSet(N \X Roles) /\ Cardinality(N \X Roles) = Cardinality(N) * 2
    BY <1>1, RolesCount, FS_Product
<1>3. f \in Injection(rows, N \X Roles)
    <2>1. \A m \in rows : m \in Candidates(t) /\ m.turn \in N /\ m.role \in Roles
        BY RowsOfTurns
    <2>2. f \in [rows -> N \X Roles]
        BY <2>1
    <2>3. \A m, n \in rows : f[m] = f[n] => m = n
        BY <2>1, RowsOfTurns
    <2> QED BY <2>2, <2>3 DEF Injection, IsInjective
<1>4. IsFiniteSet(rows) /\ Cardinality(rows) <= Cardinality(N \X Roles)
    <2> HIDE DEF f
    <2> QED BY <1>2, <1>3, FS_Injection
<1> QED BY <1>1, <1>2, <1>4, FS_CardinalityType

\* A message of a turn that fewer than Pairs others have newer ones than is in
\* the history: those have two rows each, the turn has one other.
LEMMA FewAreNewer ==
    ASSUME IInv, HInv, NEW t, NEW m \in Candidates(t),
           Cardinality(Newer(m.turn, Candidates(t))) < Pairs
    PROVE  m \in RecentHistory(t)
<1> DEFINE C == Candidates(t)
           N == Newer(m.turn, C)
           D == {n \in C : n.at > m.at}
           Others == {n \in D : n.turn # m.turn}
           Own == {n \in D : n.turn = m.turn}
<1>1. N \in SUBSET Turns /\ Others \in SUBSET {n \in C : n.turn \in N}
    BY RowsOfTurns DEF Newer
<1>2. /\ IsFiniteSet(Others) /\ Cardinality(Others) \in Nat /\ Cardinality(N) \in Nat
      /\ Cardinality(Others) <= 2 * Cardinality(N)
    <2> HIDE DEF N, Others
    <2> QED BY <1>1, TwoRowsPerTurn
<1>3. \A n \in Own : n.role \in Roles /\ n.role # m.role
    <2>1. \A n \in Own : n # m
        BY RowsOfTurns
    <2> QED BY <2>1, RowsOfTurns
<1>4. \A n, k \in Own : n = k
    <2>1. \A n, k \in Own : n.role = k.role
        BY <1>3, RowsOfTurns DEF Roles
    <2> QED BY <2>1, RowsOfTurns
<1>5. IsFiniteSet(Own) /\ Cardinality(Own) \in Nat /\ Cardinality(Own) <= 1
    <2>1. CASE Own = {}
        BY <2>1, FS_EmptySet
    <2>2. CASE Own # {}
        <3>1. PICK n \in Own : TRUE
            BY <2>2
        <3>2. Own = {n}
            BY <1>4
        <3>3. IsFiniteSet({n}) /\ Cardinality({n}) = 1
            BY FS_Singleton
        <3> QED BY <3>2, <3>3
    <2> QED BY <2>1, <2>2
<1>6. D = Others \cup Own /\ Others \cap Own = {}
    OBVIOUS
<1>7. Cardinality(D) \in Nat /\ Cardinality(D) <= 2 * Cardinality(N) + 1
    <2> HIDE DEF D, Others, Own, N
    <2>1. Cardinality(D) = Cardinality(Others) + Cardinality(Own) - 0
        BY <1>2, <1>5, <1>6, FS_Union, FS_EmptySet
    <2> QED BY <1>2, <1>5, <2>1
<1>8. Cardinality(D) < 2 * Pairs
    <2> HIDE DEF D, N, C
    <2>1. Cardinality(N) < Pairs
        BY DEF N, C
    <2> QED BY <1>2, <1>7, <2>1, PairsAssumption
<1> QED BY <1>8 DEF RecentHistory, Rows

LEMMA AnsweredIsKnown ==
    ASSUME IInv, HInv, ~closed, NEW p \in Posts, post[p].pc = "run",
           NEW q \in post[p].answered, post[q].turn # post[p].turn,
           Cardinality(Newer(post[q].turn, Candidates(post[p].turn))) < Pairs
    PROVE  Knows(p, post[q].turn)
<1> DEFINE t == post[p].turn
           u == post[q].turn
           a == post[q].answer
<1>1. q \in Posts /\ a # None
    BY UnderWay
<1>2. a \in Posts /\ LiveReply(a) /\ replies[a].turn = u
    BY <1>1 DEF IInv, StreamsBacked, StreamBacked, Backed
<1>3. u \in Turns /\ asked[u] = "live"
    <2>1. u \in Turns
        BY <1>2 DEF IInv, TypeOK, Reply, LiveReply
    <2> QED BY <1>2, <2>1 DEF IInv, TypeOK, HInv, Recorded, LiveReply
<1>4. Question(u) \in Candidates(t) /\ Answer(a) \in Candidates(t)
    BY <1>2, <1>3 DEF Candidates
<1>5. /\ Question(u).turn = u /\ Question(u).role = "user"
      /\ Answer(a).turn = u /\ Answer(a).role = "assistant"
    BY <1>2 DEF Question, Answer
<1>6. Question(u) \in RecentHistory(t) /\ Answer(a) \in RecentHistory(t)
    BY <1>4, <1>5, FewAreNewer
<1>7. RecentHistory(t) \subseteq Candidates(t)
    BY DEF RecentHistory
<1>8. u \notin raced => Question(u).at < Answer(a).at
    BY <1>2 DEF HInv, Ordered, LiveReply, Question, Answer
<1>9. \A m \in Candidates(t) : m.turn = u =>
          /\ m.role = "user" => m = Question(u)
          /\ m.role = "assistant" => m = Answer(a)
    BY <1>4, <1>5, RowsOfTurns
<1> HIDE DEF t, u, a
<1>10. Knows(p, u)
    BY <1>5, <1>6, <1>7, <1>8, <1>9 DEF Knows, t
<1> QED BY <1>10 DEF u

-----------------------------------------------------------------------------
\* A run knows the turns its client had seen answered when it posted, whatever
\* retries, lost posts and late replies were recorded in between.
THEOREM AnsweredTurnsKnown == HistorySpec => AnsweredTurnsAreKnown
<1>1. ASSUME IInv, HInv, [HistoryNext]_historyVars,
             NEW p \in Posts, p \in loaded' \ loaded, ~closed,
             NEW q \in post[p].answered, post[q].turn # post[p].turn,
             Cardinality(Newer(post[q].turn, Candidates(post[p].turn))) < Pairs
      PROVE  Knows(p, post[q].turn)
    <2>1. Load(p)
        BY <1>1 DEF HistoryNext, historyVars, Receive, Record, Load, Run, Insert, Read,
            Delete, Begun
    <2> QED BY <1>1, <2>1, AnsweredIsKnown DEF Load
<1>2. IInv /\ HInv /\ [HistoryNext]_historyVars =>
          [\A p \in Posts : p \in loaded' \ loaded /\ ~closed =>
              \A u \in {post[q].turn : q \in post[p].answered} \ {post[p].turn} :
                  Cardinality(Newer(u, Candidates(post[p].turn))) < Pairs => Knows(p, u)
          ]_historyVars
    BY <1>1
<1> QED BY <1>2, HistoryInvariance, PTL DEF HistorySpec, AnsweredTurnsAreKnown

==============================================================================
