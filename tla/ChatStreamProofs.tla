---------------------------- MODULE ChatStreamProofs ----------------------------
(***************************************************************************)
(* Theorems about ChatStream, for any number of model turns, deltas and    *)
(* tool calls: what is folded live, what is persisted, and what a replay   *)
(* makes of it.                                                            *)
(***************************************************************************)
EXTENDS ChatStream, SequenceLemmas, FiniteSetTheorems

Message == [role : {"assistant"}, calls : Seq(Nat)] \cup [role : {"tool"}, id : Nat]

Packet == [type : {"delta"}, delta : Seq(Nat)]
          \cup [type : {"start", "call"}, id : Nat]
          \cup [type : {"end"}, id : Nat, status : {"ok", "error"}]

\* The steps the assigner remembers, for any set of tool calls.
ToolSteps == UNION {[ids -> Nat] : ids \in SUBSET Nat}

Assigner == [next : Nat \ {0}, textStep : Nat, toolSteps : ToolSteps, lastKind : Kinds]

Types ==
    /\ pc \in Pcs
    /\ turns \in 1..MaxToolTurns /\ deltas \in 0..MaxDeltas
    /\ said \in Nat /\ called \in Nat
    /\ pending \in Seq(1..called) /\ messages \in Seq(Message)
    /\ assigner \in Assigner /\ events \in Timeline
    /\ sawError \in BOOLEAN

-----------------------------------------------------------------------------
(* The inductive invariant of the timeline.                                *)

\* Where the latest step is.
LatestStep ==
    /\ shown = events
    /\ Len(events) = assigner.next - 1
    /\ assigner.lastKind = "text" =>
          /\ Len(events) > 0 /\ assigner.textStep = Len(events)
          /\ events[Len(events)].kind = "text"

InTool == pc \in {"args", "run", "bad"}

\* The tool that runs is the latest event, and the only one without an end.
RunningTool ==
    /\ InTool =>
          /\ pending # <<>> /\ Len(events) > 0
          /\ events[Len(events)].kind = "tool"
          /\ KnownCall(assigner, ToolStart(Head(pending)))
          /\ assigner.toolSteps[Head(pending)] = Len(events)
    /\ \A s \in 1..Len(events) :
          events[s].kind = "tool" /\ events[s].status = "none" => InTool /\ s = Len(events)

\* Calls are numbered as they run; those that wait have no step yet.
CallsInOrder ==
    /\ Len(pending) <= called
    /\ \A j \in 1..Len(pending) : pending[j] = (called - Len(pending)) + j
    /\ pc = "model" => pending = <<>>
    /\ pc \in {"model", "next"} =>
          \A id \in DOMAIN assigner.toolSteps : id <= called - Len(pending)
    /\ InTool =>
          \A id \in DOMAIN assigner.toolSteps : id <= (called - Len(pending)) + 1

TimelineInv == Types /\ LatestStep /\ RunningTool /\ CallsInOrder

-----------------------------------------------------------------------------
(* The inductive invariant of the conversation.                            *)

\* The calls of the message at k are answered behind it, and then comes the next.
Complete(k) ==
    LET calls == messages[k].calls
        after == k + Len(calls) + 1
    IN  /\ \A j \in DOMAIN calls :
               k + j \in DOMAIN messages /\ messages[k + j] = ToolMessage(calls[j])
        /\ after \in DOMAIN messages => messages[after].role = "assistant"

\* The calls of the message at k are answered up to the ones that are pending.
Open(k) ==
    LET calls == messages[k].calls
        done == Len(calls) - Len(pending)
    IN  /\ done >= 0 /\ Len(messages) = k + done
        /\ \A j \in 1..done : messages[k + j] = ToolMessage(calls[j])
        /\ \A j \in 1..Len(pending) : pending[j] = calls[done + j]

CompleteBut(K) ==
    \A k \in 1..Len(messages) :
        messages[k].role = "assistant" /\ k \notin K => Complete(k)

ConversationInv ==
    /\ pc = "model" => CompleteBut({})
    /\ pc \in {"next", "args", "run", "bad"} =>
          \E k \in 1..Len(messages) :
              messages[k].role = "assistant" /\ Open(k) /\ CompleteBut({k})

IInv == TimelineInv /\ ConversationInv
-----------------------------------------------------------------------------
(* The two folds on a timeline.                                            *)

\* The event that packet p leaves at step s.
Folded(e, s, p) == Fold(e, s, p)[s]

LEMMA EventKinds ==
    ASSUME NEW v \in Event
    PROVE  /\ v.kind \in {"text", "tool"}
           /\ v.kind = "text" => v \in TextEvent /\ v.content \in Seq(Nat)
           /\ v.kind = "tool" => v \in ToolEvent
BY DEF Event, TextEvent, ToolEvent

LEMMA TextIsEvent ==
    ASSUME NEW content \in Seq(Nat)
    PROVE  [kind |-> "text", content |-> content] \in Event
BY DEF Event, TextEvent

LEMMA ToolIsEvent ==
    ASSUME NEW id \in Nat, NEW args \in BOOLEAN, NEW status \in {"none", "ok", "error"}
    PROVE  [kind |-> "tool", id |-> id, args |-> args, status |-> status] \in Event
BY DEF Event, ToolEvent

LEMMA StoredIs ==
    ASSUME NEW d, NEW k, NEW v
    PROVE  /\ Stored(d, k, v)[k] = v
           /\ DOMAIN Stored(d, k, v) = DOMAIN d \cup {k}
           /\ \A j \in DOMAIN d : j # k => Stored(d, k, v)[j] = d[j]
BY DEF Stored

\* The text of the event a delta leaves.
TextAfter(e, s, p) == IF At(e, s, "text") THEN e[s].content \o p.delta ELSE p.delta

\* A text delta, and what the other three packets make of the record they find.
LEMMA FoldedDelta ==
    ASSUME NEW e \in Timeline, NEW s \in 1..(Len(e) + 1), NEW p \in Packet, p.type = "delta"
    PROVE  Folded(e, s, p) = [kind |-> "text", content |-> TextAfter(e, s, p)]
<1>1. Fold(e, s, p) = Stored(e, s, [kind |-> "text", content |-> TextAfter(e, s, p)])
    BY DEF Fold, FoldText, TextAfter
<1> QED BY <1>1 DEF Folded, Stored

LEMMA FoldedStart ==
    ASSUME NEW e \in Timeline, NEW s \in 1..(Len(e) + 1), NEW p \in Packet, p.type = "start"
    PROVE  Folded(e, s, p) = ToolRecord(e, s, p)
<1>1. Fold(e, s, p) = Stored(e, s, ToolRecord(e, s, p))
    BY DEF Fold, FoldTool
<1> QED BY <1>1 DEF Folded, Stored

LEMMA FoldedCall ==
    ASSUME NEW e \in Timeline, NEW s \in 1..(Len(e) + 1), NEW p \in Packet, p.type = "call"
    PROVE  Folded(e, s, p) = [ToolRecord(e, s, p) EXCEPT !.args = TRUE]
<1>1. Fold(e, s, p) = Stored(e, s, [ToolRecord(e, s, p) EXCEPT !.args = TRUE])
    BY DEF Fold, FoldTool
<1> QED BY <1>1 DEF Folded, Stored

LEMMA FoldedEnd ==
    ASSUME NEW e \in Timeline, NEW s \in 1..(Len(e) + 1), NEW p \in Packet, p.type = "end"
    PROVE  Folded(e, s, p) = [ToolRecord(e, s, p) EXCEPT !.status = p.status]
<1>1. Fold(e, s, p) = Stored(e, s, [ToolRecord(e, s, p) EXCEPT !.status = p.status])
    BY DEF Fold, FoldTool
<1> QED BY <1>1 DEF Folded, Stored

LEMMA FoldedText ==
    ASSUME NEW e \in Timeline, NEW s \in 1..(Len(e) + 1), NEW p \in Packet, p.type = "delta"
    PROVE  /\ At(e, s, "text") =>
                 Folded(e, s, p) = [kind |-> "text", content |-> e[s].content \o p.delta]
           /\ ~At(e, s, "text") => Folded(e, s, p) = [kind |-> "text", content |-> p.delta]
<1>1. Folded(e, s, p) = [kind |-> "text", content |-> TextAfter(e, s, p)]
    BY FoldedDelta
<1>2. /\ At(e, s, "text") => TextAfter(e, s, p) = e[s].content \o p.delta
      /\ ~At(e, s, "text") => TextAfter(e, s, p) = p.delta
    BY DEF TextAfter
<1> QED BY <1>1, <1>2

LEMMA RecordType ==
    ASSUME NEW e \in Timeline, NEW s \in 1..(Len(e) + 1), NEW p \in Packet, p.type # "delta"
    PROVE  ToolRecord(e, s, p) \in ToolEvent
<1>1. p.id \in Nat
    BY DEF Packet
<1>2. CASE At(e, s, "tool")
    BY <1>2, EventKinds DEF ToolRecord, At, Timeline
<1>3. CASE ~At(e, s, "tool")
    BY <1>1, <1>3 DEF ToolRecord, ToolEvent
<1> QED BY <1>2, <1>3

\* A packet of a tool that is there.
LEMMA FoldedTool ==
    ASSUME NEW e \in Timeline, NEW s \in 1..(Len(e) + 1), NEW p \in Packet,
           p.type # "delta", At(e, s, "tool")
    PROVE  /\ Folded(e, s, p) \in ToolEvent
           /\ Folded(e, s, p).id = e[s].id
           /\ Folded(e, s, p).args = (p.type = "call" \/ e[s].args)
           /\ Folded(e, s, p).status = IF p.type = "end" THEN p.status ELSE e[s].status
<1> DEFINE record == e[s]
<1>1. ToolRecord(e, s, p) = record /\ record \in ToolEvent
    BY RecordType DEF ToolRecord
<1>2. p.type \in {"start", "call", "end"} /\ (p.type = "end" => p.status \in {"ok", "error"})
    BY DEF Packet
<1> DEFINE ended == p.status
           folded == Folded(e, s, p)
<1>3. /\ p.type = "start" => folded = ToolRecord(e, s, p)
      /\ p.type = "call" => folded = [ToolRecord(e, s, p) EXCEPT !.args = TRUE]
    BY FoldedStart, FoldedCall
<1>4. ASSUME p.type = "end" PROVE folded = [ToolRecord(e, s, p) EXCEPT !.status = ended]
    BY <1>4, FoldedEnd
<1> HIDE DEF record, folded, ended
<1>5. CASE p.type = "start"
    BY <1>1, <1>3, <1>5 DEF ToolEvent, record, folded
<1>6. CASE p.type = "call"
    <2>1. folded = [record EXCEPT !.args = TRUE]
        BY <1>1, <1>3, <1>6
    <2> QED BY <1>1, <1>6, <2>1 DEF ToolEvent, record, folded
<1>7. CASE p.type = "end"
    <2>1. folded = [record EXCEPT !.status = ended]
        BY <1>1, <1>4, <1>7
    <2>2. ended \in {"ok", "error"}
        BY <1>2, <1>7 DEF ended
    <2> QED BY <1>1, <1>7, <2>1, <2>2 DEF ToolEvent, record, folded, ended
<1> QED BY <1>2, <1>5, <1>6, <1>7

LEMMA FoldedType ==
    ASSUME NEW e \in Timeline, NEW s \in 1..(Len(e) + 1), NEW p \in Packet
    PROVE  Folded(e, s, p) \in Event
<1>1. CASE p.type = "delta"
    <2>1. p.delta \in Seq(Nat)
        BY <1>1 DEF Packet
    <2>2. At(e, s, "text") => e[s].content \in Seq(Nat)
        BY EventKinds DEF At, Timeline
    <2>3. TextAfter(e, s, p) \in Seq(Nat)
        BY <2>1, <2>2 DEF TextAfter
    <2>4. Folded(e, s, p) = [kind |-> "text", content |-> TextAfter(e, s, p)]
        BY <1>1, FoldedDelta
    <2> QED BY <2>3, <2>4, TextIsEvent
<1>2. CASE p.type # "delta"
    <2> DEFINE record == ToolRecord(e, s, p)
    <2>1. record \in ToolEvent
        BY <1>2, RecordType
    <2>2. p.type = "end" => p.status \in {"ok", "error"}
        BY DEF Packet
    <2>3. /\ [record EXCEPT !.args = TRUE] \in ToolEvent
          /\ p.type = "end" => [record EXCEPT !.status = p.status] \in ToolEvent
        BY <2>1, <2>2 DEF ToolEvent
    <2>4. p.type \in {"start", "call", "end"}
        BY <1>2 DEF Packet
    <2>5. /\ p.type = "start" => Folded(e, s, p) = record
          /\ p.type = "call" => Folded(e, s, p) = [record EXCEPT !.args = TRUE]
        BY FoldedStart, FoldedCall
    <2>6. ASSUME p.type = "end" PROVE Folded(e, s, p) = [record EXCEPT !.status = p.status]
        BY <2>6, FoldedEnd
    <2> HIDE DEF record
    <2> QED BY <2>1, <2>3, <2>4, <2>5, <2>6 DEF Event
<1> QED BY <1>1, <1>2

\* A fold changes the event at its step, or appends one.
LEMMA FoldPuts ==
    ASSUME NEW e \in Timeline, NEW s \in 1..(Len(e) + 1), NEW p \in Packet
    PROVE  /\ Fold(e, s, p) = IF s = Len(e) + 1 THEN Append(e, Folded(e, s, p))
                              ELSE [e EXCEPT ![s] = Folded(e, s, p)]
           /\ Fold(e, s, p) \in Timeline
<1>1. PICK v : Fold(e, s, p) = Stored(e, s, v)
    BY DEF Fold, FoldText, FoldTool
<1>2. Stored(e, s, v) = [t \in {s} \cup DOMAIN e |-> IF t = s THEN v ELSE e[t]]
    BY DEF Stored
<1>3. Folded(e, s, p) = v
    BY <1>1, <1>2 DEF Folded
<1>4. v \in Event
    BY <1>3, FoldedType
<1>5. e \in Seq(Event) /\ DOMAIN e = 1..Len(e) /\ Len(e) \in Nat
    BY DEF Timeline
<1>6. CASE s = Len(e) + 1
    <2>1. {s} \cup DOMAIN e = 1..(Len(e) + 1)
        BY <1>5, <1>6
    <2> DEFINE f == [t \in 1..(Len(e) + 1) |-> IF t = s THEN v ELSE e[t]]
    <2>3. /\ Append(e, v) \in Seq(Event) /\ Len(Append(e, v)) = Len(e) + 1
          /\ \A t \in 1..(Len(e) + 1) : Append(e, v)[t] = IF t = Len(e) + 1 THEN v ELSE e[t]
        BY <1>4, <1>5, AppendProperties
    <2>4. f \in Seq(Event) /\ Len(f) = Len(e) + 1
        BY <1>4, <1>5, <1>6
    <2>2. Append(e, v) = f
        BY <1>6, <2>3, <2>4, SeqEqual
    <2> QED BY <1>1, <1>2, <1>3, <1>6, <2>1, <2>2, <2>3 DEF Timeline
<1>7. CASE s # Len(e) + 1
    <2>1. s \in 1..Len(e) /\ {s} \cup DOMAIN e = 1..Len(e)
        BY <1>5, <1>7
    <2>2. [e EXCEPT ![s] = v] = [t \in 1..Len(e) |-> IF t = s THEN v ELSE e[t]]
        BY <1>5, <2>1
    <2>3. [e EXCEPT ![s] = v] \in Seq(Event)
        BY <1>4, <1>5, <2>1, ExceptSeq
    <2> QED BY <1>1, <1>2, <1>3, <1>7, <2>1, <2>2, <2>3 DEF Timeline
<1> QED BY <1>6, <1>7

\* The server's fold and the client's reducer agree on every packet.
LEMMA ReduceIsFold ==
    ASSUME NEW e \in Timeline, NEW s \in 1..(Len(e) + 1), NEW p \in Packet
    PROVE  Reduce(e, s, p) = Fold(e, s, p)
<1> DEFINE base == ToolRecord(e, s, p)
           text == IF At(e, s, "text") THEN e[s].content ELSE <<>>
           next == IF p.type = "delta" THEN [kind |-> "text", content |-> text \o p.delta]
                   ELSE [base EXCEPT !.args = @ \/ p.type = "call",
                                     !.status = IF p.type = "end" THEN p.status ELSE @]
<1>1. Reduce(e, s, p) = [t \in DOMAIN e \cup {s} |-> IF t = s THEN next ELSE e[t]]
    BY DEF Reduce, ToolRecord
<1>2. PICK v : Fold(e, s, p) = Stored(e, s, v)
    BY DEF Fold, FoldText, FoldTool
<1>3. Stored(e, s, v) = [t \in DOMAIN e \cup {s} |-> IF t = s THEN v ELSE e[t]]
    BY DEF Stored
<1>4. v = Folded(e, s, p)
    BY <1>2, <1>3 DEF Folded
<1>5. CASE p.type = "delta"
    <2>1. p.delta \in Seq(Nat)
        BY <1>5 DEF Packet
    <2>2. <<>> \o p.delta = p.delta
        BY <2>1
    <2>3. next = v
        <3>1. text \o p.delta = TextAfter(e, s, p)
            BY <2>2 DEF TextAfter
        <3>2. v = [kind |-> "text", content |-> TextAfter(e, s, p)]
            BY <1>4, <1>5, FoldedDelta
        <3> HIDE DEF text
        <3> QED BY <1>5, <3>1, <3>2
    <2> HIDE DEF next
    <2> QED BY <1>1, <1>2, <1>3, <2>3
<1>6. CASE p.type # "delta"
    <2>1. base \in ToolEvent
        BY <1>6, RecordType
    <2>2. p.type \in {"start", "call", "end"}
        BY <1>6 DEF Packet
    <2>3. /\ p.type = "start" => next = base
          /\ p.type = "call" => next = [base EXCEPT !.args = TRUE]
          /\ p.type = "end" => next = [base EXCEPT !.status = p.status]
        <3> HIDE DEF base
        <3> QED BY <2>1 DEF ToolEvent
    <2>4. next = v
        <3> HIDE DEF next
        <3>1. p.type = "start" => v = base
            BY <1>4, FoldedStart
        <3>2. p.type = "call" => v = [base EXCEPT !.args = TRUE]
            BY <1>4, FoldedCall
        <3>3. ASSUME p.type = "end" PROVE v = [base EXCEPT !.status = p.status]
            <4>1. Folded(e, s, p) = [ToolRecord(e, s, p) EXCEPT !.status = p.status]
                BY <3>3, FoldedEnd
            <4> QED BY <1>4, <4>1
        <3> HIDE DEF base
        <3> QED BY <2>2, <2>3, <3>1, <3>2, <3>3
    <2> HIDE DEF next
    <2> QED BY <1>1, <1>2, <1>3, <2>4
<1> QED BY <1>5, <1>6
-----------------------------------------------------------------------------
(* What each kind of packet does to the numbering and the timelines.       *)

LEMMA StoredStep ==
    ASSUME NEW f \in ToolSteps, NEW id \in Nat, NEW n \in Nat
    PROVE  Stored(f, id, n) \in ToolSteps /\ DOMAIN f \subseteq Nat
<1>1. PICK ids \in SUBSET Nat : f \in [ids -> Nat]
    BY DEF ToolSteps
<1>2. Stored(f, id, n) \in [ids \cup {id} -> Nat]
    BY <1>1 DEF Stored
<1> QED BY <1>1, <1>2 DEF ToolSteps

\* One event more, or the latest one changed.
Grows(v) == events' = Append(events, v)
Refines(v) == Len(events) > 0 /\ events' = [events EXCEPT ![Len(events)] = v]

LEMMA GrowsIs ==
    ASSUME events \in Timeline, NEW v, Grows(v) \/ Refines(v), events' \in Timeline
    PROVE  /\ Len(events') > 0 /\ events'[Len(events')] = v
           /\ Grows(v) => Len(events') = Len(events) + 1
           /\ Refines(v) => Len(events') = Len(events)
           /\ \A s \in 1..Len(events) : s # Len(events') => events'[s] = events[s]
<1>1. CASE Grows(v)
    <2>1. events' = Append(events, v) /\ events \in Seq(Event) /\ Len(events) \in Nat
        BY <1>1 DEF Grows, Timeline
    <2>2. /\ Len(events') = Len(events) + 1 /\ events'[Len(events) + 1] = v
          /\ \A s \in 1..Len(events) : events'[s] = events[s]
        BY <2>1
    <2>3. ~Refines(v)
        <3>1. PICK n \in Nat : n = Len(events)
            BY <2>1
        <3>2. DOMAIN events = 1..n /\ DOMAIN events' = 1..(n + 1)
            BY <2>1, <3>1
        <3>3. Refines(v) => DOMAIN events' = DOMAIN events
            BY DEF Refines
        <3>4. n + 1 \in 1..(n + 1) /\ n + 1 \notin 1..n
            OBVIOUS
        <3> QED BY <3>2, <3>3, <3>4, Zenon
    <2> QED BY <2>1, <2>2, <2>3
<1>2. CASE Refines(v)
    <2>1. /\ Len(events) > 0 /\ events' = [events EXCEPT ![Len(events)] = v]
          /\ events \in Seq(Event) /\ Len(events) \in Nat
        BY <1>2 DEF Refines, Timeline
    <2>2. /\ Len(events') = Len(events) /\ events'[Len(events)] = v
          /\ \A s \in 1..Len(events) : s # Len(events) => events'[s] = events[s]
        BY <2>1
    <2>3. ~Grows(v)
        <3> SUFFICES ASSUME Grows(v) PROVE FALSE
            OBVIOUS
        <3>1. events' = Append(events, v)
            BY DEF Grows
        <3>2. Len(Append(events, v)) = Len(events) + 1
            BY <2>1
        <3>3. Len(events') = Len(events) + 1 /\ Len(events) \in Nat
            BY <2>1, <3>1, <3>2
        <3> QED BY <2>2, <3>3
    <2> QED BY <2>1, <2>2, <2>3
<1> QED BY <1>1, <1>2

\* What the actions need to know of a packet once it is numbered and folded.
LEMMA EmitAt ==
    ASSUME TimelineInv, NEW p \in Packet, Emit(p),
           NEW s \in 1..(Len(events) + 1), s = StepOf(assigner', p), s >= Len(events)
    PROVE  /\ events' \in Timeline /\ shown' = events'
           /\ s = Len(events) + 1 => Grows(Folded(events, s, p))
           /\ s = Len(events) => Refines(Folded(events, s, p))
<1>1. /\ assigner' = Assign(assigner, p) /\ events' = Fold(events, s, p)
      /\ shown' = Reduce(shown, s, p)
    BY DEF Emit
<1>2. events \in Timeline /\ Len(events) \in Nat /\ shown = events
    BY DEF TimelineInv, Types, LatestStep, Timeline
<1>4. shown' = events'
    BY <1>1, <1>2, ReduceIsFold
<1>5. /\ events' = IF s = Len(events) + 1 THEN Append(events, Folded(events, s, p))
                   ELSE [events EXCEPT ![s] = Folded(events, s, p)]
      /\ events' \in Timeline
    BY <1>1, <1>2, FoldPuts
<1>6. s = Len(events) => s # Len(events) + 1 /\ Len(events) > 0
    BY <1>2
<1>7. /\ s = Len(events) + 1 => Grows(Folded(events, s, p))
      /\ s = Len(events) => Refines(Folded(events, s, p))
    BY <1>5, <1>6 DEF Grows, Refines
<1> QED BY <1>4, <1>5, <1>7

\* A delta goes on with the latest event if it is text, and opens a text else.
LEMMA EmitText ==
    ASSUME TimelineInv, NEW d \in Nat, Emit(Delta(<<d>>))
    PROVE  /\ events' \in Timeline /\ shown' = events'
           /\ assigner' \in Assigner /\ assigner'.toolSteps = assigner.toolSteps
           /\ \/ Grows([kind |-> "text", content |-> <<d>>])
              \/ /\ Refines([kind |-> "text", content |-> events[Len(events)].content \o <<d>>])
                 /\ events[Len(events)].kind = "text"
           /\ Len(events') = assigner'.next - 1 /\ Len(events') > 0
           /\ assigner'.lastKind = "text" /\ assigner'.textStep = Len(events')
           /\ events'[Len(events')].kind = "text"
<1> DEFINE p == Delta(<<d>>)
<1>0. PICK s : s = StepOf(assigner', p)
    OBVIOUS
<1> DEFINE v == Folded(events, s, p)
<1>1. p \in Packet /\ p.type = "delta" /\ p.delta = <<d>>
    BY DEF Delta, Packet
<1>2. assigner' = Assign(assigner, p) /\ s = assigner'.textStep /\ Emit(p)
    BY <1>0, <1>1 DEF Emit, StepOf
<1>3. /\ events \in Timeline /\ Len(events) \in Nat /\ assigner \in Assigner
      /\ assigner.next = Len(events) + 1
      /\ TextContinues(assigner) =>
             /\ Len(events) > 0 /\ assigner.textStep = Len(events)
             /\ events[Len(events)].kind = "text"
    BY DEF TimelineInv, Types, LatestStep, Timeline, Assigner, TextContinues
<1>4. CASE TextContinues(assigner)
    <2>1. assigner' = assigner
        BY <1>1, <1>2, <1>4 DEF Assign
    <2>2. s = Len(events) /\ Len(events) > 0 /\ events[Len(events)].kind = "text"
        BY <1>2, <1>3, <1>4, <2>1
    <2>3. At(events, Len(events), "text")
        BY <1>3, <2>2 DEF At, Timeline
    <2> HIDE DEF p
    <2>7. s \in 1..(Len(events) + 1) /\ s >= Len(events)
        BY <1>3, <2>2
    <2>4. v = [kind |-> "text", content |-> events[Len(events)].content \o <<d>>]
        BY <1>1, <1>3, <2>2, <2>3, <2>7, FoldedText
    <2> HIDE DEF v
    <2>5. events' \in Timeline /\ shown' = events' /\ Refines(v)
        BY <1>0, <1>1, <1>2, <1>3, <2>2, <2>7, EmitAt DEF v
    <2>6. Len(events') = Len(events) /\ events'[Len(events')] = v
        BY <1>3, <2>5, GrowsIs
    <2> QED BY <1>3, <1>4, <2>1, <2>2, <2>4, <2>5, <2>6 DEF TextContinues
<1>5. CASE ~TextContinues(assigner)
    <2>1. assigner' = [next |-> Len(events) + 2, textStep |-> Len(events) + 1,
                       toolSteps |-> assigner.toolSteps, lastKind |-> "text"]
        <3>1. assigner' = [TakeStep(assigner) EXCEPT !.textStep = assigner.next,
                                                     !.lastKind = "text"]
            BY <1>1, <1>2, <1>5 DEF Assign
        <3> DEFINE t == TakeStep(assigner)
        <3>2. t \in Assigner /\ t.next = Len(events) + 2 /\ t.toolSteps = assigner.toolSteps
            BY <1>3 DEF TakeStep, Assigner
        <3> HIDE DEF t
        <3>3. assigner' = [t EXCEPT !.textStep = Len(events) + 1, !.lastKind = "text"]
            BY <1>3, <3>1 DEF t
        <3> QED BY <1>3, <3>2, <3>3 DEF Assigner
    <2>2. /\ assigner' \in Assigner /\ assigner'.toolSteps = assigner.toolSteps
          /\ assigner'.next = Len(events) + 2 /\ assigner'.textStep = Len(events) + 1
          /\ assigner'.lastKind = "text"
        BY <1>3, <2>1 DEF Assigner, Kinds
    <2>3. s = Len(events) + 1
        BY <1>2, <2>2
    <2>4. ~At(events, Len(events) + 1, "text")
        BY <1>3 DEF At, Timeline
    <2> HIDE DEF p
    <2>8. s \in 1..(Len(events) + 1) /\ s >= Len(events)
        BY <1>3, <2>3
    <2>5. v = [kind |-> "text", content |-> <<d>>]
        BY <1>1, <1>3, <2>3, <2>4, <2>8, FoldedText
    <2> HIDE DEF v
    <2>6. events' \in Timeline /\ shown' = events' /\ Grows(v)
        BY <1>0, <1>1, <1>2, <1>3, <2>3, <2>8, EmitAt DEF v
    <2>7. Len(events') = Len(events) + 1 /\ events'[Len(events')] = v
        BY <1>3, <2>6, GrowsIs
    <2> QED BY <1>3, <2>2, <2>5, <2>6, <2>7
<1> QED BY <1>4, <1>5

\* A call that runs has no step yet: its start packet takes the next one.
LEMMA EmitStart ==
    ASSUME TimelineInv, pc = "next", pending # <<>>, Emit(ToolStart(Head(pending)))
    PROVE  /\ events' \in Timeline /\ shown' = events'
           /\ Grows([kind |-> "tool", id |-> Head(pending), args |-> FALSE,
                     status |-> "none"])
           /\ Head(pending) \in Nat
           /\ assigner' = [next |-> assigner.next + 1, textStep |-> 0,
                           toolSteps |-> Stored(assigner.toolSteps, Head(pending),
                                                assigner.next),
                           lastKind |-> "tool"]
           /\ assigner' \in Assigner
           /\ assigner.next = Len(events) + 1
<1> DEFINE id == Head(pending)
           p == ToolStart(id)
           n == assigner.next
<1>1. /\ pending \in Seq(1..called) /\ called \in Nat /\ Len(pending) \in Nat
      /\ Len(pending) > 0 /\ id = pending[1]
    BY DEF TimelineInv, Types
<1>2. id \in Nat /\ id \notin DOMAIN assigner.toolSteps
    <2>1. id = called - Len(pending) + 1
        BY <1>1 DEF TimelineInv, CallsInOrder
    <2>2. \A i \in DOMAIN assigner.toolSteps : i <= called - Len(pending)
        BY DEF TimelineInv, CallsInOrder
    <2>3. id \in 1..called
        BY <1>1
    <2> HIDE DEF id
    <2> QED BY <1>1, <2>1, <2>2, <2>3
<1> HIDE DEF id
<1>3. p \in Packet /\ p.type = "start" /\ p.id = id
    BY <1>2 DEF ToolStart, Packet
<1>4. /\ events \in Timeline /\ Len(events) \in Nat /\ assigner \in Assigner
      /\ n = Len(events) + 1 /\ n \in Nat \ {0}
    BY DEF TimelineInv, Types, LatestStep, Timeline, Assigner
<1>5. assigner' = Assign(assigner, p) /\ Emit(p)
    BY DEF Emit, id
<1> HIDE DEF p
<1>6. assigner' = [next |-> n + 1, textStep |-> 0,
                   toolSteps |-> Stored(assigner.toolSteps, id, n), lastKind |-> "tool"]
    <2> DEFINE t == TakeStep(assigner)
    <2>1. assigner' = [t EXCEPT !.toolSteps = Stored(@, id, n), !.textStep = 0,
                                !.lastKind = "tool"]
        BY <1>2, <1>3, <1>5 DEF Assign, KnownCall
    <2>2. /\ t \in Assigner /\ t.next = n + 1 /\ t.toolSteps = assigner.toolSteps
        BY <1>4 DEF TakeStep, Assigner
    <2> HIDE DEF t, n
    <2>3. assigner' = [t EXCEPT !.toolSteps = Stored(assigner.toolSteps, id, n),
                                !.textStep = 0, !.lastKind = "tool"]
        BY <2>1, <2>2
    <2> DEFINE stored == Stored(assigner.toolSteps, id, n)
    <2> HIDE DEF stored
    <2>4. assigner' = [t EXCEPT !.toolSteps = stored, !.textStep = 0, !.lastKind = "tool"]
        BY <2>3 DEF stored
    <2>5. assigner' = [next |-> n + 1, textStep |-> 0, toolSteps |-> stored,
                       lastKind |-> "tool"]
        BY <2>2, <2>4 DEF Assigner
    <2> QED BY <2>5 DEF stored
<1>7. assigner' \in Assigner
    <2>1. Stored(assigner.toolSteps, id, n) \in ToolSteps
        <3>1. assigner.toolSteps \in ToolSteps
            BY <1>4 DEF Assigner
        <3> HIDE DEF n
        <3> QED BY <1>2, <1>4, <3>1, StoredStep
    <2> DEFINE stored == Stored(assigner.toolSteps, id, n)
    <2> HIDE DEF stored, n
    <2> QED BY <1>4, <1>6, <2>1 DEF Assigner, Kinds, stored
<1>8. StepOf(assigner', p) = n
    <2>1. StepOf(assigner', p) = assigner'.toolSteps[id]
        BY <1>3 DEF StepOf
    <2>2. assigner'.toolSteps = Stored(assigner.toolSteps, id, n)
        BY <1>6
    <2> DEFINE stored == Stored(assigner.toolSteps, id, n)
    <2>3. stored[id] = n
        BY DEF Stored
    <2> HIDE DEF n, stored
    <2>4. assigner'.toolSteps = stored
        BY <2>2 DEF stored
    <2>5. assigner'.toolSteps[id] = n
        BY <2>3, <2>4
    <2> QED BY <2>1, <2>5
<1>9. events' \in Timeline /\ shown' = events' /\ Grows(Folded(events, n, p))
    <2>1. n \in 1..(Len(events) + 1) /\ n >= Len(events)
        BY <1>4
    <2> HIDE DEF n
    <2> QED BY <1>3, <1>4, <1>5, <1>8, <2>1, EmitAt
<1>10. Folded(events, n, p) = [kind |-> "tool", id |-> id, args |-> FALSE, status |-> "none"]
    <2>1. ~At(events, n, "tool")
        BY <1>4 DEF At, Timeline
    <2>2. n \in 1..(Len(events) + 1)
        BY <1>4
    <2> HIDE DEF n
    <2>3. Folded(events, n, p) = ToolRecord(events, n, p)
        BY <1>3, <1>4, <2>2, FoldedStart
    <2> QED BY <1>3, <2>1, <2>3 DEF ToolRecord
<1> QED BY <1>2, <1>4, <1>6, <1>7, <1>9, <1>10 DEF id, n

\* The call and end packets of the running tool change its record only.
LEMMA EmitOpen ==
    ASSUME TimelineInv, InTool, NEW p \in Packet, p.type \in {"call", "end"},
           p.id = Head(pending), Emit(p)
    PROVE  /\ events' \in Timeline /\ shown' = events'
           /\ assigner' = [assigner EXCEPT !.lastKind = "tool"]
           /\ assigner' \in Assigner
           /\ \E v \in Event :
                 /\ Refines(v) /\ v.kind = "tool"
                 /\ p.type = "call" => v.status = events[Len(events)].status
                 /\ p.type = "end" => v.status = p.status
<1> DEFINE n == Len(events)
<1>1. /\ events \in Timeline /\ n \in Nat /\ assigner \in Assigner /\ n > 0
      /\ events[n].kind = "tool" /\ KnownCall(assigner, ToolStart(Head(pending)))
      /\ assigner.toolSteps[Head(pending)] = n
    BY DEF TimelineInv, Types, LatestStep, RunningTool, Timeline
<1>2. assigner' = [assigner EXCEPT !.lastKind = "tool"]
    BY <1>1 DEF Emit, Assign, KnownCall, ToolStart
<1>3. assigner' \in Assigner /\ assigner'.toolSteps = assigner.toolSteps
    BY <1>1, <1>2 DEF Assigner, Kinds
<1>4. StepOf(assigner', p) = n
    BY <1>1, <1>3 DEF StepOf
<1>5. n \in 1..(n + 1) /\ n >= n /\ n = Len(events)
    BY <1>1
<1>6. At(events, n, "tool")
    BY <1>1 DEF At, Timeline
<1> HIDE DEF n
<1>7. events' \in Timeline /\ shown' = events' /\ Refines(Folded(events, n, p))
    BY <1>1, <1>4, <1>5, EmitAt
<1>8. ToolRecord(events, n, p) = events[n] /\ events[n] \in ToolEvent
    BY <1>1, <1>5, <1>6, EventKinds DEF ToolRecord, Timeline
<1>9. Folded(events, n, p) \in Event
    BY <1>1, <1>5, FoldedType
<1>10. /\ Folded(events, n, p).kind = "tool"
       /\ p.type = "call" => Folded(events, n, p).status = events[n].status
       /\ p.type = "end" => Folded(events, n, p).status = p.status
    <2>1. n \in 1..(Len(events) + 1)
        BY <1>5
    <2>2. /\ Folded(events, n, p) \in ToolEvent
          /\ Folded(events, n, p).status = IF p.type = "end" THEN p.status ELSE events[n].status
        BY <1>1, <1>6, <2>1, FoldedTool
    <2> QED BY <2>2 DEF ToolEvent
<1>11. \E v \in Event :
          /\ Refines(v) /\ v.kind = "tool"
          /\ p.type = "call" => v.status = events[Len(events)].status
          /\ p.type = "end" => v.status = p.status
    <2> DEFINE v == Folded(events, n, p)
    <2>1. v \in Event /\ Refines(v)
        BY <1>7, <1>9
    <2> HIDE DEF v
    <2>2. /\ v.kind = "tool"
          /\ p.type = "call" => v.status = events[Len(events)].status
          /\ p.type = "end" => v.status = p.status
        BY <1>5, <1>10 DEF v
    <2> QED BY <2>1, <2>2
<1> QED BY <1>2, <1>3, <1>7, <1>11
-----------------------------------------------------------------------------
(* The invariant of the timeline.                                          *)

LEMMA InitTimelineInv == Init => TimelineInv
<1> SUFFICES ASSUME Init PROVE TimelineInv
    OBVIOUS
<1>1. events = <<>> /\ pending = <<>> /\ messages = <<>> /\ shown = <<>>
    BY DEF Init
<1>2. /\ assigner.next = 1 /\ assigner.textStep = 0 /\ assigner.toolSteps = <<>>
      /\ assigner.lastKind = "none"
      /\ assigner = [next |-> 1, textStep |-> 0, toolSteps |-> <<>>, lastKind |-> "none"]
    BY DEF Init
<1>3. <<>> \in ToolSteps
    <2>1. <<>> \in [{} -> Nat]
        OBVIOUS
    <2> QED BY <2>1 DEF ToolSteps
<1>4. assigner \in Assigner
    <2> DEFINE steps == <<>>
    <2> HIDE DEF steps
    <2>1. assigner = [next |-> 1, textStep |-> 0, toolSteps |-> steps, lastKind |-> "none"]
          /\ steps \in ToolSteps
        BY <1>2, <1>3 DEF steps
    <2> QED BY <2>1 DEF Assigner, Kinds
<1>5. Types
    <2>1. /\ pc = "model" /\ turns = 1 /\ deltas = 0 /\ said = 0 /\ called = 0
          /\ sawError = FALSE
        BY DEF Init
    <2>2. pending \in Seq(1..called) /\ messages \in Seq(Message) /\ events \in Timeline
        <3>1. <<>> \in Seq(1..called) /\ <<>> \in Seq(Message) /\ <<>> \in Seq(Event)
            BY EmptySeq
        <3> QED BY <1>1, <3>1 DEF Timeline
    <2>3. turns \in 1..MaxToolTurns /\ deltas \in 0..MaxDeltas /\ said \in Nat /\ called \in Nat
        BY <2>1, BoundsAssumption
    <2>4. pc \in Pcs /\ sawError \in BOOLEAN
        BY <2>1 DEF Pcs
    <2> QED BY <1>4, <2>2, <2>3, <2>4 DEF Types
<1>6. LatestStep
    BY <1>1, <1>2 DEF LatestStep
<1>7. RunningTool
    BY <1>1 DEF Init, RunningTool, InTool
<1>8. DOMAIN assigner.toolSteps = {}
    BY <1>2
<1>9. CallsInOrder
    BY <1>1, <1>8 DEF Init, CallsInOrder, InTool
<1> QED BY <1>5, <1>6, <1>7, <1>9 DEF TimelineInv

\* A tool without an end is the latest event, and has just been emitted.
LEMMA OpenIsLatest ==
    ASSUME TimelineInv, events' \in Timeline, NEW v, Grows(v) \/ Refines(v),
           Grows(v) => ~InTool
    PROVE  \A s \in 1..Len(events') :
              events'[s].kind = "tool" /\ events'[s].status = "none" =>
                  s = Len(events') /\ v.kind = "tool" /\ v.status = "none"
<1> SUFFICES ASSUME NEW s \in 1..Len(events'),
                    events'[s].kind = "tool", events'[s].status = "none"
             PROVE  s = Len(events') /\ v.kind = "tool" /\ v.status = "none"
    OBVIOUS
<1>1. /\ events \in Timeline /\ Len(events) \in Nat /\ Len(events') \in Nat
      /\ \A t \in 1..Len(events) :
            events[t].kind = "tool" /\ events[t].status = "none" =>
                InTool /\ t = Len(events)
    BY DEF TimelineInv, Types, RunningTool, Timeline
<1>2. /\ events'[Len(events')] = v
      /\ Grows(v) => Len(events') = Len(events) + 1
      /\ Refines(v) => Len(events') = Len(events)
      /\ \A t \in 1..Len(events) : t # Len(events') => events'[t] = events[t]
    BY <1>1, GrowsIs
<1>3. s = Len(events')
    <2> SUFFICES ASSUME s # Len(events') PROVE FALSE
        OBVIOUS
    <2>1. s \in 1..Len(events)
        BY <1>1, <1>2
    <2>2. InTool /\ s = Len(events)
        BY <1>1, <1>2, <2>1
    <2> QED BY <1>2, <2>2
<1> QED BY <1>2, <1>3

LEMMA TextKeepsTimeline ==
    ASSUME TimelineInv, StreamText
    PROVE  TimelineInv'
<1>1. /\ said + 1 \in Nat /\ Emit(Delta(<<said + 1>>)) /\ pc = "model"
      /\ deltas' = deltas + 1 /\ said' = said + 1 /\ deltas < MaxDeltas
      /\ UNCHANGED <<pc, turns, called, pending, messages, sawError>>
    BY DEF StreamText, TimelineInv, Types
<1>2. /\ events' \in Timeline /\ shown' = events'
      /\ assigner' \in Assigner /\ assigner'.toolSteps = assigner.toolSteps
      /\ \/ Grows([kind |-> "text", content |-> <<said + 1>>])
         \/ Refines([kind |-> "text", content |-> events[Len(events)].content \o <<said + 1>>])
      /\ Len(events') = assigner'.next - 1 /\ Len(events') > 0
      /\ assigner'.lastKind = "text" /\ assigner'.textStep = Len(events')
      /\ events'[Len(events')].kind = "text"
    BY <1>1, EmitText
<1>3. Types'
    BY <1>1, <1>2, BoundsAssumption DEF TimelineInv, Types
<1>4. LatestStep'
    BY <1>2 DEF LatestStep
<1>5. RunningTool'
    <2>1. PICK v : (Grows(v) \/ Refines(v)) /\ v.kind = "text"
        BY <1>2
    <2>2. ~InTool /\ ~InTool'
        BY <1>1 DEF InTool
    <2>3. \A s \in 1..Len(events') :
              ~(events'[s].kind = "tool" /\ events'[s].status = "none")
        BY <1>2, <2>1, <2>2, OpenIsLatest
    <2> QED BY <2>2, <2>3 DEF RunningTool
<1>6. CallsInOrder'
    BY <1>1, <1>2 DEF TimelineInv, CallsInOrder, InTool
<1> QED BY <1>3, <1>4, <1>5, <1>6 DEF TimelineInv

LEMMA EndKeepsTimeline ==
    ASSUME TimelineInv, NEW n \in 0..MaxCalls, NEW reason, EndModelTurn(n, reason)
    PROVE  TimelineInv'
<1> DEFINE calls == [k \in 1..n |-> called + k]
<1>1. /\ pc = "model" /\ messages' = Append(messages, AssistantMessage(calls))
      /\ called' = called + n
      /\ \/ pc' = "next" /\ pending' = calls
         \/ pc' = "stopped" /\ pending' = <<>>
      /\ UNCHANGED <<assigner, events, shown, turns, deltas, said, sawError>>
    BY DEF EndModelTurn, Silent
<1>2. n \in Nat /\ called \in Nat /\ messages \in Seq(Message) /\ pending = <<>>
    BY <1>1, BoundsAssumption DEF TimelineInv, Types, CallsInOrder
<1>3. /\ calls \in Seq(1..(called + n)) /\ calls \in Seq(Nat) /\ Len(calls) = n
      /\ \A j \in 1..n : calls[j] = called + j
    BY <1>2
<1> HIDE DEF calls
<1>4. messages' \in Seq(Message)
    <2>1. AssistantMessage(calls) \in Message
        BY <1>3 DEF AssistantMessage, Message
    <2> QED BY <1>1, <1>2, <2>1
<1>5. Types'
    <2>1. pending' \in Seq(1..called')
        <3>1. pending' = calls \/ pending' = <<>>
            BY <1>1
        <3>2. calls \in Seq(1..called')
            BY <1>1, <1>3
        <3>3. <<>> \in Seq(1..called')
            BY EmptySeq
        <3> QED BY <3>1, <3>2, <3>3
    <2>2. pc' \in Pcs
        BY <1>1 DEF Pcs
    <2> QED BY <1>1, <1>2, <1>4, <2>1, <2>2 DEF TimelineInv, Types
<1>6. LatestStep'
    BY <1>1 DEF TimelineInv, LatestStep
<1>7. RunningTool'
    BY <1>1 DEF TimelineInv, RunningTool, InTool
<1>8. CallsInOrder'
    <2>1. \A id \in DOMAIN assigner.toolSteps : id <= called
        BY <1>1, <1>2 DEF TimelineInv, CallsInOrder
    <2>2. CASE pc' = "next" /\ pending' = calls
        <3>1. /\ Len(pending') = n /\ called' - n = called /\ n <= called' /\ ~InTool'
              /\ pc' # "model"
            BY <1>1, <1>2, <1>3, <2>2 DEF InTool
        <3>2. \A j \in 1..n : pending'[j] = (called' - n) + j
            BY <1>3, <2>2, <3>1
        <3>3. \A id \in DOMAIN assigner'.toolSteps : id <= called' - n
            BY <1>1, <2>1, <3>1
        <3> QED BY <3>1, <3>2, <3>3 DEF CallsInOrder
    <2>3. CASE pc' = "stopped" /\ pending' = <<>>
        BY <1>1, <1>2, <2>3 DEF CallsInOrder, InTool
    <2> QED BY <1>1, <2>2, <2>3
<1> QED BY <1>5, <1>6, <1>7, <1>8 DEF TimelineInv

LEMMA StartKeepsTimeline ==
    ASSUME TimelineInv, StartTool
    PROVE  TimelineInv'
<1> DEFINE id == Head(pending)
           v == [kind |-> "tool", id |-> id, args |-> FALSE, status |-> "none"]
           stored == Stored(assigner.toolSteps, id, assigner.next)
<1>1. /\ pc = "next" /\ pending # <<>> /\ Emit(ToolStart(id)) /\ pc' \in {"args", "bad"}
      /\ UNCHANGED <<turns, deltas, said, called, pending, messages, sawError>>
    BY DEF StartTool
<1>2. /\ events' \in Timeline /\ shown' = events' /\ Grows(v) /\ id \in Nat
      /\ assigner' = [next |-> assigner.next + 1, textStep |-> 0, toolSteps |-> stored,
                      lastKind |-> "tool"]
      /\ assigner' \in Assigner /\ assigner.next = Len(events) + 1
    BY <1>1, EmitStart
<1>3. events \in Timeline /\ Len(events) \in Nat
    BY DEF TimelineInv, Types, Timeline
<1> HIDE DEF v, stored
<1>4. /\ Len(events') = Len(events) + 1 /\ events'[Len(events')] = v /\ Len(events') > 0
    BY <1>2, <1>3, GrowsIs
<1>5. /\ assigner'.next = Len(events') + 1 /\ assigner'.lastKind = "tool"
      /\ assigner'.toolSteps = stored
    BY <1>2, <1>3, <1>4
<1>6. /\ stored[id] = Len(events')
      /\ DOMAIN stored = DOMAIN assigner.toolSteps \cup {id}
    BY <1>2, <1>4 DEF stored, Stored
<1>7. Types'
    <2>1. pc' \in Pcs
        BY <1>1 DEF Pcs
    <2> QED BY <1>1, <1>2, <2>1 DEF TimelineInv, Types
<1>8. LatestStep'
    BY <1>2, <1>3, <1>4, <1>5 DEF LatestStep
<1>9. RunningTool'
    <2>1. v.kind = "tool"
        BY DEF v
    <2>2. ~InTool /\ InTool'
        BY <1>1 DEF InTool
    <2>3. /\ \A s \in 1..Len(events') :
                events'[s].kind = "tool" /\ events'[s].status = "none" => s = Len(events')
        BY <1>2, <2>2, OpenIsLatest
    <2>4. KnownCall(assigner', ToolStart(Head(pending')))
        BY <1>1, <1>5, <1>6 DEF KnownCall, ToolStart
    <2>5. assigner'.toolSteps[Head(pending')] = Len(events')
        BY <1>1, <1>5, <1>6
    <2> QED BY <1>1, <1>4, <2>1, <2>2, <2>3, <2>4, <2>5 DEF RunningTool
<1>10. CallsInOrder'
    <2>1. /\ pending \in Seq(1..called) /\ called \in Nat /\ Len(pending) \in Nat
          /\ Len(pending) > 0
        BY <1>1 DEF TimelineInv, Types
    <2>2. id = (called - Len(pending)) + 1
        BY <2>1 DEF TimelineInv, CallsInOrder
    <2>3. \A i \in DOMAIN assigner.toolSteps : i \in Nat /\ i <= called - Len(pending)
        <3>1. assigner.toolSteps \in ToolSteps
            BY DEF TimelineInv, Types, Assigner
        <3>2. DOMAIN assigner.toolSteps \subseteq Nat
            BY <3>1 DEF ToolSteps
        <3> QED BY <1>1, <3>2 DEF TimelineInv, CallsInOrder
    <2>4. \A i \in DOMAIN assigner'.toolSteps : i <= (called - Len(pending)) + 1
        BY <1>5, <1>6, <2>1, <2>2, <2>3
    <2> QED BY <1>1, <2>4 DEF TimelineInv, CallsInOrder, InTool
<1> QED BY <1>7, <1>8, <1>9, <1>10 DEF TimelineInv
LEMMA CallKeepsTimeline ==
    ASSUME TimelineInv, CallTool
    PROVE  TimelineInv'
<1> DEFINE p == ToolCall(Head(pending))
<1>1. /\ pc = "args" /\ Emit(p) /\ pc' = "run" /\ InTool /\ InTool'
      /\ UNCHANGED <<turns, deltas, said, called, pending, messages, sawError>>
    BY DEF CallTool, InTool
<1>2. p \in Packet /\ p.type = "call" /\ p.id = Head(pending)
    <2>1. Head(pending) \in Nat
        BY <1>1 DEF TimelineInv, Types, RunningTool
    <2> QED BY <2>1 DEF ToolCall, Packet
<1> HIDE DEF p
<1>3. /\ events' \in Timeline /\ shown' = events'
      /\ assigner' = [assigner EXCEPT !.lastKind = "tool"] /\ assigner' \in Assigner
    BY <1>1, <1>2, EmitOpen
<1>4. PICK v \in Event : Refines(v) /\ v.kind = "tool"
    BY <1>1, <1>2, EmitOpen
<1>5. /\ events \in Timeline /\ Len(events) \in Nat /\ assigner \in Assigner
    BY DEF TimelineInv, Types, Timeline
<1>6. /\ Len(events') = Len(events) /\ events'[Len(events')] = v /\ Len(events') > 0
    BY <1>3, <1>4, <1>5, GrowsIs
<1>7. /\ assigner'.next = assigner.next /\ assigner'.lastKind = "tool"
      /\ assigner'.toolSteps = assigner.toolSteps
    BY <1>3, <1>5 DEF Assigner
<1>8. Types'
    BY <1>1, <1>3 DEF TimelineInv, Types, Pcs
<1>9. LatestStep'
    BY <1>3, <1>6, <1>7 DEF TimelineInv, LatestStep
<1>10. RunningTool'
    <2>1. ~Grows(v)
        BY <1>3, <1>4, <1>5, <1>6, GrowsIs
    <2>2. \A s \in 1..Len(events') :
              events'[s].kind = "tool" /\ events'[s].status = "none" => s = Len(events')
        BY <1>3, <1>4, <2>1, OpenIsLatest
    <2>3. KnownCall(assigner', ToolStart(Head(pending')))
        BY <1>1, <1>7 DEF TimelineInv, RunningTool, KnownCall
    <2>4. assigner'.toolSteps[Head(pending')] = Len(events')
        BY <1>1, <1>6, <1>7 DEF TimelineInv, RunningTool
    <2> QED BY <1>1, <1>4, <1>6, <2>2, <2>3, <2>4 DEF TimelineInv, RunningTool
<1>11. CallsInOrder'
    BY <1>1, <1>7 DEF TimelineInv, CallsInOrder, InTool
<1> QED BY <1>8, <1>9, <1>10, <1>11 DEF TimelineInv

\* An end packet closes the only tool that was open.
LEMMA EndClosesTool ==
    ASSUME TimelineInv, pc \in {"run", "bad"}, NEW status \in {"ok", "error"},
           Emit(ToolEnd(Head(pending), status))
    PROVE  /\ events' \in Timeline /\ LatestStep'
           /\ assigner' \in Assigner /\ assigner'.toolSteps = assigner.toolSteps
           /\ \A s \in 1..Len(events') :
                 ~(events'[s].kind = "tool" /\ events'[s].status = "none")
<1> DEFINE p == ToolEnd(Head(pending), status)
<1>1. Emit(p) /\ InTool
    BY DEF InTool
<1>2. p \in Packet /\ p.type = "end" /\ p.id = Head(pending) /\ p.status = status
    <2>1. Head(pending) \in Nat
        BY <1>1 DEF TimelineInv, Types, RunningTool
    <2> QED BY <2>1 DEF ToolEnd, Packet
<1> HIDE DEF p
<1>3. /\ events' \in Timeline /\ shown' = events'
      /\ assigner' = [assigner EXCEPT !.lastKind = "tool"] /\ assigner' \in Assigner
    BY <1>1, <1>2, EmitOpen
<1>4. PICK v \in Event : Refines(v) /\ v.status # "none"
    BY <1>1, <1>2, EmitOpen
<1>5. /\ events \in Timeline /\ Len(events) \in Nat /\ assigner \in Assigner
    BY DEF TimelineInv, Types, Timeline
<1>6. Len(events') = Len(events) /\ ~Grows(v)
    BY <1>3, <1>4, <1>5, GrowsIs
<1>7. /\ assigner'.next = assigner.next /\ assigner'.lastKind = "tool"
      /\ assigner'.toolSteps = assigner.toolSteps
    BY <1>3, <1>5 DEF Assigner
<1>8. LatestStep'
    BY <1>3, <1>6, <1>7 DEF TimelineInv, LatestStep
<1>9. \A s \in 1..Len(events') :
         ~(events'[s].kind = "tool" /\ events'[s].status = "none")
    BY <1>3, <1>4, <1>6, OpenIsLatest
<1> QED BY <1>3, <1>7, <1>8, <1>9

LEMMA AnswerKeepsTimeline ==
    ASSUME TimelineInv, pc \in {"run", "bad"}, NEW status \in {"ok", "error"}, Answer(status)
    PROVE  TimelineInv'
<1>1. /\ Emit(ToolEnd(Head(pending), status))
      /\ messages' = Append(messages, ToolMessage(Head(pending)))
      /\ pending' = Tail(pending) /\ pc' = "next"
      /\ UNCHANGED <<turns, deltas, said, called, sawError>>
    BY DEF Answer
<1>2. /\ events' \in Timeline /\ LatestStep'
      /\ assigner' \in Assigner /\ assigner'.toolSteps = assigner.toolSteps
      /\ \A s \in 1..Len(events') :
            ~(events'[s].kind = "tool" /\ events'[s].status = "none")
    BY <1>1, EndClosesTool
<1>3. /\ pending \in Seq(1..called) /\ called \in Nat /\ Len(pending) \in Nat
      /\ pending # <<>> /\ messages \in Seq(Message) /\ Len(pending) > 0
      /\ Head(pending) \in Nat
    BY DEF TimelineInv, Types, RunningTool, InTool
<1>4. /\ pending' \in Seq(1..called) /\ Len(pending') = Len(pending) - 1
      /\ \A j \in 1..(Len(pending) - 1) : pending'[j] = pending[j + 1]
    BY <1>1, <1>3
<1>5. Types'
    <2>1. messages' \in Seq(Message)
        <3>1. ToolMessage(Head(pending)) \in Message
            BY <1>3 DEF ToolMessage, Message
        <3> QED BY <1>1, <1>3, <3>1
    <2>2. pc' \in Pcs /\ pending' \in Seq(1..called')
        BY <1>1, <1>4 DEF Pcs
    <2> QED BY <1>1, <1>2, <2>1, <2>2 DEF TimelineInv, Types
<1>6. RunningTool'
    BY <1>1, <1>2 DEF RunningTool, InTool
<1>7. CallsInOrder'
    <2>1. /\ Len(pending) <= called
          /\ \A j \in 1..Len(pending) : pending[j] = (called - Len(pending)) + j
          /\ \A id \in DOMAIN assigner.toolSteps : id <= (called - Len(pending)) + 1
        BY DEF TimelineInv, CallsInOrder, InTool
    <2>2. \A j \in 1..Len(pending') : pending'[j] = (called - Len(pending')) + j
        BY <1>3, <1>4, <2>1
    <2>3. Len(pending') <= called /\ (called - Len(pending)) + 1 = called - Len(pending')
        BY <1>3, <1>4, <2>1
    <2>4. pc' # "model" /\ ~InTool' /\ called' = called
        BY <1>1 DEF InTool
    <2> QED BY <1>2, <2>1, <2>2, <2>3, <2>4 DEF CallsInOrder
<1> QED BY <1>2, <1>5, <1>6, <1>7 DEF TimelineInv

LEMMA RaiseKeepsTimeline ==
    ASSUME TimelineInv, ToolRaises
    PROVE  TimelineInv'
<1>1. /\ Emit(ToolEnd(Head(pending), "error")) /\ pc = "run" /\ pc' = "raised"
      /\ UNCHANGED <<turns, deltas, said, called, pending, messages, sawError>>
    BY DEF ToolRaises
<1>2. /\ events' \in Timeline /\ LatestStep'
      /\ assigner' \in Assigner /\ assigner'.toolSteps = assigner.toolSteps
      /\ \A s \in 1..Len(events') :
            ~(events'[s].kind = "tool" /\ events'[s].status = "none")
    BY <1>1, EndClosesTool
<1>3. Types'
    BY <1>1, <1>2 DEF TimelineInv, Types, Pcs
<1>4. RunningTool'
    BY <1>1, <1>2 DEF RunningTool, InTool
<1>5. CallsInOrder'
    BY <1>1, <1>2 DEF TimelineInv, CallsInOrder, InTool
<1> QED BY <1>2, <1>3, <1>4, <1>5 DEF TimelineInv

\* An action that emits nothing and leaves no tool to run.
LEMMA SilentKeepsTimeline ==
    ASSUME TimelineInv, Silent, ~InTool, Types',
           UNCHANGED <<pending, called>>,
           \/ pc' \in {"raised", "stopped"}
           \/ pc = "next" /\ pc' = "model" /\ pending = <<>>
    PROVE  TimelineInv'
<1>1. UNCHANGED <<assigner, events, shown, pending, called>> /\ ~InTool'
    BY DEF Silent, InTool
<1>2. LatestStep'
    BY <1>1 DEF TimelineInv, LatestStep
<1>3. RunningTool'
    BY <1>1 DEF TimelineInv, RunningTool
<1>4. CallsInOrder'
    BY <1>1 DEF TimelineInv, CallsInOrder
<1> QED BY <1>2, <1>3, <1>4 DEF TimelineInv

LEMMA NextTurnKeepsTimeline ==
    ASSUME TimelineInv, NextTurn
    PROVE  TimelineInv'
<1>1. /\ pc = "next" /\ pending = <<>> /\ UNCHANGED <<said, called, pending, messages>>
      /\ Silent /\ ~InTool
    BY DEF NextTurn, EmitError, InTool
<1>2. CASE TurnsLeft
    <2>1. pc' = "model" /\ turns' = turns + 1 /\ deltas' = 0 /\ UNCHANGED sawError
        BY <1>2 DEF NextTurn
    <2>2. Types'
        BY <1>1, <1>2, <2>1, BoundsAssumption DEF TimelineInv, Types, Pcs, TurnsLeft, Silent
    <2> QED BY <1>1, <2>1, <2>2, SilentKeepsTimeline
<1>3. CASE ~TurnsLeft
    <2>1. pc' = "stopped" /\ sawError' = TRUE /\ UNCHANGED <<turns, deltas>>
        BY <1>3 DEF NextTurn, EmitError
    <2>2. Types'
        BY <1>1, <2>1 DEF TimelineInv, Types, Pcs, Silent
    <2> QED BY <1>1, <2>1, <2>2, SilentKeepsTimeline
<1> QED BY <1>2, <1>3

LEMMA ErrorKeepsTimeline ==
    ASSUME TimelineInv, ModelFails \/ UnknownTool \/ Propagate
    PROVE  TimelineInv'
<1>1. /\ ~InTool /\ Silent /\ pc' = "stopped" /\ sawError' = TRUE
      /\ UNCHANGED <<turns, deltas, said, called, pending, messages>>
    BY DEF ModelFails, UnknownTool, Propagate, EmitError, InTool
<1>2. Types'
    BY <1>1 DEF TimelineInv, Types, Pcs, Silent
<1> QED BY <1>1, <1>2, SilentKeepsTimeline

LEMMA StepTimelineInv == TimelineInv /\ [Next]_vars => TimelineInv'
<1> SUFFICES ASSUME TimelineInv, [Next]_vars PROVE TimelineInv'
    OBVIOUS
<1>1. CASE StreamText
    BY <1>1, TextKeepsTimeline
<1>2. CASE \E n \in 0..MaxCalls, reason \in {"stop", "tool_calls"} : EndModelTurn(n, reason)
    BY <1>2, EndKeepsTimeline
<1>3. CASE ModelFails \/ UnknownTool \/ Propagate
    BY <1>3, ErrorKeepsTimeline
<1>4. CASE StartTool
    BY <1>4, StartKeepsTimeline
<1>5. CASE CallTool
    BY <1>5, CallKeepsTimeline
<1>6. CASE ToolSucceeds
    BY <1>6, AnswerKeepsTimeline DEF ToolSucceeds
<1>7. CASE ToolRefused
    BY <1>7, AnswerKeepsTimeline DEF ToolRefused
<1>8. CASE ToolRaises
    BY <1>8, RaiseKeepsTimeline
<1>9. CASE NextTurn
    BY <1>9, NextTurnKeepsTimeline
<1>10. CASE UNCHANGED vars
    BY <1>10 DEF vars, TimelineInv, Types, LatestStep, RunningTool, CallsInOrder, InTool
<1> QED BY <1>1, <1>2, <1>3, <1>4, <1>5, <1>6, <1>7, <1>8, <1>9, <1>10 DEF Next
-----------------------------------------------------------------------------
(* The invariant of the conversation.                                      *)

LEMMA MessageKinds ==
    ASSUME NEW m \in Message
    PROVE  /\ m.role \in {"assistant", "tool"}
           /\ m.role = "assistant" => m.calls \in Seq(Nat) /\ Len(m.calls) \in Nat
<1>1. m.role = "assistant" => m.calls \in Seq(Nat)
    BY DEF Message
<1>2. m.role \in {"assistant", "tool"}
    BY DEF Message
<1> QED BY <1>1, <1>2

\* What one message more leaves as it was.
LEMMA AppendedIs ==
    ASSUME messages \in Seq(Message), NEW m \in Message, messages' = Append(messages, m)
    PROVE  /\ messages' \in Seq(Message) /\ Len(messages) \in Nat
           /\ Len(messages') = Len(messages) + 1
           /\ messages'[Len(messages) + 1] = m
           /\ \A k \in 1..Len(messages) : messages'[k] = messages[k]
OBVIOUS

\* An answered message stays answered, if what follows its answers is a message
\* of the model, or has been one for long.
LEMMA CompleteStays ==
    ASSUME messages \in Seq(Message), NEW m \in Message, messages' = Append(messages, m),
           NEW k \in 1..Len(messages), messages[k].role = "assistant", Complete(k),
           m.role = "assistant" \/ k + Len(messages[k].calls) + 1 <= Len(messages)
    PROVE  Complete(k)'
<1> DEFINE calls == messages[k].calls
           after == k + Len(calls) + 1
<1>1. calls \in Seq(Nat) /\ Len(calls) \in Nat /\ DOMAIN calls = 1..Len(calls)
    BY MessageKinds
<1>2. /\ Len(messages) \in Nat /\ DOMAIN messages = 1..Len(messages)
      /\ DOMAIN messages' = 1..(Len(messages) + 1)
      /\ messages'[Len(messages) + 1] = m
      /\ \A i \in 1..Len(messages) : messages'[i] = messages[i]
    BY AppendedIs
<1>3. /\ \A j \in DOMAIN calls :
             k + j \in DOMAIN messages /\ messages[k + j] = ToolMessage(calls[j])
      /\ after \in DOMAIN messages => messages[after].role = "assistant"
    BY DEF Complete
<1>4. messages'[k].calls = calls
    BY <1>2
<1> HIDE DEF calls
<1>5. \A j \in DOMAIN calls :
          k + j \in DOMAIN messages' /\ messages'[k + j] = ToolMessage(calls[j])
    BY <1>2, <1>3
<1>6. after \in DOMAIN messages' => messages'[after].role = "assistant"
    <2> SUFFICES ASSUME after \in DOMAIN messages' PROVE messages'[after].role = "assistant"
        OBVIOUS
    <2>1. CASE after \in DOMAIN messages
        BY <1>2, <1>3, <2>1
    <2>2. CASE after \notin DOMAIN messages
        <3>0. after \in Nat /\ after > 0
            BY <1>1, <1>2
        <3>1. after = Len(messages) + 1
            <4> HIDE DEF after
            <4> QED BY <1>2, <2>2, <3>0
        <3>2. m.role = "assistant"
            BY <1>1, <1>2, <3>1 DEF calls
        <3> HIDE DEF after
        <3> QED BY <1>2, <3>1, <3>2
    <2> QED BY <2>1, <2>2
<1>7. Complete(k)' <=>
          /\ \A j \in DOMAIN (messages'[k].calls) :
                k + j \in DOMAIN messages' /\ messages'[k + j] = ToolMessage(messages'[k].calls[j])
          /\ k + Len(messages'[k].calls) + 1 \in DOMAIN messages' =>
                messages'[k + Len(messages'[k].calls) + 1].role = "assistant"
    BY DEF Complete
<1> QED BY <1>4, <1>5, <1>6, <1>7

LEMMA InitConversationInv == Init => ConversationInv
<1> SUFFICES ASSUME Init PROVE ConversationInv
    OBVIOUS
<1>1. pc = "model" /\ messages = <<>>
    BY DEF Init
<1> QED BY <1>1 DEF ConversationInv, CompleteBut

\* The model asks for calls: its message is the open one.
LEMMA EndKeepsConversation ==
    ASSUME TimelineInv, ConversationInv,
           NEW n \in 0..MaxCalls, NEW reason, EndModelTurn(n, reason)
    PROVE  ConversationInv'
<1> DEFINE calls == [k \in 1..n |-> called + k]
           m == AssistantMessage(calls)
<1>1. /\ pc = "model" /\ messages' = Append(messages, m)
      /\ \/ pc' = "next" /\ pending' = calls
         \/ pc' = "stopped"
    BY DEF EndModelTurn, Silent
<1>2. n \in Nat /\ called \in Nat /\ messages \in Seq(Message)
    BY BoundsAssumption DEF TimelineInv, Types
<1>3. calls \in Seq(Nat) /\ Len(calls) = n
    BY <1>2
<1> HIDE DEF calls
<1>4. m \in Message /\ m.role = "assistant" /\ m.calls = calls
    BY <1>3 DEF AssistantMessage, Message
<1> HIDE DEF m
<1>0. PICK K : K = Len(messages) + 1
    OBVIOUS
<1>5. /\ Len(messages) \in Nat /\ Len(messages') = K /\ messages'[K] = m
      /\ \A k \in 1..Len(messages) : messages'[k] = messages[k]
    BY <1>0, <1>1, <1>2, <1>4, AppendedIs
<1>6. CASE pc' = "stopped"
    BY <1>6 DEF ConversationInv
<1>7. CASE pc' = "next" /\ pending' = calls
    <2>1. CompleteBut({K})'
        <3> SUFFICES ASSUME NEW k \in 1..Len(messages'), messages'[k].role = "assistant",
                            k \notin {K}
                     PROVE  Complete(k)'
            BY DEF CompleteBut
        <3>1. k \in 1..Len(messages) /\ messages[k].role = "assistant"
            BY <1>0, <1>5
        <3>2. Complete(k)
            BY <1>1, <3>1 DEF ConversationInv, CompleteBut
        <3> QED BY <1>1, <1>2, <1>4, <3>1, <3>2, CompleteStays
    <2>2. Open(K)'
        <3>1. /\ messages'[K].calls = calls /\ pending' = calls
              /\ Len(calls) - Len(calls) = 0 /\ Len(messages') = K + 0
            BY <1>0, <1>3, <1>4, <1>5, <1>7
        <3>2. \A j \in 1..Len(calls) : pending'[j] = calls[0 + j]
            BY <1>3, <1>7
        <3>3. Open(K)' <=>
                  /\ Len(messages'[K].calls) - Len(pending') >= 0
                  /\ Len(messages') = K + (Len(messages'[K].calls) - Len(pending'))
                  /\ \A j \in 1..(Len(messages'[K].calls) - Len(pending')) :
                        messages'[K + j] = ToolMessage(messages'[K].calls[j])
                  /\ \A j \in 1..Len(pending') :
                        pending'[j] = messages'[K].calls[(Len(messages'[K].calls) - Len(pending')) + j]
            BY DEF Open
        <3> QED BY <3>1, <3>2, <3>3
    <2>3. K \in 1..Len(messages') /\ messages'[K].role = "assistant"
        BY <1>0, <1>4, <1>5
    <2> QED BY <1>7, <2>1, <2>2, <2>3 DEF ConversationInv
<1> QED BY <1>1, <1>6, <1>7

\* A tool message answers the first call that is pending; no other message of
\* the model is the last one but its answers.
LEMMA AnswerKeepsConversation ==
    ASSUME TimelineInv, ConversationInv, pc \in {"run", "bad"},
           NEW status \in {"ok", "error"}, Answer(status)
    PROVE  ConversationInv'
<1> DEFINE m == ToolMessage(Head(pending))
<1>1. /\ messages' = Append(messages, m) /\ pending' = Tail(pending) /\ pc' = "next"
    BY DEF Answer
<1>2. /\ pending \in Seq(1..called) /\ called \in Nat /\ Len(pending) \in Nat
      /\ pending # <<>> /\ messages \in Seq(Message) /\ Len(pending) > 0
      /\ Head(pending) = pending[1] /\ Head(pending) \in Nat
    BY DEF TimelineInv, Types, RunningTool, InTool
<1>3. m \in Message /\ m.role = "tool"
    BY <1>2 DEF ToolMessage, Message
<1>4. PICK K \in 1..Len(messages) :
          messages[K].role = "assistant" /\ Open(K) /\ CompleteBut({K})
    BY DEF ConversationInv
<1> DEFINE calls == messages[K].calls
           done == Len(calls) - Len(pending)
<1>5. /\ done >= 0 /\ Len(messages) = K + done
      /\ \A j \in 1..done : messages[K + j] = ToolMessage(calls[j])
      /\ \A j \in 1..Len(pending) : pending[j] = calls[done + j]
    BY <1>4 DEF Open
<1>6. calls \in Seq(Nat) /\ Len(calls) \in Nat /\ done \in Int
    BY <1>2, <1>4, MessageKinds
<1>7. /\ Len(pending') = Len(pending) - 1
      /\ \A j \in 1..(Len(pending) - 1) : pending'[j] = pending[j + 1]
    BY <1>1, <1>2
<1>8. /\ Len(messages) \in Nat /\ Len(messages') = Len(messages) + 1
      /\ messages'[Len(messages) + 1] = m
      /\ \A k \in 1..Len(messages) : messages'[k] = messages[k]
    BY <1>1, <1>2, <1>3, AppendedIs
<1>9. messages'[K].calls = calls /\ messages'[K].role = "assistant" /\ K \in 1..Len(messages')
    BY <1>4, <1>8
<1>10. m = ToolMessage(calls[done + 1])
    BY <1>2, <1>5
<1> HIDE DEF m, calls
<1>11. Open(K)'
    <2> DEFINE now == Len(calls) - Len(pending')
    <2>1. now = done + 1
        BY <1>2, <1>6, <1>7
    <2>2. now >= 0 /\ Len(messages') = K + now
        <3> HIDE DEF now, done
        <3> QED BY <1>5, <1>6, <1>8, <2>1
    <2>3. \A j \in 1..now : messages'[K + j] = ToolMessage(calls[j])
        <3> SUFFICES ASSUME NEW j \in 1..now PROVE messages'[K + j] = ToolMessage(calls[j])
            OBVIOUS
        <3> HIDE DEF now, done
        <3>1. CASE j \in 1..done
            BY <1>5, <1>6, <1>8, <3>1
        <3>2. CASE j \notin 1..done
            <4>1. j = done + 1 /\ K + j = Len(messages) + 1
                BY <1>5, <1>6, <2>1, <3>2
            <4> QED BY <1>8, <1>10, <4>1
        <3> QED BY <3>1, <3>2
    <2>4. \A j \in 1..Len(pending') : pending'[j] = calls[now + j]
        <3> SUFFICES ASSUME NEW j \in 1..Len(pending') PROVE pending'[j] = calls[now + j]
            OBVIOUS
        <3>1. j + 1 \in 1..Len(pending) /\ j \in 1..(Len(pending) - 1)
            BY <1>2, <1>7
        <3>2. pending[j + 1] = calls[done + (j + 1)]
            BY <1>5, <3>1
        <3>3. done + (j + 1) = now + j
            BY <1>6, <2>1
        <3> QED BY <1>7, <3>1, <3>2, <3>3
    <2>5. Open(K)' <=>
              /\ Len(messages'[K].calls) - Len(pending') >= 0
              /\ Len(messages') = K + (Len(messages'[K].calls) - Len(pending'))
              /\ \A j \in 1..(Len(messages'[K].calls) - Len(pending')) :
                    messages'[K + j] = ToolMessage(messages'[K].calls[j])
              /\ \A j \in 1..Len(pending') :
                    pending'[j] = messages'[K].calls[(Len(messages'[K].calls) - Len(pending')) + j]
        BY DEF Open
    <2> QED BY <1>9, <2>2, <2>3, <2>4, <2>5
<1>12. CompleteBut({K})'
    <2> SUFFICES ASSUME NEW k \in 1..Len(messages'), messages'[k].role = "assistant", k # K
                 PROVE  Complete(k)'
        BY DEF CompleteBut
    <2>1. k \in 1..Len(messages) /\ messages[k].role = "assistant"
        BY <1>3, <1>8
    <2>2. Complete(k)
        BY <1>4, <2>1 DEF CompleteBut
    <2> DEFINE answered == Len(messages[k].calls)
    <2>3. answered \in Nat /\ DOMAIN messages[k].calls = 1..answered
        BY <1>2, <2>1, MessageKinds
    <2>4. \A j \in 1..answered : messages[k + j].role = "tool"
        <3>1. \A j \in 1..answered : messages[k + j] = ToolMessage(messages[k].calls[j])
            BY <2>2, <2>3 DEF Complete
        <3> HIDE DEF answered
        <3> SUFFICES ASSUME NEW j \in 1..answered PROVE messages[k + j].role = "tool"
            OBVIOUS
        <3>2. messages[k + j] = ToolMessage(messages[k].calls[j])
            BY <3>1
        <3> QED BY <3>2 DEF ToolMessage
    <2> HIDE DEF answered
    <2>5. k < K
        <3> SUFFICES ASSUME k > K PROVE FALSE
            BY <1>4, <2>1
        <3>1. k - K \in 1..done
            BY <1>4, <1>5, <1>6, <2>1
        <3> DEFINE j == k - K
        <3>2. messages[K + j].role = "tool"
            <4> HIDE DEF done, j
            <4>1. messages[K + j] = ToolMessage(calls[j])
                BY <1>5, <3>1 DEF j
            <4> QED BY <4>1 DEF ToolMessage
        <3>3. K + j = k
            BY <1>4, <2>1
        <3> HIDE DEF j
        <3> QED BY <2>1, <3>2, <3>3
    <2>6. k + answered + 1 <= K
        <3> SUFFICES ASSUME K - k <= answered PROVE FALSE
            BY <1>4, <2>1, <2>3
        <3>1. K - k \in 1..answered
            BY <1>4, <2>1, <2>3, <2>5
        <3> DEFINE j == K - k
        <3>2. messages[k + j].role = "tool"
            BY <2>4, <3>1
        <3>3. k + j = K
            BY <1>4, <2>1
        <3> HIDE DEF j
        <3> QED BY <1>4, <3>2, <3>3
    <2>7. k + Len(messages[k].calls) + 1 <= Len(messages)
        BY <1>4, <1>8, <2>1, <2>3, <2>6 DEF answered
    <2> QED BY <1>1, <1>2, <1>3, <2>1, <2>2, <2>7, CompleteStays
<1> QED BY <1>1, <1>9, <1>11, <1>12 DEF ConversationInv

\* All calls ran: the open message is complete.
LEMMA NextTurnKeepsConversation ==
    ASSUME TimelineInv, ConversationInv, NextTurn
    PROVE  ConversationInv'
<1>1. pc = "next" /\ pending = <<>> /\ UNCHANGED <<pending, messages>>
      /\ pc' \in {"model", "stopped"}
    BY DEF NextTurn, EmitError
<1>2. PICK K \in 1..Len(messages) :
          messages[K].role = "assistant" /\ Open(K) /\ CompleteBut({K})
    BY <1>1 DEF ConversationInv
<1>3. messages \in Seq(Message) /\ Len(messages) \in Nat /\ DOMAIN messages = 1..Len(messages)
    BY DEF TimelineInv, Types
<1> DEFINE calls == messages[K].calls
<1>4. calls \in Seq(Nat) /\ Len(calls) \in Nat /\ DOMAIN calls = 1..Len(calls)
    BY <1>2, <1>3, MessageKinds
<1>5. /\ Len(messages) = K + Len(calls)
      /\ \A j \in 1..Len(calls) : messages[K + j] = ToolMessage(calls[j])
    <2>1. /\ Len(messages) = K + (Len(calls) - Len(pending))
          /\ \A j \in 1..(Len(calls) - Len(pending)) : messages[K + j] = ToolMessage(calls[j])
        BY <1>2 DEF Open
    <2>2. Len(calls) - Len(pending) = Len(calls)
        BY <1>1, <1>4
    <2> QED BY <2>1, <2>2
<1>6. Complete(K)
    <2>1. \A j \in DOMAIN calls : K + j \in DOMAIN messages
        BY <1>2, <1>3, <1>4, <1>5
    <2>2. K + Len(calls) + 1 \notin DOMAIN messages
        BY <1>2, <1>3, <1>4, <1>5
    <2> QED BY <1>4, <1>5, <2>1, <2>2 DEF Complete
<1>7. CompleteBut({})
    BY <1>2, <1>6 DEF CompleteBut
<1>8. CompleteBut({})'
    BY <1>1, <1>7 DEF CompleteBut, Complete
<1> QED BY <1>1, <1>8 DEF ConversationInv

\* An action that leaves the conversation alone.
LEMMA SameConversation ==
    ASSUME ConversationInv, UNCHANGED <<messages, pending>>,
           \/ pc' = pc
           \/ pc \in {"next", "args", "run", "bad"} /\ pc' \in {"args", "run", "bad"}
           \/ pc' \in {"raised", "stopped"}
    PROVE  ConversationInv'
BY DEF ConversationInv, CompleteBut, Complete, Open

LEMMA StepConversationInv ==
    TimelineInv /\ ConversationInv /\ [Next]_vars => ConversationInv'
<1> SUFFICES ASSUME TimelineInv, ConversationInv, [Next]_vars PROVE ConversationInv'
    OBVIOUS
<1>1. CASE \E n \in 0..MaxCalls, reason \in {"stop", "tool_calls"} : EndModelTurn(n, reason)
    BY <1>1, EndKeepsConversation
<1>2. CASE ToolSucceeds
    BY <1>2, AnswerKeepsConversation DEF ToolSucceeds
<1>3. CASE ToolRefused
    BY <1>3, AnswerKeepsConversation DEF ToolRefused
<1>4. CASE NextTurn
    BY <1>4, NextTurnKeepsConversation
<1>5. CASE StreamText \/ UNCHANGED vars
    <2>1. UNCHANGED <<messages, pending, pc>>
        BY <1>5 DEF StreamText, vars
    <2> QED BY <2>1, SameConversation
<1>6. CASE StartTool \/ CallTool
    <2>1. /\ UNCHANGED <<messages, pending>>
          /\ pc \in {"next", "args", "run", "bad"} /\ pc' \in {"args", "run", "bad"}
        BY <1>6 DEF StartTool, CallTool
    <2> QED BY <2>1, SameConversation
<1>7. CASE ModelFails \/ UnknownTool \/ ToolRaises \/ Propagate
    <2>1. UNCHANGED <<messages, pending>> /\ pc' \in {"raised", "stopped"}
        BY <1>7 DEF ModelFails, UnknownTool, ToolRaises, Propagate, EmitError
    <2> QED BY <2>1, SameConversation
<1> QED BY <1>1, <1>2, <1>3, <1>4, <1>5, <1>6, <1>7 DEF Next
-----------------------------------------------------------------------------
(* The theorems.                                                           *)

LEMMA IInvHolds == Spec => []IInv
<1>1. Init => IInv
    BY InitTimelineInv, InitConversationInv DEF IInv
<1>2. IInv /\ [Next]_vars => IInv'
    BY StepTimelineInv, StepConversationInv DEF IInv
<1> QED BY <1>1, <1>2, PTL DEF Spec

\* The timelines of the server and of the client are dense sequences of text
\* and tool events numbered from 1, for any length of a run.
THEOREM TypeCorrect == Spec => []TypeOK
<1>1. IInv => TypeOK
    <2> SUFFICES ASSUME IInv PROVE TypeOK
        OBVIOUS
    <2>1. Types /\ shown = events
        BY DEF IInv, TimelineInv, LatestStep
    <2>2. \A k \in DOMAIN messages : messages[k].role \in {"assistant", "tool"}
        <3>1. messages \in Seq(Message)
            BY <2>1 DEF Types
        <3> QED BY <3>1, MessageKinds
    <2> QED BY <2>1, <2>2 DEF Types, TypeOK, Assigner
<1> QED BY <1>1, IInvHolds, PTL

\* However a run of run_agent_stream ends, no tool of the client's timeline is
\* left without its end packet.
THEOREM ToolsEnd == Spec => []ToolsClosed
<1>1. IInv => ToolsClosed
    <2> SUFFICES ASSUME IInv, pc = "stopped", NEW s \in DOMAIN shown, shown[s].kind = "tool"
                 PROVE  shown[s].status # "none"
        BY DEF ToolsClosed
    <2>1. /\ shown = events /\ events \in Timeline /\ ~InTool
          /\ \A t \in 1..Len(events) :
                events[t].kind = "tool" /\ events[t].status = "none" => InTool
        BY DEF IInv, TimelineInv, LatestStep, Types, RunningTool, InTool
    <2>2. DOMAIN events = 1..Len(events)
        BY <2>1 DEF Timeline
    <2> QED BY <2>1, <2>2
<1> QED BY <1>1, IInvHolds, PTL

\* Whenever the model is asked again, every tool call of every earlier message
\* has been answered once, in order, before the next message.
THEOREM CallsAreAnswered == Spec => []CallsAnswered
<1>1. IInv => CallsAnswered
    <2> SUFFICES ASSUME IInv, pc = "model" PROVE CallsAnswered
        BY DEF CallsAnswered
    <2>1. CompleteBut({}) /\ DOMAIN messages = 1..Len(messages)
        BY DEF IInv, ConversationInv, TimelineInv, Types
    <2>2. \A k \in DOMAIN messages : messages[k].role = "assistant" => Complete(k)
        BY <2>1 DEF CompleteBut
    <2> QED BY <2>2 DEF CallsAnswered, Complete
<1> QED BY <1>1, IInvHolds, PTL

\* But for a delta, a packet appends a tool or changes one that is the latest.
LEMMA ToolEventAtMost ==
    ASSUME TimelineInv, [Next]_vars, ~StreamText
    PROVE  \/ UNCHANGED events
           \/ /\ events' \in Timeline
              /\ \E v : /\ v.kind = "tool"
                        /\ Grows(v) \/ (Refines(v) /\ events[Len(events)].kind = "tool")
<1>2. CASE StartTool
    <2>1. pc = "next" /\ pending # <<>> /\ Emit(ToolStart(Head(pending)))
        BY <1>2 DEF StartTool
    <2> DEFINE v == [kind |-> "tool", id |-> Head(pending), args |-> FALSE, status |-> "none"]
    <2>2. events' \in Timeline /\ Grows(v)
        BY <2>1, EmitStart
    <2>3. v.kind = "tool"
        OBVIOUS
    <2> HIDE DEF v
    <2> QED BY <2>2, <2>3
<1>3. CASE \E p \in Packet : /\ InTool /\ p.type \in {"call", "end"}
                             /\ p.id = Head(pending) /\ Emit(p)
    <2>1. events[Len(events)].kind = "tool"
        BY <1>3 DEF TimelineInv, RunningTool
    <2> QED BY <1>3, <2>1, EmitOpen
<1>4. CASE CallTool \/ ToolSucceeds \/ ToolRefused \/ ToolRaises
    <2>1. InTool /\ Head(pending) \in Nat
        <3>1. InTool
            BY <1>4 DEF CallTool, ToolSucceeds, ToolRefused, ToolRaises, InTool
        <3> QED BY <3>1 DEF TimelineInv, Types, RunningTool
    <2>2. CASE CallTool
        <3> DEFINE p == ToolCall(Head(pending))
        <3>1. p \in Packet /\ p.type = "call" /\ p.id = Head(pending)
            BY <2>1 DEF ToolCall, Packet
        <3>2. Emit(p)
            BY <2>2 DEF CallTool
        <3> HIDE DEF p
        <3> QED BY <1>3, <2>1, <3>1, <3>2
    <2>3. CASE ToolSucceeds \/ ToolRefused \/ ToolRaises
        <3>1. PICK status \in {"ok", "error"} : Emit(ToolEnd(Head(pending), status))
            BY <2>3 DEF ToolSucceeds, ToolRefused, ToolRaises, Answer
        <3> DEFINE p == ToolEnd(Head(pending), status)
        <3>2. p \in Packet /\ p.type = "end" /\ p.id = Head(pending)
            BY <2>1 DEF ToolEnd, Packet
        <3>3. Emit(p)
            BY <3>1
        <3> HIDE DEF p
        <3> QED BY <1>3, <2>1, <3>2, <3>3
    <2> QED BY <1>4, <2>2, <2>3
<1>5. CASE \/ \E n \in 0..MaxCalls, reason \in {"stop", "tool_calls"} : EndModelTurn(n, reason)
           \/ ModelFails \/ UnknownTool \/ Propagate \/ NextTurn \/ UNCHANGED vars
    BY <1>5 DEF EndModelTurn, ModelFails, UnknownTool, Propagate, NextTurn, EmitError, Silent, vars
<1> QED BY <1>2, <1>4, <1>5 DEF Next

LEMMA OneEventAtMost ==
    ASSUME TimelineInv, [Next]_vars
    PROVE  \/ UNCHANGED events
           \/ events' \in Timeline /\ \E v : Grows(v) \/ Refines(v)
<1>1. CASE StreamText
    <2>1. Emit(Delta(<<said + 1>>)) /\ said + 1 \in Nat
        BY <1>1 DEF StreamText, TimelineInv, Types
    <2> QED BY <2>1, EmitText
<1>2. CASE ~StreamText
    BY <1>2, ToolEventAtMost
<1> QED BY <1>1, <1>2

\* Steps are monotonic: a packet changes the latest event or opens the next one,
\* and every event before it stays as it was.
THEOREM LatestOnly == Spec => OnlyLatestEventChanges
<1> DEFINE Latest ==
        \A s \in DOMAIN events' :
            (s \in DOMAIN events => events[s] # events'[s]) => \A u \in DOMAIN events' : u <= s
<1>1. TimelineInv /\ [Next]_vars => Latest
    <2> SUFFICES ASSUME TimelineInv, [Next]_vars, NEW s \in DOMAIN events',
                        s \in DOMAIN events => events[s] # events'[s],
                        NEW u \in DOMAIN events'
                 PROVE  u <= s
        OBVIOUS
    <2>1. events \in Timeline /\ DOMAIN events = 1..Len(events) /\ Len(events) \in Nat
        BY DEF TimelineInv, Types, Timeline
    <2>2. PICK v : events' \in Timeline /\ (Grows(v) \/ Refines(v))
        <3>1. ~UNCHANGED events
            OBVIOUS
        <3> QED BY <3>1, OneEventAtMost
    <2>3. DOMAIN events' = 1..Len(events') /\ Len(events') \in Nat
        BY <2>2 DEF Timeline
    <2>4. /\ Grows(v) => Len(events') = Len(events) + 1
          /\ Refines(v) => Len(events') = Len(events)
          /\ \A t \in 1..Len(events) : t # Len(events') => events'[t] = events[t]
        BY <2>1, <2>2, GrowsIs
    <2>5. s = Len(events')
        <3> SUFFICES ASSUME s # Len(events') PROVE FALSE
            OBVIOUS
        <3>1. s \in 1..Len(events)
            <4>1. s \in 1..Len(events') /\ s # Len(events')
                BY <2>3
            <4>2. Len(events') \in {Len(events), Len(events) + 1}
                BY <2>2, <2>4
            <4>3. PICK n : n = Len(events')
                OBVIOUS
            <4>4. n \in Nat /\ s \in 1..n /\ s # n /\ n \in {Len(events), Len(events) + 1}
                BY <2>3, <4>1, <4>2, <4>3
            <4>5. Len(events) \in Nat
                BY <2>1
            <4> QED BY <4>4, <4>5
        <3> QED BY <2>1, <2>4, <3>1
    <2> QED BY <2>3, <2>5
<1>2. IInv /\ [Next]_vars => [Latest]_vars
    BY <1>1 DEF IInv
<1> QED BY <1>2, IInvHolds, PTL DEF Spec, OnlyLatestEventChanges
-----------------------------------------------------------------------------
(* What is persisted as the message's text.                                *)

\* The events of a timeline are visited in the order of their steps.
LEMMA StepsAre ==
    ASSUME NEW e \in Timeline
    PROVE  Steps(e) = [k \in 1..Len(e) |-> k]
<1>1. DOMAIN e = 1..Len(e) /\ Len(e) \in Nat
    BY DEF Timeline
<1>2. Cardinality(DOMAIN e) = Len(e)
    <2>0. PICK n \in Nat : n = Len(e)
        BY <1>1
    <2>1. Cardinality(1..n) = IF 1 > n THEN 0 ELSE (n - 1) + 1
        BY FS_Interval
    <2> QED BY <1>1, <2>0, <2>1
<1>3. ASSUME NEW s \in 1..Len(e)
      PROVE  Cardinality({t \in DOMAIN e : t <= s}) = s
    <2>1. {t \in DOMAIN e : t <= s} = 1..s
        BY <1>1
    <2>2. Cardinality(1..s) = s
        BY <1>1, FS_Interval
    <2> QED BY <2>1, <2>2
<1>4. ASSUME NEW k \in 1..Len(e)
      PROVE  (CHOOSE s \in DOMAIN e : Cardinality({t \in DOMAIN e : t <= s}) = k) = k
    <2> DEFINE P(s) == Cardinality({t \in DOMAIN e : t <= s}) = k
    <2>1. \A s \in DOMAIN e : P(s) <=> s = k
        BY <1>1, <1>3
    <2>2. k \in DOMAIN e
        BY <1>1
    <2> HIDE DEF P
    <2>3. (CHOOSE s \in DOMAIN e : P(s)) = k
        BY <2>1, <2>2
    <2> QED BY <2>3 DEF P
<1>5. Steps(e) = [k \in 1..Len(e) |->
          CHOOSE s \in DOMAIN e : Cardinality({t \in DOMAIN e : t <= s}) = k]
    BY <1>2 DEF Steps
<1> QED BY <1>4, <1>5, Zenon

Said(v) == IF v.kind = "text" THEN v.content ELSE <<>>
Saids(e) == [k \in 1..Len(e) |-> Said(e[k])]

LEMMA SaidType ==
    ASSUME NEW v \in Event
    PROVE  Said(v) \in Seq(Nat)
BY EventKinds, EmptySeq DEF Said

LEMMA SaidsType ==
    ASSUME NEW e \in Timeline
    PROVE  Saids(e) \in Seq(Seq(Nat))
<1>1. Len(e) \in Nat /\ \A k \in 1..Len(e) : e[k] \in Event
    BY DEF Timeline
<1>2. \A k \in 1..Len(e) : Said(e[k]) \in Seq(Nat)
    BY <1>1, SaidType
<1> QED BY <1>1, <1>2 DEF Saids

LEMMA ContentIs ==
    ASSUME NEW e \in Timeline
    PROVE  AssistantContent(e) = FlattenSeq(Saids(e))
<1>1. Steps(e) = [k \in 1..Len(e) |-> k]
    BY StepsAre
<1> DEFINE steps == Steps(e)
           texts == [k \in DOMAIN steps |->
                        IF e[steps[k]].kind = "text" THEN e[steps[k]].content ELSE <<>>]
<1>2. texts = Saids(e)
    BY <1>1 DEF Saids, Said
<1>3. AssistantContent(e) = FlattenSeq(texts)
    BY DEF AssistantContent
<1> QED BY <1>2, <1>3

\* The content of a timeline, one event at a time.
LEMMA ContentAppend ==
    ASSUME NEW e \in Timeline, NEW v \in Event
    PROVE  /\ AssistantContent(e) \in Seq(Nat)
           /\ AssistantContent(Append(e, v)) = AssistantContent(e) \o Said(v)
<1> DEFINE ee == Append(e, v)
<1>1. /\ e \in Seq(Event) /\ Len(e) \in Nat /\ ee \in Timeline /\ Len(ee) = Len(e) + 1
      /\ ee[Len(e) + 1] = v /\ \A k \in 1..Len(e) : ee[k] = e[k]
    BY DEF Timeline
<1> HIDE DEF ee
<1>2. Saids(e) \in Seq(Seq(Nat)) /\ Said(v) \in Seq(Nat) /\ Len(Saids(e)) = Len(e)
    <2>1. Len(Saids(e)) = Len(e)
        BY <1>1 DEF Saids
    <2> QED BY <2>1, SaidsType, SaidType
<1>3. Saids(ee) = Append(Saids(e), Said(v))
    <2>1. Saids(ee) \in Seq(Seq(Nat)) /\ Len(Saids(ee)) = Len(e) + 1
        BY <1>1, SaidsType DEF Saids
    <2>2. /\ Append(Saids(e), Said(v)) \in Seq(Seq(Nat))
          /\ Len(Append(Saids(e), Said(v))) = Len(e) + 1
          /\ Append(Saids(e), Said(v))[Len(e) + 1] = Said(v)
          /\ \A k \in 1..Len(e) : Append(Saids(e), Said(v))[k] = Saids(e)[k]
        BY <1>1, <1>2
    <2>3. ASSUME NEW k \in 1..(Len(e) + 1)
          PROVE  Saids(ee)[k] = Append(Saids(e), Said(v))[k]
        <3>1. Saids(ee)[k] = Said(ee[k])
            BY <1>1 DEF Saids
        <3>2. CASE k = Len(e) + 1
            BY <1>1, <2>2, <3>1, <3>2
        <3>3. CASE k # Len(e) + 1
            <4>1. k \in 1..Len(e)
                BY <1>1, <3>3
            <4>2. Saids(e)[k] = Said(e[k])
                BY <4>1 DEF Saids
            <4> QED BY <1>1, <2>2, <3>1, <4>1, <4>2
        <3> QED BY <3>2, <3>3
    <2> HIDE DEF Saids
    <2> QED BY <2>1, <2>2, <2>3, SeqEqual
<1>4. /\ FlattenSeq(Saids(e)) \in Seq(Nat)
      /\ FlattenSeq(Append(Saids(e), Said(v))) = FlattenSeq(Saids(e)) \o Said(v)
    BY <1>2, FlattenAppend
<1>5. AssistantContent(e) = FlattenSeq(Saids(e)) /\ AssistantContent(ee) = FlattenSeq(Saids(ee))
    BY <1>1, ContentIs
<1> QED BY <1>3, <1>4, <1>5 DEF ee

LEMMA FrontAndLast ==
    ASSUME NEW e \in Timeline, Len(e) > 0
    PROVE  \E front \in Timeline :
              /\ e = Append(front, e[Len(e)]) /\ e[Len(e)] \in Event
              /\ \A v \in Event : [e EXCEPT ![Len(e)] = v] = Append(front, v)
<1>0. PICK n : n = Len(e)
    OBVIOUS
<1> DEFINE front == SubSeq(e, 1, n - 1)
<1>1. e \in Seq(Event) /\ n \in Nat /\ n > 0 /\ e[n] \in Event
    BY <1>0 DEF Timeline
<1>2. /\ front \in Seq(Event) /\ Len(front) = n - 1 /\ e = Append(front, e[n])
      /\ \A k \in 1..(n - 1) : front[k] = e[k]
    BY <1>0, <1>1
<1> HIDE DEF front
<1>3. ASSUME NEW v \in Event PROVE [e EXCEPT ![n] = v] = Append(front, v)
    <2> DEFINE a == [e EXCEPT ![n] = v]
               b == Append(front, v)
    <2>1. a \in Seq(Event) /\ Len(a) = n /\ \A k \in 1..n : a[k] = IF k = n THEN v ELSE e[k]
        BY <1>0, <1>1
    <2>2. b \in Seq(Event) /\ Len(b) = n /\ \A k \in 1..n : b[k] = IF k = n THEN v ELSE e[k]
        BY <1>1, <1>2
    <2> HIDE DEF a, b
    <2>3. a = b
        BY <2>1, <2>2, SeqEqual
    <2> QED BY <2>3 DEF a, b
<1> QED BY <1>0, <1>1, <1>2, <1>3 DEF Timeline

\* The deltas up to n, and the next one behind them.
LEMMA CountAppend ==
    ASSUME NEW n \in Nat
    PROVE  /\ [d \in 1..n |-> d] \in Seq(Nat)
           /\ [d \in 1..n |-> d] \o <<n + 1>> = [d \in 1..(n + 1) |-> d]
<1> DEFINE a == [d \in 1..n |-> d]
           b == <<n + 1>>
           c == [d \in 1..(n + 1) |-> d]
<1>1. a \in Seq(Nat) /\ Len(a) = n /\ \A i \in 1..n : a[i] = i
    OBVIOUS
<1>2. b \in Seq(Nat) /\ Len(b) = 1 /\ b[1] = n + 1
    OBVIOUS
<1>3. c \in Seq(Nat) /\ Len(c) = n + 1 /\ \A i \in 1..(n + 1) : c[i] = i
    OBVIOUS
<1> HIDE DEF a, b, c
<1>4. /\ a \o b \in Seq(Nat) /\ Len(a \o b) = n + 1
      /\ \A i \in 1..(n + 1) : (a \o b)[i] = IF i <= n THEN a[i] ELSE b[i - n]
    <2>1. /\ a \o b \in Seq(Nat) /\ Len(a \o b) = Len(a) + Len(b)
          /\ \A i \in 1..(Len(a) + Len(b)) :
                (a \o b)[i] = IF i <= Len(a) THEN a[i] ELSE b[i - Len(a)]
        BY <1>1, <1>2, ConcatProperties
    <2> QED BY <1>1, <1>2, <2>1
<1>5. \A i \in 1..(n + 1) : (a \o b)[i] = c[i]
    <2> SUFFICES ASSUME NEW i \in 1..(n + 1) PROVE (a \o b)[i] = c[i]
        OBVIOUS
    <2>1. CASE i <= n
        BY <1>1, <1>3, <1>4, <2>1
    <2>2. CASE i > n
        <3>1. i = n + 1 /\ i - n = 1 /\ i \in 1..(n + 1)
            BY <2>2
        <3>2. (a \o b)[i] = b[1]
            BY <1>4, <2>2, <3>1
        <3>3. c[i] = n + 1
            BY <1>3, <3>1
        <3> QED BY <1>2, <3>2, <3>3
    <2>3. i <= n \/ i > n
        OBVIOUS
    <2> QED BY <2>1, <2>2, <2>3
<1>6. a \o b = c
    BY <1>3, <1>4, <1>5, SeqEqual
<1> QED BY <1>1, <1>6 DEF a, b, c

\* What the last event contributes, when another takes its place.
LEMMA RefinedContent ==
    ASSUME TimelineInv, NEW v \in Event, Refines(v)
    PROVE  \E before \in Seq(Nat) :
              /\ AssistantContent(events) = before \o Said(events[Len(events)])
              /\ AssistantContent(events') = before \o Said(v)
              /\ Said(events[Len(events)]) \in Seq(Nat)
<1>1. /\ events \in Timeline /\ Len(events) > 0
      /\ events' = [events EXCEPT ![Len(events)] = v]
    BY DEF Refines, TimelineInv, Types
<1>2. PICK front \in Timeline :
          /\ events = Append(front, events[Len(events)]) /\ events[Len(events)] \in Event
          /\ events' = Append(front, v)
    BY <1>1, FrontAndLast
<1>3. PICK last : last = events[Len(events)]
    OBVIOUS
<1>4. /\ AssistantContent(front) \in Seq(Nat)
      /\ AssistantContent(Append(front, last)) = AssistantContent(front) \o Said(last)
      /\ AssistantContent(Append(front, v)) = AssistantContent(front) \o Said(v)
    BY <1>2, <1>3, ContentAppend
<1>5. Said(last) \in Seq(Nat)
    BY <1>2, <1>3, SaidType
<1> QED BY <1>2, <1>3, <1>4, <1>5

LEMMA InitContent == Init => ContentIsWhatWasSaid
<1> SUFFICES ASSUME Init PROVE ContentIsWhatWasSaid
    OBVIOUS
<1>1. events = <<>> /\ said = 0 /\ events \in Timeline
    BY EmptySeq DEF Init, Timeline
<1>2. Saids(events) = <<>>
    BY <1>1 DEF Saids
<1>3. AssistantContent(events) = <<>>
    BY <1>1, <1>2, ContentIs DEF FlattenSeq
<1> QED BY <1>1, <1>3 DEF ContentIsWhatWasSaid

LEMMA RegroupText ==
    ASSUME NEW a \in Seq(Nat), NEW b \in Seq(Nat), NEW c \in Seq(Nat)
    PROVE  (a \o b) \o c = a \o (b \o c)
BY Regroup

LEMMA StepContent ==
    TimelineInv /\ ContentIsWhatWasSaid /\ [Next]_vars => ContentIsWhatWasSaid'
<1> SUFFICES ASSUME TimelineInv, ContentIsWhatWasSaid, [Next]_vars
             PROVE  ContentIsWhatWasSaid'
    OBVIOUS
<1>1. /\ events \in Timeline /\ Len(events) \in Nat /\ said \in Nat
      /\ AssistantContent(events) = [d \in 1..said |-> d]
    BY DEF TimelineInv, Types, Timeline, ContentIsWhatWasSaid
<1>2. CASE StreamText
    <2>1. Emit(Delta(<<said + 1>>)) /\ said + 1 \in Nat /\ said' = said + 1
        BY <1>1, <1>2 DEF StreamText
    <2> DEFINE d == <<said + 1>>
               fresh == [kind |-> "text", content |-> d]
               longer == [kind |-> "text", content |-> events[Len(events)].content \o d]
    <2>2. /\ events' \in Timeline
          /\ \/ Grows(fresh)
             \/ Refines(longer) /\ events[Len(events)].kind = "text"
        BY <2>1, EmitText
    <2>3. d \in Seq(Nat) /\ Said(fresh) = d
        BY <2>1 DEF Said
    <2>4. CASE Grows(fresh)
        <3>1. fresh \in Event
            BY <2>3, TextIsEvent
        <3> HIDE DEF d, fresh
        <3>2. AssistantContent(events') = AssistantContent(events) \o d
            BY <1>1, <2>3, <2>4, <3>1, ContentAppend DEF Grows
        <3> QED BY <1>1, <2>1, <3>2, CountAppend DEF ContentIsWhatWasSaid, d
    <2>5. CASE Refines(longer) /\ events[Len(events)].kind = "text"
        <3>0. PICK last : last = events[Len(events)]
            OBVIOUS
        <3>1. last \in Event /\ last.kind = "text" /\ last.content \in Seq(Nat)
            <4>1. last \in Event
                BY <1>1, <2>5, <3>0 DEF Refines, Timeline
            <4> QED BY <2>5, <3>0, <4>1, EventKinds
        <3>2. longer \in Event /\ Said(longer) = last.content \o d /\ Said(last) = last.content
            <4>1. last.content \o d \in Seq(Nat)
                BY <2>3, <3>1
            <4> HIDE DEF d
            <4> QED BY <3>0, <3>1, <4>1, TextIsEvent DEF Said
        <3> HIDE DEF d, longer
        <3>3. PICK before \in Seq(Nat) :
                  /\ AssistantContent(events) = before \o last.content
                  /\ AssistantContent(events') = before \o (last.content \o d)
            BY <2>5, <3>0, <3>2, RefinedContent
        <3>4. AssistantContent(events') = AssistantContent(events) \o d
            <4>1. PICK c \in Seq(Nat) : c = last.content
                BY <3>1
            <4>2. PICK e \in Seq(Nat) : e = d
                BY <2>3
            <4>3. (before \o c) \o e = before \o (c \o e)
                BY RegroupText
            <4> QED BY <3>3, <4>1, <4>2, <4>3
        <3> QED BY <1>1, <2>1, <3>4, CountAppend DEF ContentIsWhatWasSaid, d
    <2> QED BY <2>2, <2>4, <2>5
<1>3. CASE ~StreamText
    <2>1. UNCHANGED said
        BY <1>3 DEF Next, EndModelTurn, ModelFails, StartTool, UnknownTool, CallTool,
                    ToolSucceeds, ToolRefused, ToolRaises, Answer, Propagate, NextTurn, vars
    <2>2. CASE UNCHANGED events
        BY <1>1, <2>1, <2>2 DEF ContentIsWhatWasSaid
    <2>3. CASE ~UNCHANGED events
        <3>0. /\ events' \in Timeline
              /\ \E v : /\ v.kind = "tool"
                        /\ Grows(v) \/ (Refines(v) /\ events[Len(events)].kind = "tool")
            BY <1>3, <2>3, ToolEventAtMost
        <3>1. PICK v : /\ v.kind = "tool"
                       /\ Grows(v) \/ (Refines(v) /\ events[Len(events)].kind = "tool")
            BY <3>0
        <3>2. v \in Event /\ Said(v) = <<>>
            <4>1. Len(events') > 0 /\ events'[Len(events')] = v
                BY <1>1, <3>0, <3>1, GrowsIs
            <4>2. v \in Event
                BY <3>0, <4>1 DEF Timeline
            <4> QED BY <3>1, <4>2 DEF Said
        <3>3. CASE Grows(v)
            <4>1. /\ AssistantContent(events') = AssistantContent(events) \o <<>>
                  /\ AssistantContent(events) \in Seq(Nat)
                BY <1>1, <3>2, <3>3, ContentAppend DEF Grows
            <4>2. AssistantContent(events') = AssistantContent(events)
                BY <4>1, ConcatEmptySeq
            <4> QED BY <1>1, <2>1, <4>2 DEF ContentIsWhatWasSaid
        <3>4. CASE Refines(v) /\ events[Len(events)].kind = "tool"
            <4>1. Said(events[Len(events)]) = <<>>
                BY <3>4 DEF Said
            <4>2. PICK before \in Seq(Nat) :
                      /\ AssistantContent(events) = before \o Said(events[Len(events)])
                      /\ AssistantContent(events') = before \o Said(v)
                BY <3>2, <3>4, RefinedContent
            <4>3. AssistantContent(events') = AssistantContent(events)
                BY <3>2, <4>1, <4>2
            <4> QED BY <1>1, <2>1, <4>3 DEF ContentIsWhatWasSaid
        <3> QED BY <3>1, <3>3, <3>4
    <2> QED BY <2>2, <2>3
<1> QED BY <1>2, <1>3

\* The persisted text is what the model said, every delta once and in order,
\* whatever tools interrupt it and however the run ends.
THEOREM ContentIsSaid == Spec => []ContentIsWhatWasSaid
<1>1. TimelineInv /\ ContentIsWhatWasSaid /\ [Next]_vars => ContentIsWhatWasSaid'
    BY StepContent
<1>2. IInv => TimelineInv
    BY DEF IInv
<1> QED BY <1>1, <1>2, IInvHolds, InitContent, PTL DEF Spec
-----------------------------------------------------------------------------
(* What the client makes of a sequence of packets.                         *)

Sent == [step : Nat, packet : Packet]

\* f[s] is what the reducer makes of the packets of ps at the indices in s.
Folds(ps, f) ==
    f = [s \in SUBSET DOMAIN ps |->
            IF s = {} THEN <<>>
            ELSE LET x == Max(s) IN Reduce(f[s \ {x}], ps[x].step, ps[x].packet)]

TheFolds(ps) == CHOOSE f : Folds(ps, f)

\* g[i] is the client's timeline after i packets of ps.
Runs(ps, g) ==
    /\ g[0] = <<>>
    /\ \A i \in 1..Len(ps) : g[i] = Reduce(g[i - 1], ps[i].step, ps[i].packet)

\* The packets of ps take the client from nothing to e.
Reaches(ps, e) == \E g : Runs(ps, g) /\ g[Len(ps)] = e

LEMMA FoldsAt ==
    ASSUME NEW ps, NEW f, Folds(ps, f), NEW s \in SUBSET DOMAIN ps
    PROVE  /\ s = {} => f[s] = <<>>
           /\ s # {} => f[s] = Reduce(f[s \ {Max(s)}], ps[Max(s)].step, ps[Max(s)].packet)
BY DEF Folds

\* One packet more at the end.
LEMMA FoldsAppend ==
    ASSUME NEW front \in Seq(Sent), NEW x \in Sent, NEW f, Folds(front, f)
    PROVE  \E g : Folds(Append(front, x), g)
<1>0. PICK n : n = Len(front) + 1
    OBVIOUS
<1> DEFINE ps == Append(front, x)
           g == [s \in SUBSET (1..n) |-> IF n \in s THEN Reduce(f[s \ {n}], x.step, x.packet)
                                         ELSE f[s]]
           put(s) == IF s = {} THEN <<>>
                     ELSE LET y == Max(s) IN Reduce(g[s \ {y}], ps[y].step, ps[y].packet)
<1>1. /\ n \in Nat /\ n > 0 /\ Len(front) \in Nat /\ DOMAIN front = 1..(n - 1)
      /\ DOMAIN ps = 1..n /\ ps[n] = x /\ \A i \in 1..(n - 1) : ps[i] = front[i]
    BY <1>0
<1> HIDE DEF ps
<1>2. ASSUME NEW s \in SUBSET (1..n) PROVE g[s] = put(s)
    <2>0. g[s] = IF n \in s THEN Reduce(f[s \ {n}], x.step, x.packet) ELSE f[s]
        OBVIOUS
    <2>1. CASE s = {}
        <3>1. n \notin s /\ f[s] = <<>>
            BY <1>1, <2>1, FoldsAt
        <3> HIDE DEF g
        <3> QED BY <2>0, <2>1, <3>1
    <2>2. CASE n \in s
        <3>1. Max(s) = n
            BY <1>1, <2>2, MaxOf
        <3>2. s \ {n} \in SUBSET (1..n) /\ n \notin s \ {n} /\ s # {}
            BY <2>2
        <3>3. g[s \ {n}] = f[s \ {n}]
            BY <3>2
        <3> HIDE DEF g
        <3> QED BY <1>1, <2>0, <2>2, <3>1, <3>2, <3>3
    <2>3. CASE n \notin s /\ s # {}
        <3>1. s \in SUBSET (1..(n - 1))
            BY <1>1, <2>3
        <3>2. Max(s) \in s /\ Max(s) \in 1..(n - 1)
            BY <1>1, <2>3, <3>1, MaxOf
        <3>3. f[s] = Reduce(f[s \ {Max(s)}], front[Max(s)].step, front[Max(s)].packet)
            <4>1. s \in SUBSET DOMAIN front /\ s # {}
                BY <1>1, <2>3, <3>1
            <4> QED BY <4>1, FoldsAt
        <3>4. g[s \ {Max(s)}] = f[s \ {Max(s)}]
            BY <2>3
        <3> HIDE DEF g
        <3> QED BY <1>1, <2>0, <2>3, <3>2, <3>3, <3>4
    <2> QED BY <2>1, <2>2, <2>3
<1>3. g = [s \in SUBSET (1..n) |-> put(s)]
    <2>1. g = [s \in SUBSET (1..n) |-> g[s]]
        OBVIOUS
    <2>2. \A s \in SUBSET (1..n) : g[s] = put(s)
        BY <1>2
    <2> HIDE DEF g, put
    <2> QED BY <2>1, <2>2
<1>4. Folds(ps, g)
    <2> HIDE DEF g
    <2> QED BY <1>1, <1>3 DEF Folds
<1> QED BY <1>4 DEF ps

LEMMA FoldsExists ==
    \A ps \in Seq(Sent) : \E f : Folds(ps, f)
<1> DEFINE Has(ps) == \E f : Folds(ps, f)
           bad == {n \in Nat : \E ps \in Seq(Sent) : Len(ps) = n /\ ~Has(ps)}
<1>1. bad = {}
    <2> SUFFICES ASSUME bad # {} PROVE FALSE
        OBVIOUS
    <2>1. bad \in SUBSET Nat
        OBVIOUS
    <2>2. PICK n \in bad : \A m \in bad : n <= m
        <3> HIDE DEF bad
        <3> QED BY <2>1, LeastNatural
    <2> HIDE DEF Has
    <2>3. n \in Nat /\ \E ps \in Seq(Sent) : Len(ps) = n /\ ~Has(ps)
        OBVIOUS
    <2>4. PICK ps \in Seq(Sent) : Len(ps) = n /\ ~Has(ps)
        BY <2>3
    <2>5. CASE n = 0
        <3>1. DOMAIN ps = {}
            BY <2>4, <2>5
        <3> DEFINE f == [s \in SUBSET {} |-> <<>>]
        <3>2. Folds(ps, f)
            <4>1. \A s \in SUBSET {} : s = {}
                OBVIOUS
            <4> QED BY <3>1, <4>1 DEF Folds
        <3> QED BY <2>4, <3>2 DEF Has
    <2>6. CASE n # 0
        <3> DEFINE front == SubSeq(ps, 1, n - 1)
        <3>1. /\ front \in Seq(Sent) /\ Len(front) = n - 1 /\ ps[n] \in Sent
              /\ ps = Append(front, ps[n])
            BY <2>3, <2>4, <2>6
        <3> HIDE DEF front
        <3>2. n - 1 \in Nat /\ n - 1 \notin bad
            <4> HIDE DEF bad
            <4> QED BY <2>2, <2>3, <2>6
        <3>3. Has(front)
            BY <3>1, <3>2
        <3> QED BY <2>4, <3>1, <3>3, FoldsAppend DEF Has
    <2> QED BY <2>5, <2>6
<1> SUFFICES ASSUME NEW ps \in Seq(Sent) PROVE Has(ps)
    OBVIOUS
<1>2. Len(ps) \in Nat
    OBVIOUS
<1> HIDE DEF Has
<1> QED BY <1>1, <1>2

\* Folding by the greatest index is folding from the front.
LEMMA FoldsRun ==
    ASSUME NEW ps \in Seq(Sent), NEW f, Folds(ps, f), NEW g, Runs(ps, g)
    PROVE  f[DOMAIN ps] = g[Len(ps)]
<1> DEFINE bad == {i \in 0..Len(ps) : f[1..i] # g[i]}
<1>1. Len(ps) \in Nat /\ DOMAIN ps = 1..Len(ps)
    OBVIOUS
<1>2. bad = {}
    <2> SUFFICES ASSUME bad # {} PROVE FALSE
        OBVIOUS
    <2>1. bad \in SUBSET Nat
        BY <1>1
    <2>2. PICK i \in bad : \A j \in bad : i <= j
        <3> HIDE DEF bad
        <3> QED BY <2>1, LeastNatural
    <2>3. i \in 0..Len(ps) /\ f[1..i] # g[i] /\ 1..i \in SUBSET DOMAIN ps
        BY <1>1
    <2>4. CASE i = 0
        <3>1. 1..i = {}
            BY <2>4
        <3> QED BY <2>3, <2>4, <3>1, FoldsAt DEF Runs
    <2>5. CASE i # 0
        <3>1. i - 1 \in 0..Len(ps) /\ i - 1 < i /\ i \in 1..Len(ps) /\ i \in 1..i
            BY <1>1, <2>3, <2>5
        <3>2. i - 1 \notin bad
            <4> HIDE DEF bad
            <4> QED BY <2>1, <2>2, <3>1
        <3>3. f[1..(i - 1)] = g[i - 1]
            BY <3>1, <3>2
        <3>5. (1..i) \ {i} = 1..(i - 1) /\ 1..i # {} /\ i \in Nat
            <4>1. i \in Nat /\ i > 0
                BY <1>1, <3>1
            <4>2. \A t \in Nat : t \in (1..i) \ {i} <=> t \in 1..(i - 1)
                BY <4>1
            <4>3. (1..i) \ {i} \subseteq Nat /\ 1..(i - 1) \subseteq Nat
                BY <4>1
            <4>4. (1..i) \ {i} = 1..(i - 1)
                BY <4>2, <4>3
            <4> QED BY <3>1, <4>1, <4>4
        <3>8. PICK s \in SUBSET DOMAIN ps : s = 1..i
            BY <2>3
        <3>4. Max(s) = i
            BY <3>1, <3>5, <3>8, MaxOf
        <3>6. f[1..i] = Reduce(f[(1..i) \ {i}], ps[i].step, ps[i].packet)
            <4>1. f[s] = Reduce(f[s \ {Max(s)}], ps[Max(s)].step, ps[Max(s)].packet)
                <5>1. s # {}
                    BY <3>5, <3>8
                <5> QED BY <5>1, FoldsAt
            <4> QED BY <3>4, <3>8, <4>1
        <3>7. g[i] = Reduce(g[i - 1], ps[i].step, ps[i].packet)
            BY <3>1 DEF Runs
        <3> QED BY <2>3, <3>3, <3>5, <3>6, <3>7
    <2> QED BY <2>4, <2>5
<1> QED BY <1>1, <1>2

LEMMA ReachesNothing == Reaches(<<>>, <<>>)
<1> DEFINE g == [i \in {0} |-> <<>>]
<1>1. Runs(<<>>, g) /\ g[Len(<<>>)] = <<>>
    BY DEF Runs
<1> QED BY <1>1 DEF Reaches

LEMMA ReachesAppend ==
    ASSUME NEW ps \in Seq(Sent), NEW e, Reaches(ps, e), NEW x \in Sent
    PROVE  Reaches(Append(ps, x), Reduce(e, x.step, x.packet))
<1>1. PICK g : Runs(ps, g) /\ g[Len(ps)] = e
    BY DEF Reaches
<1>2. PICK n : n = Len(ps)
    OBVIOUS
<1> DEFINE last == Reduce(e, x.step, x.packet)
           h == [i \in 0..(n + 1) |-> IF i = n + 1 THEN last ELSE g[i]]
           qs == Append(ps, x)
<1>3. /\ n \in Nat /\ Len(qs) = n + 1 /\ qs[n + 1] = x
      /\ \A i \in 1..n : qs[i] = ps[i]
    BY <1>2
<1>4. h[n + 1] = last /\ h[n] = e /\ h[0] = <<>>
    BY <1>1, <1>2, <1>3 DEF Runs
<1> HIDE DEF qs, last
<1>5. ASSUME NEW i \in 1..(n + 1)
      PROVE  h[i] = Reduce(h[i - 1], qs[i].step, qs[i].packet)
    <2>1. CASE i = n + 1
        <3>1. h[i] = last /\ h[i - 1] = e /\ qs[i] = x
            BY <1>3, <1>4, <2>1
        <3> HIDE DEF h
        <3> QED BY <3>1 DEF last
    <2>2. CASE i # n + 1
        <3>1. i \in 1..n /\ i - 1 \in 0..n
            BY <1>3, <2>2
        <3>2. h[i] = g[i] /\ h[i - 1] = g[i - 1] /\ qs[i] = ps[i]
            BY <1>3, <3>1
        <3>3. g[i] = Reduce(g[i - 1], ps[i].step, ps[i].packet)
            BY <1>1, <1>2, <3>1 DEF Runs
        <3> HIDE DEF h
        <3> QED BY <3>2, <3>3
    <2> QED BY <2>1, <2>2
<1> HIDE DEF h
<1>6. Runs(qs, h) /\ h[Len(qs)] = last
    BY <1>3, <1>4, <1>5 DEF Runs
<1> QED BY <1>6 DEF Reaches, qs, last
-----------------------------------------------------------------------------
(* A replay.                                                               *)

\* replay_stream, event by event.
Packets(e) == [k \in 1..Len(e) |-> ReplayOf(k, e[k])]

Tool(id, args, status) == [kind |-> "tool", id |-> id, args |-> args, status |-> status]

LEMMA ReplayedIs ==
    ASSUME NEW e \in Timeline, NEW ps, ps = FlattenSeq(Packets(e))
    PROVE  Replayed(e) = TheFolds(ps)[DOMAIN ps]
<1>1. Steps(e) = [k \in 1..Len(e) |-> k]
    BY StepsAre
<1> DEFINE steps == Steps(e)
           all == [k \in DOMAIN steps |-> ReplayOf(steps[k], e[steps[k]])]
           packets == FlattenSeq(all)
<1>2. all = Packets(e)
    BY <1>1 DEF Packets
<1>3. packets = ps
    BY <1>2
<1>4. Replayed(e) = TheFolds(packets)[DOMAIN packets]
    BY DEF Replayed, FoldLeft, MapThenFoldSet, TheFolds, Folds
<1> QED BY <1>3, <1>4

\* What the client makes of packets does not depend on how the fold goes.
LEMMA ReachesIs ==
    ASSUME NEW ps \in Seq(Sent), NEW e, Reaches(ps, e)
    PROVE  TheFolds(ps)[DOMAIN ps] = e
<1>1. PICK g : Runs(ps, g) /\ g[Len(ps)] = e
    BY DEF Reaches
<1>2. Folds(ps, TheFolds(ps))
    BY FoldsExists DEF TheFolds
<1> QED BY <1>1, <1>2, FoldsRun

\* The reducer on the packets of one event of a replay.
LEMMA ReplayText ==
    ASSUME NEW e \in Timeline, NEW content \in Seq(Nat)
    PROVE  /\ Delta(content) \in Packet
           /\ Reduce(e, Len(e) + 1, Delta(content)) =
                  Append(e, [kind |-> "text", content |-> content])
<1> DEFINE p == Delta(content)
           s == Len(e) + 1
<1>1. p \in Packet /\ p.type = "delta" /\ p.delta = content
    BY DEF Delta, Packet
<1>2. Len(e) \in Nat /\ DOMAIN e = 1..Len(e)
    BY DEF Timeline
<1>3. s \in 1..(Len(e) + 1) /\ ~At(e, s, "text")
    BY <1>2 DEF At
<1> HIDE DEF p
<1>4. Folded(e, s, p) = [kind |-> "text", content |-> content]
    <2> HIDE DEF s
    <2> QED BY <1>1, <1>3, FoldedText
<1>5. Reduce(e, s, p) = Fold(e, s, p) /\ Fold(e, s, p) = Append(e, Folded(e, s, p))
    BY <1>1, <1>3, ReduceIsFold, FoldPuts
<1> QED BY <1>1, <1>4, <1>5 DEF p

LEMMA ReplayStart ==
    ASSUME NEW e \in Timeline, NEW id \in Nat
    PROVE  /\ ToolStart(id) \in Packet
           /\ Reduce(e, Len(e) + 1, ToolStart(id)) = Append(e, Tool(id, FALSE, "none"))
<1> DEFINE p == ToolStart(id)
           s == Len(e) + 1
<1>1. p \in Packet /\ p.type = "start" /\ p.id = id
    BY DEF ToolStart, Packet
<1>2. Len(e) \in Nat /\ DOMAIN e = 1..Len(e)
    BY DEF Timeline
<1>3. s \in 1..(Len(e) + 1) /\ ~At(e, s, "tool")
    BY <1>2 DEF At
<1> HIDE DEF p
<1>4. Folded(e, s, p) = Tool(id, FALSE, "none")
    <2>1. Folded(e, s, p) = ToolRecord(e, s, p)
        <3> HIDE DEF s
        <3> QED BY <1>1, <1>3, FoldedStart
    <2> QED BY <1>1, <1>3, <2>1 DEF ToolRecord, Tool
<1>5. Reduce(e, s, p) = Fold(e, s, p) /\ Fold(e, s, p) = Append(e, Folded(e, s, p))
    BY <1>1, <1>3, ReduceIsFold, FoldPuts
<1> QED BY <1>1, <1>4, <1>5 DEF p

LEMMA ToolFields ==
    ASSUME NEW v \in ToolEvent
    PROVE  v = Tool(v.id, v.args, v.status) /\ v.id \in Nat /\ v.args \in BOOLEAN
           /\ v.status \in {"none", "ok", "error"}
BY DEF ToolEvent, Tool

LEMMA ReplayMore ==
    ASSUME NEW e \in Timeline, NEW id \in Nat, NEW args \in BOOLEAN,
           NEW status \in {"none", "ok", "error"}
    PROVE  LET ee == Append(e, Tool(id, args, status)) IN
           /\ ToolCall(id) \in Packet
           /\ Reduce(ee, Len(e) + 1, ToolCall(id)) = Append(e, Tool(id, TRUE, status))
           /\ \A end \in {"ok", "error"} :
                 /\ ToolEnd(id, end) \in Packet
                 /\ Reduce(ee, Len(e) + 1, ToolEnd(id, end)) = Append(e, Tool(id, args, end))
<1> DEFINE v == Tool(id, args, status)
           ee == Append(e, v)
<1>0. PICK s : s = Len(e) + 1
    OBVIOUS
<1>1. v \in ToolEvent /\ v \in Event /\ v.kind = "tool" /\ v.id = id /\ v.args = args
      /\ v.status = status
    BY DEF Tool, ToolEvent, Event
<1> HIDE DEF v
<1>2. /\ e \in Seq(Event) /\ ee \in Timeline /\ Len(ee) = s /\ ee[s] = v
      /\ s \in 1..(Len(ee) + 1) /\ s # Len(ee) + 1 /\ s \in DOMAIN ee
    BY <1>0, <1>1 DEF Timeline
<1>3. At(ee, s, "tool")
    BY <1>1, <1>2 DEF At
<1>4. ASSUME NEW w \in Event PROVE [ee EXCEPT ![s] = w] = Append(e, w)
    <2> DEFINE a == [ee EXCEPT ![s] = w]
               b == Append(e, w)
    <2>1. Len(e) \in Nat /\ \A k \in 1..Len(e) : ee[k] = e[k]
        BY <1>2
    <2>2. a \in Seq(Event) /\ Len(a) = s /\ \A k \in 1..s : a[k] = IF k = s THEN w ELSE e[k]
        <3> HIDE DEF ee
        <3> QED BY <1>0, <1>2, <2>1 DEF Timeline
    <2>3. b \in Seq(Event) /\ Len(b) = s /\ \A k \in 1..s : b[k] = IF k = s THEN w ELSE e[k]
        BY <1>0, <1>2
    <2> HIDE DEF a, b
    <2>4. a = b
        BY <2>2, <2>3, SeqEqual
    <2> QED BY <2>4 DEF a, b
<1> HIDE DEF ee
<1>5. ASSUME NEW p \in Packet, p.type # "delta"
      PROVE  /\ Reduce(ee, s, p) = Append(e, Folded(ee, s, p))
             /\ Folded(ee, s, p) \in ToolEvent /\ Folded(ee, s, p).id = id
             /\ Folded(ee, s, p).args = (p.type = "call" \/ args)
             /\ Folded(ee, s, p).status = IF p.type = "end" THEN p.status ELSE status
    <2>1. Reduce(ee, s, p) = Fold(ee, s, p)
        BY <1>2, ReduceIsFold
    <2>2. Fold(ee, s, p) = [ee EXCEPT ![s] = Folded(ee, s, p)]
        BY <1>2, FoldPuts
    <2>3. /\ Folded(ee, s, p) \in ToolEvent /\ Folded(ee, s, p).id = ee[s].id
          /\ Folded(ee, s, p).args = (p.type = "call" \/ ee[s].args)
          /\ Folded(ee, s, p).status = IF p.type = "end" THEN p.status ELSE ee[s].status
        BY <1>2, <1>3, <1>5, FoldedTool
    <2>4. [ee EXCEPT ![s] = Folded(ee, s, p)] = Append(e, Folded(ee, s, p))
        BY <1>4, <2>3 DEF Event
    <2> QED BY <1>1, <1>2, <2>1, <2>2, <2>3, <2>4
<1>6. ToolCall(id) \in Packet /\ Reduce(ee, s, ToolCall(id)) = Append(e, Tool(id, TRUE, status))
    <2> DEFINE p == ToolCall(id)
    <2>1. p \in Packet /\ p.type = "call"
        BY DEF ToolCall, Packet
    <2> HIDE DEF p
    <2>2. /\ Reduce(ee, s, p) = Append(e, Folded(ee, s, p))
          /\ Folded(ee, s, p) \in ToolEvent /\ Folded(ee, s, p).id = id
          /\ Folded(ee, s, p).args = TRUE /\ Folded(ee, s, p).status = status
        BY <1>5, <2>1
    <2>3. Folded(ee, s, p) = Tool(id, TRUE, status)
        BY <2>2, ToolFields
    <2> QED BY <2>1, <2>2, <2>3 DEF p
<1>7. ASSUME NEW end \in {"ok", "error"}
      PROVE  /\ ToolEnd(id, end) \in Packet
             /\ Reduce(ee, s, ToolEnd(id, end)) = Append(e, Tool(id, args, end))
    <2> DEFINE p == ToolEnd(id, end)
    <2>1. p \in Packet /\ p.type = "end" /\ p.status = end
        BY DEF ToolEnd, Packet
    <2> HIDE DEF p
    <2>2. /\ Reduce(ee, s, p) = Append(e, Folded(ee, s, p))
          /\ Folded(ee, s, p) \in ToolEvent /\ Folded(ee, s, p).id = id
          /\ Folded(ee, s, p).args = args /\ Folded(ee, s, p).status = end
        BY <1>5, <2>1
    <2>3. Folded(ee, s, p) = Tool(id, args, end)
        BY <2>2, ToolFields
    <2> QED BY <2>1, <2>2, <2>3 DEF p
<1> QED BY <1>0, <1>6, <1>7 DEF ee, v
LEMMA Tuples ==
    ASSUME NEW S, NEW ps \in Seq(S), NEW x \in S, NEW y \in S, NEW z \in S
    PROVE  /\ ps \o <<x>> = Append(ps, x) /\ Append(ps, x) \in Seq(S)
           /\ ps \o <<x, y>> = Append(Append(ps, x), y)
           /\ Append(Append(ps, x), y) \in Seq(S)
           /\ ps \o <<x, y, z>> = Append(Append(Append(ps, x), y), z)
OBVIOUS

LEMMA SmallAppend ==
    ASSUME NEW S, NEW x \in S, NEW y \in S
    PROVE  <<x>> \in Seq(S) /\ Append(<<x>>, y) = <<x, y>> /\ <<x, y>> \in Seq(S)
<1>1. <<x>> \in Seq(S) /\ <<x, y>> \in Seq(S)
    OBVIOUS
<1>2. /\ Append(<<x>>, y) \in Seq(S) /\ Len(Append(<<x>>, y)) = 2
      /\ Append(<<x>>, y)[1] = x /\ Append(<<x>>, y)[2] = y
    BY <1>1
<1>3. Len(<<x, y>>) = 2 /\ <<x, y>>[1] = x /\ <<x, y>>[2] = y
    OBVIOUS
<1>4. \A i \in 1..2 : Append(<<x>>, y)[i] = <<x, y>>[i]
    BY <1>2, <1>3
<1> QED BY <1>1, <1>2, <1>3, <1>4, SeqEqual

LEMMA SmallAppends ==
    ASSUME NEW S, NEW x \in S, NEW y \in S, NEW z \in S
    PROVE  /\ <<x>> \in Seq(S) /\ Append(<<x>>, y) = <<x, y>>
           /\ <<x, y>> \in Seq(S) /\ Append(<<x, y>>, z) = <<x, y, z>>
<1>1. <<x>> \in Seq(S) /\ <<x, y>> \in Seq(S)
    OBVIOUS
<1>2. Append(<<x>>, y) = <<x, y>>
    BY SmallAppend
<1>3. Append(<<x, y>>, z) = <<x, y, z>>
    <2>1. /\ Append(<<x, y>>, z) \in Seq(S) /\ Len(Append(<<x, y>>, z)) = 3
          /\ Append(<<x, y>>, z)[1] = x /\ Append(<<x, y>>, z)[2] = y
          /\ Append(<<x, y>>, z)[3] = z
        BY <1>1
    <2>2. /\ Len(<<x, y, z>>) = 3 /\ <<x, y, z>>[1] = x /\ <<x, y, z>>[2] = y
          /\ <<x, y, z>>[3] = z /\ <<x, y, z>> \in Seq(S)
        OBVIOUS
    <2>3. \A i \in 1..3 : Append(<<x, y>>, z)[i] = <<x, y, z>>[i]
        BY <2>1, <2>2
    <2> QED BY <1>1, <2>1, <2>2, <2>3, SeqEqual
<1> QED BY <1>1, <1>2, <1>3

LEMMA SmallConcats ==
    ASSUME NEW S, NEW x \in S, NEW y \in S, NEW z \in S
    PROVE  /\ <<x>> \o <<>> \o <<>> = <<x>>
           /\ <<x>> \o <<y>> \o <<>> = <<x, y>>
           /\ <<x>> \o <<>> \o <<z>> = <<x, z>>
           /\ <<x>> \o <<y>> \o <<z>> = <<x, y, z>>
<1>1. PICK a \in Seq(S) : a = <<x>>
    BY SmallAppends
<1>2. PICK b \in Seq(S) : b = <<x, y>>
    BY SmallAppends
<1>3. a \o <<>> = a /\ b \o <<>> = b
    BY ConcatEmptySeq
<1>4. a \o <<y>> = b /\ a \o <<z>> = <<x, z>>
    <2>1. a \o <<y>> = Append(a, y)
        BY Tuples
    <2>2. a \o <<z>> = Append(a, z)
        BY Tuples
    <2>3. Append(a, y) = b
        BY <1>1, <1>2, SmallAppends
    <2>4. Append(a, z) = <<x, z>>
        BY <1>1, SmallAppend
    <2> QED BY <2>1, <2>2, <2>3, <2>4
<1>5. b \o <<z>> = <<x, y, z>>
    <2>1. b \o <<z>> = Append(b, z)
        BY Tuples
    <2>2. Append(b, z) = <<x, y, z>>
        BY <1>2, SmallAppends
    <2> QED BY <2>1, <2>2
<1>6. a \o <<>> \o <<>> = a /\ a \o <<y>> \o <<>> = b /\ a \o <<>> \o <<z>> = <<x, z>>
      /\ a \o <<y>> \o <<z>> = <<x, y, z>>
    BY <1>3, <1>4, <1>5
<1> QED BY <1>1, <1>2, <1>6

LEMMA NumberedIs ==
    ASSUME NEW s, NEW x
    PROVE  Numbered(s, <<x>>) = <<[step |-> s, packet |-> x]>>
BY DEF Numbered

LEMMA NumberedTwo ==
    ASSUME NEW s, NEW x, NEW y
    PROVE  Numbered(s, <<x, y>>) = <<[step |-> s, packet |-> x], [step |-> s, packet |-> y]>>
BY DEF Numbered

LEMMA NumberedThree ==
    ASSUME NEW s, NEW x, NEW y, NEW z
    PROVE  Numbered(s, <<x, y, z>>) = <<[step |-> s, packet |-> x],
               [step |-> s, packet |-> y], [step |-> s, packet |-> z]>>
BY DEF Numbered

\* A replayed event is the event that was persisted: a text run by one delta, a
\* tool by the packets its record calls for.
LEMMA ReplayEvent ==
    ASSUME NEW e \in Timeline, NEW v \in Event, NEW ps \in Seq(Sent), Reaches(ps, e),
           NEW n, n = Len(e) + 1
    PROVE  /\ ReplayOf(n, v) \in Seq(Sent) /\ ps \o ReplayOf(n, v) \in Seq(Sent)
           /\ Reaches(ps \o ReplayOf(n, v), Append(e, v))
<1> DEFINE sent(p) == [step |-> n, packet |-> p]
<1>1. n \in Nat /\ e \in Timeline
    BY DEF Timeline
<1>2. ASSUME NEW p \in Packet PROVE sent(p) \in Sent /\ sent(p).step = n /\ sent(p).packet = p
    BY <1>1 DEF Sent
<1>3. CASE v.kind = "text"
    <2>1. v \in TextEvent /\ v.content \in Seq(Nat)
        BY <1>3, EventKinds
    <2>2. PICK c \in Seq(Nat) : c = v.content
        BY <2>1
    <2>3. v = [kind |-> "text", content |-> c]
        BY <2>1, <2>2 DEF TextEvent
    <2>4. /\ Delta(c) \in Packet
          /\ Reduce(e, n, Delta(c)) = Append(e, v)
        BY <2>3, ReplayText
    <2>5. PICK x \in Sent : x = sent(Delta(c)) /\ x.step = n /\ x.packet = Delta(c)
        BY <1>2, <2>4
    <2>6. ReplayOf(n, v) = <<x>>
        BY <1>3, <2>2, <2>5, NumberedIs DEF ReplayOf
    <2>7. Reaches(Append(ps, x), Append(e, v))
        BY <2>4, <2>5, ReachesAppend
    <2>8. ps \o <<x>> = Append(ps, x) /\ Append(ps, x) \in Seq(Sent) /\ <<x>> \in Seq(Sent)
        BY Tuples
    <2> QED BY <2>6, <2>7, <2>8
<1>4. CASE v.kind = "tool"
    <2>0. v \in ToolEvent
        BY <1>4, EventKinds
    <2>1. PICK id \in Nat, args \in BOOLEAN, status \in {"none", "ok", "error"} :
              /\ v = Tool(id, args, status)
              /\ v.id = id /\ v.args = args /\ v.status = status
        BY <2>0, ToolFields
    <2> DEFINE a == ToolStart(id)
               b == ToolCall(id)
               c == ToolEnd(id, IF status = "none" THEN "ok" ELSE status)
    <2>2. /\ a \in Packet /\ Reduce(e, n, a) = Append(e, Tool(id, FALSE, "none"))
        BY ReplayStart
    <2>3. /\ b \in Packet
          /\ Reduce(Append(e, Tool(id, FALSE, "none")), n, b) = Append(e, Tool(id, TRUE, "none"))
        BY ReplayMore
    <2>4. ASSUME NEW had \in BOOLEAN, NEW end \in {"ok", "error"}
          PROVE  /\ ToolEnd(id, end) \in Packet
                 /\ Reduce(Append(e, Tool(id, had, "none")), n, ToolEnd(id, end)) =
                        Append(e, Tool(id, had, end))
        BY ReplayMore
    <2>5. /\ c \in Packet
          /\ status # "none" => c = ToolEnd(id, status)
          /\ status # "none" => \A had \in BOOLEAN :
                Reduce(Append(e, Tool(id, had, "none")), n, c) = Append(e, Tool(id, had, status))
        BY <2>4
    <2> HIDE DEF a, b, c
    <2>6. PICK x \in Sent : x = sent(a) /\ x.step = n /\ x.packet = a
        BY <1>2, <2>2
    <2>7. PICK y \in Sent : y = sent(b) /\ y.step = n /\ y.packet = b
        BY <1>2, <2>3
    <2>8. PICK z \in Sent : z = sent(c) /\ z.step = n /\ z.packet = c
        BY <1>2, <2>5
    <2>9. /\ Append(ps, x) \in Seq(Sent) /\ Append(Append(ps, x), y) \in Seq(Sent)
          /\ Append(Append(ps, x), z) \in Seq(Sent)
          /\ Append(Append(Append(ps, x), y), z) \in Seq(Sent)
          /\ <<x>> \in Seq(Sent) /\ <<x, y>> \in Seq(Sent) /\ <<x, z>> \in Seq(Sent)
          /\ <<x, y, z>> \in Seq(Sent)
        OBVIOUS
    <2>10. Reaches(Append(ps, x), Append(e, Tool(id, FALSE, "none")))
        BY <2>2, <2>6, ReachesAppend
    <2>11. Reaches(Append(Append(ps, x), y), Append(e, Tool(id, TRUE, "none")))
        BY <2>3, <2>7, <2>9, <2>10, ReachesAppend
    <2>12. ReplayOf(n, v) = Numbered(n, <<a>> \o (IF args THEN <<b>> ELSE <<>>)
                                              \o (IF status # "none" THEN <<c>> ELSE <<>>))
        <3>1. ReplayOf(n, v) =
                  Numbered(n, <<ToolStart(id)>>
                              \o (IF args THEN <<ToolCall(id)>> ELSE <<>>)
                              \o (IF status # "none" THEN <<ToolEnd(id, status)>> ELSE <<>>))
            BY <1>4, <2>1 DEF ReplayOf
        <3>2. status # "none" => <<ToolEnd(id, status)>> = <<c>>
            BY <2>5
        <3> QED BY <3>1, <3>2 DEF a, b
    <2>13. CASE args = FALSE /\ status = "none"
        <3>4. ReplayOf(n, v) = Numbered(n, <<a>> \o <<>> \o <<>>)
            BY <2>12, <2>13
        <3>5. <<a>> \o <<>> \o <<>> = <<a>>
            BY <2>2, <2>3, <2>5, SmallConcats
        <3>6. Numbered(n, <<a>>) = <<x>>
            BY <2>6, NumberedIs
        <3>1. ReplayOf(n, v) = <<x>>
            BY <3>4, <3>5, <3>6
        <3>2. ps \o <<x>> = Append(ps, x)
            BY Tuples
        <3> QED BY <2>1, <2>9, <2>10, <2>13, <3>1, <3>2
    <2>14. CASE args = TRUE /\ status = "none"
        <3>4. ReplayOf(n, v) = Numbered(n, <<a>> \o <<b>> \o <<>>)
            BY <2>12, <2>14
        <3>5. <<a>> \o <<b>> \o <<>> = <<a, b>>
            BY <2>2, <2>3, <2>5, SmallConcats
        <3>6. Numbered(n, <<a, b>>) = <<x, y>>
            <4>1. Numbered(n, <<a, b>>) = <<sent(a), sent(b)>>
                BY NumberedTwo
            <4> HIDE DEF sent
            <4> QED BY <2>6, <2>7, <4>1
        <3>1. ReplayOf(n, v) = <<x, y>>
            BY <3>4, <3>5, <3>6
        <3>2. ps \o <<x, y>> = Append(Append(ps, x), y)
            BY Tuples
        <3> QED BY <2>1, <2>9, <2>11, <2>14, <3>1, <3>2
    <2>15. CASE args = FALSE /\ status # "none"
        <3>4. ReplayOf(n, v) = Numbered(n, <<a>> \o <<>> \o <<c>>)
            BY <2>12, <2>15
        <3>5. <<a>> \o <<>> \o <<c>> = <<a, c>>
            BY <2>2, <2>3, <2>5, SmallConcats
        <3>6. Numbered(n, <<a, c>>) = <<x, z>>
            <4>1. Numbered(n, <<a, c>>) = <<sent(a), sent(c)>>
                BY NumberedTwo
            <4> HIDE DEF sent
            <4> QED BY <2>6, <2>8, <4>1
        <3>1. ReplayOf(n, v) = <<x, z>>
            BY <3>4, <3>5, <3>6
        <3>2. ps \o <<x, z>> = Append(Append(ps, x), z)
            BY Tuples
        <3>3. Reaches(Append(Append(ps, x), z), Append(e, Tool(id, FALSE, status)))
            BY <2>5, <2>8, <2>9, <2>10, <2>15, ReachesAppend
        <3> QED BY <2>1, <2>9, <2>15, <3>1, <3>2, <3>3
    <2>16. CASE args = TRUE /\ status # "none"
        <3>4. ReplayOf(n, v) = Numbered(n, <<a>> \o <<b>> \o <<c>>)
            BY <2>12, <2>16
        <3>5. <<a>> \o <<b>> \o <<c>> = <<a, b, c>>
            BY <2>2, <2>3, <2>5, SmallConcats
        <3>6. Numbered(n, <<a, b, c>>) = <<x, y, z>>
            <4>1. Numbered(n, <<a, b, c>>) = <<sent(a), sent(b), sent(c)>>
                BY NumberedThree
            <4> HIDE DEF sent
            <4> QED BY <2>6, <2>7, <2>8, <4>1
        <3>1. ReplayOf(n, v) = <<x, y, z>>
            BY <3>4, <3>5, <3>6
        <3>2. ps \o <<x, y, z>> = Append(Append(Append(ps, x), y), z)
            BY Tuples
        <3>3. Reaches(Append(Append(Append(ps, x), y), z), Append(e, Tool(id, TRUE, status)))
            BY <2>5, <2>8, <2>9, <2>11, <2>16, ReachesAppend
        <3> QED BY <2>1, <2>9, <2>16, <3>1, <3>2, <3>3
    <2> QED BY <2>1, <2>13, <2>14, <2>15, <2>16
<1> QED BY <1>3, <1>4, EventKinds
\* The packets of a replay take a client with nothing to the persisted timeline.
LEMMA ReplayReaches ==
    \A e \in Timeline : /\ Packets(e) \in Seq(Seq(Sent))
                        /\ FlattenSeq(Packets(e)) \in Seq(Sent)
                        /\ Reaches(FlattenSeq(Packets(e)), e)
<1> DEFINE Good(e) == /\ Packets(e) \in Seq(Seq(Sent))
                      /\ FlattenSeq(Packets(e)) \in Seq(Sent)
                      /\ Reaches(FlattenSeq(Packets(e)), e)
           bad == {n \in Nat : \E e \in Timeline : Len(e) = n /\ ~Good(e)}
<1>1. bad = {}
    <2> SUFFICES ASSUME bad # {} PROVE FALSE
        OBVIOUS
    <2>1. bad \in SUBSET Nat
        OBVIOUS
    <2>2. PICK n \in bad : \A m \in bad : n <= m
        <3> HIDE DEF bad
        <3> QED BY <2>1, LeastNatural
    <2> HIDE DEF Good
    <2>3. n \in Nat /\ \E e \in Timeline : Len(e) = n /\ ~Good(e)
        OBVIOUS
    <2>4. PICK e \in Timeline : Len(e) = n /\ ~Good(e)
        BY <2>3
    <2>5. CASE n = 0
        <3>1. e = <<>> /\ Packets(e) = <<>>
            BY <2>4, <2>5 DEF Packets, Timeline
        <3>2. FlattenSeq(<<>>) = <<>>
            BY DEF FlattenSeq
        <3> QED BY <2>4, <3>1, <3>2, EmptySeq, ReachesNothing DEF Good
    <2>6. CASE n # 0
        <3>1. Len(e) > 0
            BY <2>3, <2>4, <2>6
        <3>2. PICK front \in Timeline : e = Append(front, e[Len(e)]) /\ e[Len(e)] \in Event
            BY <3>1, FrontAndLast
        <3>3. PICK v \in Event : v = e[Len(e)]
            BY <3>2
        <3>0. front \in Seq(Event) /\ e = Append(front, v)
            BY <3>2, <3>3 DEF Timeline
        <3>4. /\ front \in Seq(Event) /\ Len(front) \in Nat /\ Len(e) = Len(front) + 1
              /\ n = Len(front) + 1 /\ e = Append(front, v)
              /\ \A k \in 1..Len(front) : e[k] = front[k]
            <4>1. Len(front) \in Nat /\ Len(Append(front, v)) = Len(front) + 1
                BY <3>0
            <4>2. \A k \in 1..Len(front) : Append(front, v)[k] = front[k]
                BY <3>0
            <4> QED BY <2>4, <3>0, <4>1, <4>2
        <3>5. Good(front)
            <4>1. Len(front) \in Nat /\ Len(front) \notin bad
                <5> HIDE DEF bad
                <5> QED BY <2>2, <2>3, <3>4
            <4> QED BY <4>1
        <3> DEFINE ps == FlattenSeq(Packets(front))
                   more == ReplayOf(n, v)
        <3>6. ps \in Seq(Sent) /\ Reaches(ps, front) /\ Packets(front) \in Seq(Seq(Sent))
            BY <3>5 DEF Good
        <3>7. /\ more \in Seq(Sent) /\ ps \o more \in Seq(Sent)
              /\ Reaches(ps \o more, Append(front, v))
            <4> HIDE DEF ps
            <4> QED BY <3>4, <3>6, ReplayEvent
        <3> HIDE DEF ps, more
        <3>8. Packets(e) = Append(Packets(front), more)
            <4>1. Len(Packets(front)) = Len(front)
                BY <3>4 DEF Packets
            <4>2. /\ Append(Packets(front), more) \in Seq(Seq(Sent))
                  /\ Len(Append(Packets(front), more)) = n
                  /\ Append(Packets(front), more)[n] = more
                  /\ \A k \in 1..Len(front) : Append(Packets(front), more)[k] = Packets(front)[k]
                BY <3>4, <3>6, <3>7, <4>1
            <4>3. \A k \in 1..n : Packets(e)[k] = Append(Packets(front), more)[k]
                <5> SUFFICES ASSUME NEW k \in 1..n
                             PROVE  Packets(e)[k] = Append(Packets(front), more)[k]
                    OBVIOUS
                <5>1. Packets(e)[k] = ReplayOf(k, e[k])
                    BY <3>4 DEF Packets
                <5>2. CASE k = n
                    BY <3>3, <3>4, <4>2, <5>1, <5>2 DEF more
                <5>3. CASE k # n
                    <6>1. k \in 1..Len(front)
                        BY <3>4, <5>3
                    <6>2. Packets(front)[k] = ReplayOf(k, front[k])
                        BY <6>1 DEF Packets
                    <6> QED BY <3>4, <4>2, <5>1, <6>1, <6>2
                <5> QED BY <5>2, <5>3
            <4>4. /\ Packets(e) = [k \in 1..n |-> Packets(e)[k]]
                  /\ Append(Packets(front), more) = [k \in 1..n |-> Append(Packets(front), more)[k]]
                <5>1. Packets(e) = [k \in 1..n |-> Packets(e)[k]]
                    BY <2>4 DEF Packets
                <5> DEFINE q == Append(Packets(front), more)
                <5>2. q \in Seq(Seq(Sent)) /\ Len(q) = n
                    BY <4>2
                <5> HIDE DEF q
                <5>3. q = [k \in 1..n |-> q[k]]
                    BY <5>2
                <5> QED BY <5>1, <5>3 DEF q
            <4> DEFINE q == Append(Packets(front), more)
            <4> HIDE DEF q
            <4>5. \A k \in 1..n : Packets(e)[k] = q[k]
                BY <4>3 DEF q
            <4>6. Packets(e) = [k \in 1..n |-> Packets(e)[k]] /\ q = [k \in 1..n |-> q[k]]
                BY <4>4 DEF q
            <4>7. Packets(e) = q
                BY <4>5, <4>6
            <4> QED BY <4>7 DEF q
        <3>9. FlattenSeq(Packets(e)) = ps \o more
            BY <3>6, <3>7, <3>8, FlattenAppend DEF ps
        <3>10. Packets(e) \in Seq(Seq(Sent))
            <4>1. Append(Packets(front), more) \in Seq(Seq(Sent))
                BY <3>6, <3>7
            <4> QED BY <3>8, <4>1
        <3> QED BY <2>4, <3>4, <3>7, <3>9, <3>10 DEF Good
    <2> QED BY <2>5, <2>6
<1> SUFFICES ASSUME NEW e \in Timeline PROVE Good(e)
    OBVIOUS
<1>2. Len(e) \in Nat
    BY DEF Timeline
<1> HIDE DEF Good
<1> QED BY <1>1, <1>2

LEMMA ReplayIsExact ==
    ASSUME NEW e \in Timeline
    PROVE  Replayed(e) = e
<1>1. PICK ps : ps = FlattenSeq(Packets(e))
    OBVIOUS
<1>2. ps \in Seq(Sent) /\ Reaches(ps, e)
    BY <1>1, ReplayReaches
<1>3. TheFolds(ps)[DOMAIN ps] = e
    BY <1>2, ReachesIs
<1> QED BY <1>1, <1>3, ReplayedIs

\* A client that retries a persisted turn ends with the very timeline it would
\* have had from the live stream.
THEOREM ReplayIsLive == Spec => []ReplayAgrees
<1>1. IInv => ReplayAgrees
    <2> SUFFICES ASSUME IInv PROVE ReplayAgrees
        OBVIOUS
    <2>1. events \in Timeline /\ shown = events
        BY DEF IInv, TimelineInv, Types, LatestStep
    <2>2. Replayed(events) = events
        BY <2>1, ReplayIsExact
    <2> QED BY <2>1, <2>2 DEF ReplayAgrees
<1> QED BY <1>1, IInvHolds, PTL
=============================================================================
