------------------------------ MODULE ChatStream ------------------------------
(***************************************************************************)
(* One run of the agent and its three accounts of the turn: the packets    *)
(* run_agent_stream (app/agents/runtime.py) yields, numbered by            *)
(* StepAssigner; the timeline StreamState (app/api/_chat_stream.py) folds  *)
(* from them and persists; and the timeline the client's reducer           *)
(* (mobile/lib/chat/reducer.ts) folds from what it receives, live or on a  *)
(* replay.                                                                 *)
(*                                                                         *)
(* The model's text is a sequence of numbered deltas, a tool call is its   *)
(* tool_call_id, arguments and results are reduced to whether they are     *)
(* there.  The provider gives every call of a run an id of its own.        *)
(***************************************************************************)
EXTENDS Integers, Sequences, FiniteSets, SequencesExt

CONSTANTS
    MaxToolTurns,  \* _MAX_TOOL_TURNS
    MaxDeltas,     \* text deltas in one model turn
    MaxCalls       \* tool calls in one model turn

ASSUME BoundsAssumption ==
    MaxToolTurns \in Nat \ {0} /\ MaxDeltas \in Nat /\ MaxCalls \in Nat

VARIABLES
    pc,        \* where run_agent_stream is
    turns,     \* iterations of its loop that were entered
    deltas,    \* text deltas of this model turn
    said,      \* text deltas of the run
    called,    \* tool calls of the run; also the last tool_call_id
    pending,   \* calls of this model turn that have not run
    messages,  \* the conversation after the user's input
    assigner,  \* StepAssigner
    events,    \* StreamState.events
    shown,     \* ActiveTurn.events in the reducer
    sawError   \* StreamState.saw_error

vars == <<pc, turns, deltas, said, called, pending, messages, assigner, events,
          shown, sawError>>

Pcs == {"model", "next", "args", "run", "bad", "raised", "stopped"}

Kinds == {"none", "text", "tool"}

TextEvent == [kind : {"text"}, content : Seq(Nat)]
ToolEvent == [kind : {"tool"}, id : Nat, args : BOOLEAN,
              status : {"none", "ok", "error"}]
Event == TextEvent \cup ToolEvent

Timeline == Seq(Event)

AssistantMessage(calls) == [role |-> "assistant", calls |-> calls]
ToolMessage(id) == [role |-> "tool", id |-> id]

Init ==
    /\ pc = "model" /\ turns = 1
    /\ deltas = 0 /\ said = 0 /\ called = 0
    /\ pending = <<>> /\ messages = <<>>
    /\ assigner = [next |-> 1, textStep |-> 0, toolSteps |-> <<>>, lastKind |-> "none"]
    /\ events = <<>> /\ shown = <<>>
    /\ sawError = FALSE

-----------------------------------------------------------------------------
(* Packets.  The step of a packet and the assigner after it.               *)

Delta(d) == [type |-> "delta", delta |-> d]
ToolStart(id) == [type |-> "start", id |-> id]
ToolCall(id) == [type |-> "call", id |-> id]
ToolEnd(id, status) == [type |-> "end", id |-> id, status |-> status]

\* d[k] = v of a Python dict.
Stored(d, k, v) == [t \in DOMAIN d \cup {k} |-> IF t = k THEN v ELSE d[t]]

KnownCall(a, p) == p.id \in DOMAIN a.toolSteps

\* Mutant: a delta after a tool opens no new run.
AnyKindContinues(a) == a.lastKind # "none"

\* A delta continues the text run only right after another delta.
TextContinues(a) == a.lastKind = "text"

TakeStep(a) == [a EXCEPT !.next = @ + 1]

\* step_for, what it does to the assigner.  A new tool block takes a step, the
\* further packets of a known one do not.
Assign(a, p) ==
    IF p.type = "delta"
    THEN IF TextContinues(a) THEN a
         ELSE [TakeStep(a) EXCEPT !.textStep = a.next, !.lastKind = "text"]
    ELSE IF KnownCall(a, p) THEN [a EXCEPT !.lastKind = "tool"]
         ELSE [TakeStep(a) EXCEPT !.toolSteps = Stored(@, p.id, a.next),
                                  !.textStep = 0, !.lastKind = "tool"]

\* step_for, what it returns, from the assigner after the packet.
StepOf(a, p) == IF p.type = "delta" THEN a.textStep ELSE a.toolSteps[p.id]

-----------------------------------------------------------------------------
(* The two folds: e is a timeline, s the step of packet p.                 *)

At(e, s, kind) == s \in DOMAIN e /\ e[s].kind = kind

\* StreamState._tool_record: what is there, or a fresh record.
ToolRecord(e, s, p) ==
    IF At(e, s, "tool") THEN e[s]
    ELSE [kind |-> "tool", id |-> p.id, args |-> FALSE, status |-> "none"]

\* Mutant: a delta takes the place of the run so far.
FoldReplaces(e, s, p) ==
    Stored(e, s, [kind |-> "text", content |-> p.delta])

\* StreamState.fold, a text delta.
FoldText(e, s, p) ==
    Stored(e, s, [kind |-> "text",
                  content |-> IF At(e, s, "text") THEN e[s].content \o p.delta
                              ELSE p.delta])

\* StreamState.fold, a tool packet.
FoldTool(e, s, p) ==
    LET record == ToolRecord(e, s, p) IN
    Stored(e, s, CASE p.type = "start" -> record
                   [] p.type = "call"  -> [record EXCEPT !.args = TRUE]
                   [] p.type = "end"   -> [record EXCEPT !.status = p.status])

Fold(e, s, p) == IF p.type = "delta" THEN FoldText(e, s, p) ELSE FoldTool(e, s, p)

\* The reducer's cases of the same packets.
Reduce(e, s, p) ==
    LET text == IF At(e, s, "text") THEN e[s].content ELSE <<>>
        base == IF At(e, s, "tool") THEN e[s]
                ELSE [kind |-> "tool", id |-> p.id, args |-> FALSE, status |-> "none"]
        next == IF p.type = "delta" THEN [kind |-> "text", content |-> text \o p.delta]
                ELSE [base EXCEPT !.args = @ \/ p.type = "call",
                                  !.status = IF p.type = "end" THEN p.status ELSE @]
    IN  [t \in DOMAIN e \cup {s} |-> IF t = s THEN next ELSE e[t]]

\* A packet is numbered, folded and sent; the client reduces it.
Emit(p) ==
    LET a == Assign(assigner, p)
        s == StepOf(a, p)
    IN  /\ assigner' = a
        /\ events' = Fold(events, s, p)
        /\ shown' = Reduce(shown, s, p)

Silent == UNCHANGED <<assigner, events, shown>>

-----------------------------------------------------------------------------
(* The loop.                                                               *)

\* A text delta of the model.
StreamText ==
    /\ pc = "model" /\ deltas < MaxDeltas
    /\ deltas' = deltas + 1 /\ said' = said + 1
    /\ Emit(Delta(<<said + 1>>))
    /\ UNCHANGED <<pc, turns, called, pending, messages, sawError>>

\* The model's stream ends.  The run goes on only for finish_reason
\* "tool_calls" with calls to run.
EndModelTurn(n, reason) ==
    LET calls == [k \in 1..n |-> called + k] IN
    /\ pc = "model"
    /\ messages' = Append(messages, AssistantMessage(calls))
    /\ called' = called + n
    /\ IF reason = "tool_calls" /\ n > 0
       THEN pc' = "next" /\ pending' = calls
       ELSE pc' = "stopped" /\ pending' = <<>>
    /\ Silent /\ UNCHANGED <<turns, deltas, said, sawError>>

\* An ErrorPacket ends the run; it has no step and no event.
EmitError == pc' = "stopped" /\ sawError' = TRUE /\ Silent

\* The completion call or its stream raises.
ModelFails ==
    /\ pc = "model"
    /\ EmitError
    /\ UNCHANGED <<turns, deltas, said, called, pending, messages>>

\* The arguments parse or they do not; either way the start packet is first.
StartTool ==
    /\ pc = "next" /\ pending # <<>>
    /\ Emit(ToolStart(Head(pending)))
    /\ pc' \in {"args", "bad"}
    /\ UNCHANGED <<turns, deltas, said, called, pending, messages, sawError>>

\* The model named a tool that does not exist: a KeyError before any packet.
UnknownTool ==
    /\ pc = "next" /\ pending # <<>>
    /\ EmitError
    /\ UNCHANGED <<turns, deltas, said, called, pending, messages>>

CallTool ==
    /\ pc = "args"
    /\ Emit(ToolCall(Head(pending)))
    /\ pc' = "run"
    /\ UNCHANGED <<turns, deltas, said, called, pending, messages, sawError>>

Answer(status) ==
    /\ Emit(ToolEnd(Head(pending), status))
    /\ messages' = Append(messages, ToolMessage(Head(pending)))
    /\ pending' = Tail(pending)
    /\ pc' = "next"
    /\ UNCHANGED <<turns, deltas, said, called, sawError>>

ToolSucceeds == pc = "run" /\ Answer("ok")

\* Mutant: the model is not told.
RefusedSilently ==
    /\ pc \in {"run", "bad"}
    /\ Emit(ToolEnd(Head(pending), "error"))
    /\ pending' = Tail(pending)
    /\ pc' = "next"
    /\ UNCHANGED <<turns, deltas, said, called, messages, sawError>>

\* _surface_tool_error, after the call packet or instead of it.
ToolRefused == pc \in {"run", "bad"} /\ Answer("error")

\* Mutant: the exception leaves the tool open.
RaiseAtOnce ==
    /\ pc = "run"
    /\ pc' = "raised"
    /\ Silent /\ UNCHANGED <<turns, deltas, said, called, pending, messages, sawError>>

\* Any other exception of a tool closes it first.
ToolRaises ==
    /\ pc = "run"
    /\ Emit(ToolEnd(Head(pending), "error"))
    /\ pc' = "raised"
    /\ UNCHANGED <<turns, deltas, said, called, pending, messages, sawError>>

Propagate ==
    /\ pc = "raised"
    /\ EmitError
    /\ UNCHANGED <<turns, deltas, said, called, pending, messages>>

\* Mutant: one model turn too many.
OneTurnMore == turns <= MaxToolTurns

TurnsLeft == turns < MaxToolTurns

\* All calls ran: the next model turn, or the cap.
NextTurn ==
    /\ pc = "next" /\ pending = <<>>
    /\ IF TurnsLeft
       THEN /\ pc' = "model" /\ turns' = turns + 1 /\ deltas' = 0
            /\ Silent /\ UNCHANGED sawError
       ELSE EmitError /\ UNCHANGED <<turns, deltas>>
    /\ UNCHANGED <<said, called, pending, messages>>

Next ==
    \/ StreamText
    \/ \E n \in 0..MaxCalls, reason \in {"stop", "tool_calls"} : EndModelTurn(n, reason)
    \/ ModelFails
    \/ StartTool \/ UnknownTool \/ CallTool
    \/ ToolSucceeds \/ ToolRefused \/ ToolRaises \/ Propagate
    \/ NextTurn

Spec == Init /\ [][Next]_vars

-----------------------------------------------------------------------------
(* What is persisted, and its replay.                                      *)

ShouldPersist == pc = "stopped" /\ ~sawError /\ DOMAIN events # {}

\* sorted(events)
Steps(e) ==
    [k \in 1..Cardinality(DOMAIN e) |->
        CHOOSE s \in DOMAIN e : Cardinality({t \in DOMAIN e : t <= s}) = k]

Numbered(s, ps) == [k \in DOMAIN ps |-> [step |-> s, packet |-> ps[k]]]

\* Mutant: a tool that failed is replayed as if it still ran.
ReplayOkOnly(s, v) ==
    Numbered(s, IF v.kind = "text" THEN <<Delta(v.content)>>
                ELSE <<ToolStart(v.id)>>
                     \o (IF v.args THEN <<ToolCall(v.id)>> ELSE <<>>)
                     \o (IF v.status = "ok" THEN <<ToolEnd(v.id, "ok")>> ELSE <<>>))

\* replay_stream, one event: a text run is one delta, a tool its three packets.
ReplayOf(s, v) ==
    Numbered(s, IF v.kind = "text" THEN <<Delta(v.content)>>
                ELSE <<ToolStart(v.id)>>
                     \o (IF v.args THEN <<ToolCall(v.id)>> ELSE <<>>)
                     \o (IF v.status # "none" THEN <<ToolEnd(v.id, v.status)>> ELSE <<>>))

\* The client's timeline after a replay of the persisted one.
Replayed(e) ==
    LET steps == Steps(e)
        packets == FlattenSeq([k \in DOMAIN steps |-> ReplayOf(steps[k], e[steps[k]])])
    IN  FoldLeft(LAMBDA seen, sent : Reduce(seen, sent.step, sent.packet), <<>>, packets)

\* messages.content: the text events joined in step order.
AssistantContent(e) ==
    LET steps == Steps(e) IN
    FlattenSeq([k \in DOMAIN steps |->
                   IF e[steps[k]].kind = "text" THEN e[steps[k]].content ELSE <<>>])

-----------------------------------------------------------------------------
\* The timelines are dense, numbered from 1, and everything is well formed.
TypeOK ==
    /\ pc \in Pcs
    /\ turns \in 1..MaxToolTurns /\ deltas \in 0..MaxDeltas
    /\ said \in Nat /\ called \in Nat
    /\ pending \in Seq(1..called)
    /\ \A k \in DOMAIN messages : messages[k].role \in {"assistant", "tool"}
    /\ assigner.next \in Nat /\ assigner.textStep \in Nat /\ assigner.lastKind \in Kinds
    /\ events \in Timeline /\ shown \in Timeline
    /\ sawError \in BOOLEAN

\* A client that retries a persisted turn ends with the very timeline it would
\* have had from the live stream, failed tools and refused arguments included.
ReplayAgrees == ShouldPersist => Replayed(events) = shown

\* The persisted text is what the model said, every delta once and in order,
\* whatever tools interrupt it.
ContentIsWhatWasSaid == AssistantContent(events) = [d \in 1..said |-> d]

\* A packet never reaches behind the latest event: steps are monotonic, and a
\* closed text run or tool stays as it was.
OnlyLatestEventChanges ==
    [][\A s \in DOMAIN events' :
           (s \in DOMAIN events => events[s] # events'[s])
               => \A u \in DOMAIN events' : u <= s]_vars

\* Whenever the model is asked again, each tool call of each earlier message
\* has been answered by one tool message, in order and before the next message:
\* the completions API refuses a conversation with an open call.
CallsAnswered ==
    pc = "model" =>
        \A k \in DOMAIN messages : messages[k].role = "assistant" =>
            LET calls == messages[k].calls
                after == k + Len(calls) + 1
            IN  /\ \A j \in DOMAIN calls :
                       k + j \in DOMAIN messages /\ messages[k + j] = ToolMessage(calls[j])
                /\ after \in DOMAIN messages => messages[after].role = "assistant"

\* However a run ends, by an exception of a tool included, no tool is left
\* without its end packet: the client shows none as still running.
ToolsClosed ==
    pc = "stopped" => \A s \in DOMAIN shown : shown[s].kind = "tool" => shown[s].status # "none"
=============================================================================
