------------------------------- MODULE SseBlocks -------------------------------
(***************************************************************************)
(* The wire between POST /chat and the client: the blocks sse-starlette    *)
(* sends for a packet, and mobile/lib/api/sse-parser.ts, which is called   *)
(* with one chunk of the body at a time and the leftover of the call       *)
(* before.  A chunk ends anywhere, between the CR and the LF of a line end *)
(* as well.                                                                *)
(*                                                                         *)
(* The text is a sequence of tokens: CR, LF and the lines between them.  A *)
(* chunk that ends inside a line is covered by one that ends before it:    *)
(* the leftover is put in front of the next chunk, and nothing but CR and  *)
(* LF is looked for before that.                                           *)
(***************************************************************************)
EXTENDS Naturals, Sequences, FiniteSets, SequencesExt

CR == [line |-> "CR", packet |-> 0]
LF == [line |-> "LF", packet |-> 0]
EventLine(k) == [line |-> "event", packet |-> k]
DataLine(k) == [line |-> "data", packet |-> k]
Comment == [line |-> ":", packet |-> 0]

LineEnd == <<CR, LF>>

\* _sse: a packet as sse-starlette writes it.
Block(k) == <<EventLine(k)>> \o LineEnd \o <<DataLine(k)>> \o LineEnd \o LineEnd

\* A keep-alive, which may come between any two packets.
Ping == <<Comment>> \o LineEnd \o LineEnd

-----------------------------------------------------------------------------
\* An LF takes the place of the CR it follows.
Ended(sofar, token) ==
    IF token = LF /\ sofar # <<>> /\ Last(sofar) = CR
    THEN Append(Front(sofar), LF) ELSE Append(sofar, token)

WithoutCRLF(buffer) ==
    LET ended[k \in 0..Len(buffer)] == IF k = 0 THEN <<>> ELSE Ended(ended[k - 1], buffer[k])
    IN  ended[Len(buffer)]

\* Mutant: a lone CR is a line end, too.
AnyLineEnd(buffer) ==
    LET text == WithoutCRLF(buffer)
    IN  [k \in DOMAIN text |-> IF text[k] = CR THEN LF ELSE text[k]]

\* replace(/\r\n/g, "\n").
Normalized(buffer) == WithoutCRLF(buffer)

\* parseBlock: the last event line and the last data line, or nothing.
Parsed(block) ==
    LET lines(kind) == {k \in DOMAIN block : block[k].line = kind}
    IN  IF lines("event") = {} \/ lines("data") = {} THEN <<>>
        ELSE <<[event |-> block[Max(lines("event"))].packet,
                data |-> block[Max(lines("data"))].packet]>>

\* The search for the separator: the second of two LF ends the block.
Scan(sofar, token) ==
    IF token = LF /\ sofar.block # <<>> /\ Last(sofar.block) = LF
    THEN [events |-> sofar.events \o Parsed(Front(sofar.block)), block |-> <<>>]
    ELSE [sofar EXCEPT !.block = Append(@, token)]

\* splitSseBlocks: block is the new leftover.
SplitSseBlocks(chunk, leftover) ==
    LET buffer == Normalized(leftover \o chunk)
        scan[k \in 0..Len(buffer)] ==
            IF k = 0 THEN [events |-> <<>>, block |-> <<>>] ELSE Scan(scan[k - 1], buffer[k])
    IN  scan[Len(buffer)]

-----------------------------------------------------------------------------
\* The body of a reply with n packets, with a keep-alive after the first.
Body(n) ==
    FlattenSeq([k \in 1..n |-> IF k = 1 THEN Block(k) \o Ping ELSE Block(k)])

\* The number of packets that are complete within the first p tokens.
Complete(text, p) ==
    LET ends == {q \in 5..p : /\ SubSeq(text, q - 3, q) = LineEnd \o LineEnd
                              /\ text[q - 4].line = "data"}
    IN  Cardinality(ends)

\* The packets k + 1..m, each with its own data.
Run(k, m) == [j \in 1..(m - k) |-> [event |-> k + j, data |-> k + j]]

\* What streamChat has after a first chunk of p tokens, and what a next chunk up to
\* token q adds: the packets that are complete, each once, and a leftover that
\* does not show where the text was cut.  By induction, so for all chunks.
CutsDoNotShow(text, k) ==
    \A p \in {p \in 0..Len(text) : Complete(text, p) = k} :
        LET first == SplitSseBlocks(SubSeq(text, 1, p), <<>>) IN
        /\ first.events = Run(0, k)
        /\ \A q \in p..Len(text) :
              LET next == SplitSseBlocks(SubSeq(text, p + 1, q), first.block) IN
              /\ next.events = Run(k, Complete(text, q))
              /\ next.block = SplitSseBlocks(SubSeq(text, 1, q), <<>>).block
=============================================================================
