-------------------------------- MODULE ChatWire --------------------------------
(***************************************************************************)
(* The chat client over the wire of SseBlocks: why a chunk of the body is, *)
(* in ChatClient, some number of the packets that come next.               *)
(***************************************************************************)
EXTENDS ChatClient, SseBlocks

\* For a client that has the first k packets of a reply and its finish.
WireAfter == [k \in 0..Packets |-> CutsDoNotShow(Body(Packets + 1), k)]

\* Wherever the network cuts the body, between the CR and the LF of a blank line
\* as well, the chunks of an open stream bring the packets it has not received,
\* none twice, none lost, none merged with its neighbour: what Receive and
\* FinishStream take for granted.
ChunksArePackets ==
    \A x \in Sends : stream[x].pc = "open" => WireAfter[stream[x].received]
=============================================================================
