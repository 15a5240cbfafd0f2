---------------------------- MODULE MCChatHistory ----------------------------
(***************************************************************************)
(* Instances of ChatHistory for TLC, with the symmetry of MCChatTurn.      *)
(***************************************************************************)
EXTENDS MCChatTurn, ChatHistory

Times ==
    {0} \cup {began[p] : p \in Posts} \cup {askedAt[t] : t \in Turns}
        \cup {repliedAt[p] : p \in Posts}

InOrder(time) == [x \in DOMAIN time |-> Cardinality({t \in Times : t < time[x]})]

\* Times are only compared, and no step and no property looks at the times of a
\* session that is closed.
View ==
    IF closed THEN <<vars, loaded>>
    ELSE <<vars, InOrder(began), InOrder(askedAt), InOrder(repliedAt), loaded, raced>>
=============================================================================
