------------------------------ MODULE MCChatTurn ------------------------------
(***************************************************************************)
(* Instances of ChatTurn for TLC.                                          *)
(***************************************************************************)
EXTENDS ChatTurn, TLC

Symmetry == Permutations(Posts) \cup Permutations(Turns) \cup Permutations(Texts)
=============================================================================
