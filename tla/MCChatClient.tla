----------------------------- MODULE MCChatClient -----------------------------
(***************************************************************************)
(* Instances of ChatClient for TLC.                                        *)
(***************************************************************************)
EXTENDS ChatWire, TLC

Symmetry == Permutations(Sends) \cup Permutations(Sessions)
=============================================================================
