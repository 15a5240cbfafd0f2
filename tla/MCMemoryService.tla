--------------------------- MODULE MCMemoryService ---------------------------
(* Small instances of MemoryService for TLC.  Two spellings of one entry and *)
(* a second entry: "Tea" and "tea" have the same canonical hash.             *)
EXTENDS MemoryService, TLC

MCTexts == {"Tea", "tea", "Rain"}
\* Without the second spelling: enough for two memories to exchange their texts.
MCTwoTexts == {"Tea", "Rain"}
MCHashes == {"h_tea", "h_rain"}
MCCanon == [t \in Texts |-> IF t = "Rain" THEN "h_rain" ELSE "h_tea"]

Symmetry == Permutations(Ids) \cup Permutations(Requests) \cup Permutations(Metas)
=============================================================================
