---------------------------- MODULE MemoryJournal ----------------------------
(***************************************************************************)
(* What the memory service promises its callers about the journal itself,  *)
(* whatever the search index does: entries are added, edited and removed   *)
(* one at a time and atomically, two live entries never share a dedupe     *)
(* key, and a removed entry is gone for good.                              *)
(*                                                                         *)
(* An entry's key is the digest the database keeps beside its text.  A new *)
(* entry's key is the canonical hash of its text; an edit replaces columns *)
(* of the entry, so the promise about keys is about the stored digest.     *)
(***************************************************************************)
CONSTANTS
    Ids,      \* memory ids
    Texts,    \* texts of an entry
    Metas,    \* its other columns (event date, zone, location)
    Hashes,   \* digests
    Canon,    \* [Texts -> Hashes], the canonical hash
    Absent,   \* an id no entry was ever added under
    Removed   \* the entry was removed

VARIABLE journal

Entry == [text : Texts, key : Hashes, meta : Metas]

\* No other live entry carries key k.
KeyFree(i, k) ==
    \A j \in Ids \ {i} : journal[j] \in Entry => journal[j].key # k

Init == journal = [i \in Ids |-> Absent]

Add(i, t, m) ==
    /\ journal[i] = Absent
    /\ KeyFree(i, Canon[t])
    /\ journal' = [journal EXCEPT ![i] = [text |-> t, key |-> Canon[t], meta |-> m]]

Edit(i, e) ==
    /\ journal[i] \in Entry
    /\ KeyFree(i, e.key)
    /\ journal' = [journal EXCEPT ![i] = e]

Remove(i) ==
    /\ journal[i] \in Entry
    /\ journal' = [journal EXCEPT ![i] = Removed]

Next ==
    \E i \in Ids :
        \/ \E t \in Texts, m \in Metas : Add(i, t, m)
        \/ \E e \in Entry : Edit(i, e)
        \/ Remove(i)

Spec == Init /\ [][Next]_journal
=============================================================================
