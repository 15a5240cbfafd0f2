------------------------------ MODULE MemorySearch ------------------------------
(***************************************************************************)
(* search_memories of app/services/memory.py on top of MemoryService: the  *)
(* index ranks its documents, then a SELECT finds their rows; if the index *)
(* fails, the table's own full-text search answers.  The index and the     *)
(* table may be of different opinions, and requests write both between the *)
(* two steps.                                                              *)
(*                                                                         *)
(* A hit names its document by the index's own id, which a row knows once  *)
(* its add was answered (external_id).  Scores, ranks and previews are data. *)
(***************************************************************************)
EXTENDS MemoryService, FiniteSets, Naturals

VARIABLES
    search,  \* the search under way, its hits, and what the last search returned
    gone     \* history: the memories whose delete was answered

searchVars == <<vars, search, gone>>

Search == [pc : {"idle", "hydrate"}, hits : SUBSET Ids, result : SUBSET Ids]

InitSearch == search = [pc |-> "idle", hits |-> {}, result |-> {}] /\ gone = {}

Returned(ids) == [pc |-> "idle", hits |-> {}, result |-> ids]

\* The documents of one container; without a hit there is nothing to look up.
SearchIndex ==
    /\ search.pc = "idle"
    /\ \E hits \in SUBSET {i \in Ids : docs[i] # NoDoc} :
          search' = IF hits = {} THEN Returned({})
                    ELSE [pc |-> "hydrate", hits |-> hits, result |-> {}]

\* Mutant: the row is looked up by its own id only, which is not the document's.
KnownByCustomId(i) == FALSE

\* A row that knows its document's id; no document has a memory's id.
KnownDocument(i) == rows[i] # NoRow /\ rows[i].external_id

Hydrated(i) == KnownDocument(i) /\ Live(i)

\* The SELECT of the hits' rows; a hit without a row is dropped.
HydrateHits ==
    /\ search.pc = "hydrate"
    /\ search' = Returned({i \in search.hits : Hydrated(i)})

\* _search_local_fallback: the live rows whose text matches, cut at the limit.
SearchLocal(q, limit) ==
    LET matches == {i \in Ids : Live(i) /\ rows[i].text \in q} IN
    /\ search.pc = "idle"
    /\ \E ids \in SUBSET matches :
          /\ Cardinality(ids) <= limit
          /\ Cardinality(ids) < limit => ids = matches
          /\ search' = Returned(ids)

SearchNext ==
    \/ SearchIndex \/ HydrateHits
    \/ \E q \in SUBSET Texts, limit \in 1..Cardinality(Ids) : SearchLocal(q, limit)

\* The request commits the delete of a memory, and answers it.
DeleteAnswered(r) == req[r].op = "delete" /\ CommitMemory(r)

ServeStep ==
    /\ Next
    /\ gone' = gone \cup {req[r].id : r \in {q \in Requests : DeleteAnswered(q)}}
    /\ UNCHANGED search

SearchStep == SearchNext /\ UNCHANGED <<vars, gone>>

SearchSpec == Init /\ InitSearch /\ [][ServeStep \/ SearchStep]_searchVars

-----------------------------------------------------------------------------
Answers == search.pc = "hydrate" /\ search'.pc = "idle"

Returns == SearchNext /\ search'.pc = "idle"

\* A memory whose delete was answered is in no search that returns afterwards,
\* from the index or from the table, although its document may be found for as
\* long as its remote deletion is refused, and although updates and syncs that
\* read the row before the delete commit after it.
DeletedIsNotFound == [][Returns => search'.result \cap gone = {}]_searchVars

\* A hit of the index for a memory that the table calls synced is returned,
\* whatever calls failed or lost their answer before: a synced row knows its
\* document.  What is dropped is deleted or waits for a sync.
SyncedIsFound ==
    [][Answers => \A i \in search.hits :
           Live(i) /\ rows[i].external_status = "synced" => i \in search'.result]_searchVars
=============================================================================
