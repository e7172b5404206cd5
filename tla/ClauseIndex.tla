------------------------------ MODULE ClauseIndex ------------------------------
(***************************************************************************)
(* The vector indexes of documents (backend/data/embeddings.py).  A run    *)
(* that reaches the compliance check looks for an index of its text, which *)
(* the hash of the text names; it builds one if there is none, in a thread,*)
(* and saves it.  FAISS keeps an index in the process and in two files on  *)
(* disk.  OpenSearch keeps it on a server, to which a build adds chunk by  *)
(* chunk, and which may be out of reach at any call.                       *)
(*                                                                         *)
(* load_index, save_index and the searches block the event loop; only      *)
(* threads go on beside them.  The process may die at any time, and come   *)
(* back with the other VECTOR_STORE.                                       *)
(***************************************************************************)
EXTENDS Naturals

CONSTANTS
    Runs,
    Texts,
    TextOf,      \* TextOf[r]: the text that run r is about
    Chunks,
    ChunkOf      \* ChunkOf[c]: the text that chunk c is a part of

ASSUME TextsAssumption ==
    /\ TextOf \in [Runs -> Texts]
    /\ ChunkOf \in [Chunks -> Texts]

Pieces(t) == {c \in Chunks : ChunkOf[c] = t}

VARIABLES
    mode,        \* VECTOR_STORE
    disk,        \* the files under faiss_cache/, by text
    exists,      \* the names of the indexes on the server
    server,      \* how many copies of a chunk the index of a name holds
    stage,       \* of every run
    held,        \* the index a run has in hand: its own, or the server's
    todo,        \* the chunks a run's thread has yet to add
    seen,        \* what a run's searches see: copies of each chunk
    disturbed    \* the texts whose index on the server somebody else built at
                 \* the same time or again, or whose build did not end well

vars == <<mode, disk, exists, server, stage, held, todo, seen, disturbed>>

Modes  == {"faiss", "opensearch"}
Files  == {"none", "torn", "whole"}
Stages == {"new", "missed", "adding", "built", "saving", "ready", "searched",
           "failed"}
Ended  == {"searched", "failed"}

Copies  == [Chunks -> Nat]
Empty   == [c \in Chunks |-> 0]
Once(t) == [c \in Chunks |-> IF ChunkOf[c] = t THEN 1 ELSE 0]

TypeOK ==
    /\ mode \in Modes
    /\ disk \in [Texts -> Files]
    /\ exists \subseteq Texts
    /\ server \in [Texts -> Copies]
    /\ stage \in [Runs -> Stages]
    /\ held \in [Runs -> {"none", "own", "server"}]
    /\ todo \in [Runs -> SUBSET Chunks]
    /\ seen \in [Runs -> Copies]
    /\ disturbed \subseteq Texts

Init ==
    /\ mode \in Modes
    /\ disk = [t \in Texts |-> "none"]
    /\ exists = {}
    /\ server = [t \in Texts |-> Empty]
    /\ stage = [r \in Runs |-> "new"]
    /\ held = [r \in Runs |-> "none"]
    /\ todo = [r \in Runs |-> {}]
    /\ seen = [r \in Runs |-> Empty]
    /\ disturbed = {}

\* Faulty: one name, "sentinel-temp", for all of them.
IndexNameForAll(t) == CHOOSE u \in Texts : TRUE

\* _opensearch_index_name: the hash of the text, cut to 16 digits.
IndexName(t) == t

Enter(r, s) == stage' = [stage EXCEPT ![r] = s]

\* No run holds the event loop.
LoopIsFree == \A r \in Runs : stage[r] # "saving"

\* Somebody is in the middle of building the server's index of t.
BeingBuilt(t) == \E r \in Runs : stage[r] = "adding" /\ TextOf[r] = t

Disturb(t) == disturbed' = disturbed \cup {t}

-----------------------------------------------------------------------------
(* load_index.                                                              *)

\* Both files are there, and an index on disk is whole if it loads.
LoadFromDisk(r) ==
    /\ stage[r] = "new"
    /\ mode = "faiss"
    /\ LoopIsFree
    /\ disk[TextOf[r]] = "whole"
    /\ held' = [held EXCEPT ![r] = "own"]
    /\ Enter(r, "ready")
    /\ UNCHANGED <<mode, disk, exists, server, todo, seen, disturbed>>

\* An index that exists is taken for complete, also while it is being built.
LoadFromServer(r) ==
    /\ stage[r] = "new"
    /\ mode = "opensearch"
    /\ LoopIsFree
    /\ IndexName(TextOf[r]) \in exists
    /\ held' = [held EXCEPT ![r] = "server"]
    /\ Enter(r, "ready")
    /\ IF BeingBuilt(TextOf[r]) THEN Disturb(TextOf[r]) ELSE UNCHANGED disturbed
    /\ UNCHANGED <<mode, disk, exists, server, todo, seen>>

\* No files or torn ones; no index on the server, or no answer from it.
LoadNothing(r) ==
    /\ stage[r] = "new"
    /\ LoopIsFree
    /\ mode = "faiss" => disk[TextOf[r]] # "whole"
    /\ Enter(r, "missed")
    /\ UNCHANGED <<mode, disk, exists, server, held, todo, seen, disturbed>>

-----------------------------------------------------------------------------
(* build_index, in a thread.                                                *)

BuildLocally(r) ==
    /\ stage[r] = "missed"
    /\ mode = "faiss"
    /\ held' = [held EXCEPT ![r] = "own"]
    /\ Enter(r, "built")
    /\ UNCHANGED <<mode, disk, exists, server, todo, seen, disturbed>>

\* OpenSearchVectorSearch.from_documents makes the index unless it is there...
CreateIndex(r) ==
    /\ stage[r] = "missed"
    /\ mode = "opensearch"
    /\ exists' = exists \cup {IndexName(TextOf[r])}
    /\ todo' = [todo EXCEPT ![r] = Pieces(TextOf[r])]
    /\ Enter(r, "adding")
    /\ IF IndexName(TextOf[r]) \in exists THEN Disturb(TextOf[r])
                                          ELSE UNCHANGED disturbed
    /\ UNCHANGED <<mode, disk, server, held, seen>>

\* ... and adds the chunks to whatever is in it.
AddChunk(r) ==
    /\ stage[r] = "adding"
    /\ \E c \in todo[r] :
          /\ server' = [server EXCEPT ![IndexName(TextOf[r])][c] = @ + 1]
          /\ todo' = [todo EXCEPT ![r] = @ \ {c}]
    /\ UNCHANGED <<mode, disk, exists, stage, held, seen, disturbed>>

FinishIndex(r) ==
    /\ stage[r] = "adding"
    /\ todo[r] = {}
    /\ held' = [held EXCEPT ![r] = "server"]
    /\ Enter(r, "built")
    /\ UNCHANGED <<mode, disk, exists, server, todo, seen, disturbed>>

\* Faulty: any exception on the way, and the build begins again.
FallBackToRetry(r) ==
    /\ stage[r] \in {"missed", "adding"}
    /\ mode = "opensearch"
    /\ todo' = [todo EXCEPT ![r] = {}]
    /\ Enter(r, "missed")
    /\ IF stage[r] = "adding" THEN Disturb(TextOf[r]) ELSE UNCHANGED disturbed
    /\ UNCHANGED <<mode, disk, exists, server, held, seen>>

\* Any exception on the way: FAISS instead, and what is on the server stays.
FallBack(r) ==
    /\ stage[r] \in {"missed", "adding"}
    /\ mode = "opensearch"
    /\ held' = [held EXCEPT ![r] = "own"]
    /\ todo' = [todo EXCEPT ![r] = {}]
    /\ Enter(r, "built")
    /\ IF stage[r] = "adding" THEN Disturb(TextOf[r]) ELSE UNCHANGED disturbed
    /\ UNCHANGED <<mode, disk, exists, server, seen>>

-----------------------------------------------------------------------------
(* save_index and semantic_search, back in the event loop.                  *)

SaveNothing(r) ==
    /\ stage[r] = "built"
    /\ mode = "opensearch"
    /\ LoopIsFree
    /\ Enter(r, "ready")
    /\ UNCHANGED <<mode, disk, exists, server, held, todo, seen, disturbed>>

\* index.faiss is written...
StartSave(r) ==
    /\ stage[r] = "built"
    /\ mode = "faiss"
    /\ LoopIsFree
    /\ disk' = [disk EXCEPT ![TextOf[r]] = "torn"]
    /\ Enter(r, "saving")
    /\ UNCHANGED <<mode, exists, server, held, todo, seen, disturbed>>

\* ... and then index.pkl.
FinishSave(r) ==
    /\ stage[r] = "saving"
    /\ disk' = [disk EXCEPT ![TextOf[r]] = "whole"]
    /\ Enter(r, "ready")
    /\ UNCHANGED <<mode, exists, server, held, todo, seen, disturbed>>

SaveFails(r) ==
    /\ stage[r] = "saving"
    /\ Enter(r, "failed")
    /\ UNCHANGED <<mode, disk, exists, server, held, todo, seen, disturbed>>

\* A server's index is searched as it is now.
Search(r) ==
    /\ stage[r] = "ready"
    /\ LoopIsFree
    /\ seen' = [seen EXCEPT ![r] =
          IF held[r] = "own" THEN Once(TextOf[r])
                             ELSE server[IndexName(TextOf[r])]]
    /\ Enter(r, "searched")
    /\ UNCHANGED <<mode, disk, exists, server, held, todo, disturbed>>

\* The search of a server may raise, which ends the run.
SearchFails(r) ==
    /\ stage[r] = "ready"
    /\ held[r] = "server"
    /\ LoopIsFree
    /\ Enter(r, "failed")
    /\ UNCHANGED <<mode, disk, exists, server, held, todo, seen, disturbed>>

\* The process dies with its runs and comes back; a run that had not begun
\* begins later.
Crash ==
    /\ mode' \in Modes
    /\ stage' = [r \in Runs |-> IF stage[r] \in Ended \cup {"new"} THEN stage[r]
                                                               ELSE "failed"]
    /\ disturbed' = disturbed \cup
          {TextOf[r] : r \in {r \in Runs : stage[r] = "adding"}}
    /\ UNCHANGED <<disk, exists, server, held, todo, seen>>

-----------------------------------------------------------------------------
\* A run's own steps.
Proceed(r) ==
    \/ LoadFromDisk(r)
    \/ LoadFromServer(r)
    \/ LoadNothing(r)
    \/ BuildLocally(r)
    \/ CreateIndex(r)
    \/ AddChunk(r)
    \/ FinishIndex(r)
    \/ FallBack(r)
    \/ SaveNothing(r)
    \/ StartSave(r)
    \/ FinishSave(r)
    \/ SaveFails(r)
    \/ Search(r)
    \/ SearchFails(r)

Next == Crash \/ \E r \in Runs : Proceed(r)

\* The event loop and the threads go on; calls to the server time out.
Spec == Init /\ [][Next]_vars /\ \A r \in Runs : WF_vars(Proceed(r))

-----------------------------------------------------------------------------
(* Properties.                                                              *)

\* What a run sees of the document it judges.  Never a chunk of another one,
\* whoever analyses what at the same time; every chunk at least once if the run
\* has the index in its own process; and every chunk exactly once if nobody
\* disturbed the index of its text.  (A chunk that is missing from the index
\* is a clause that is reported MISSING.)
SearchIsExact ==
    \A r \in Runs : stage[r] = "searched" =>
        /\ \A c \in Chunks : ChunkOf[c] # TextOf[r] => seen[r][c] = 0
        /\ held[r] = "own" \/ TextOf[r] \notin disturbed
              => seen[r] = Once(TextOf[r])

\* Neither a dead server nor torn files nor another run keep a run from its
\* search, or from failing.
RunsEnd == \A r \in Runs : <>(stage[r] \in Ended)

=============================================================================
