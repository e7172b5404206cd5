------------------------------- MODULE Evidence -------------------------------
(***************************************************************************)
(* One document on its way from the bytes of an upload to the evidence the *)
(* report shows: the request that reads it (backend/api/routes.py,         *)
(* analyze_document, _process_batch), the search of its chunks for every   *)
(* required clause (backend/data/embeddings.py), and the context of the    *)
(* compliance prompt, which has a budget (backend/agents/                  *)
(* compliance_agent.py, _build_context).  Chunks are known by their text,  *)
(* so two of the same text are one chunk found twice; how a text is split  *)
(* into them is left open.                                                 *)
(***************************************************************************)
EXTENDS Intake, FiniteSetsExt

CONSTANTS
    Clauses,     \* how many clauses are required, 1 or more
    Lengths,     \* the lengths a chunk may have
    TopK,        \* the k of semantic_search
    MaxK,        \* _MAX_K
    Budget,      \* _CONTEXT_BUDGET
    Sep,         \* len(_CONTEXT_SEPARATOR)
    MinPiece,    \* the least a chunk is cut to
    Excerpt,     \* how much of a chunk the report shows
    MaxChunks,   \* bound: how many chunks an index has
    Uploads      \* the files a client may send

ASSUME ClausesAssumption == Clauses \in Nat \ {0}
ASSUME LengthsAssumption == Lengths \subseteq Nat \ {0}
ASSUME SearchAssumption == TopK \in Nat /\ MaxK \in Nat \ {0}
ASSUME BudgetAssumption ==
    /\ Budget \in Nat
    /\ Sep \in Nat
    /\ MinPiece \in Nat \ {0}
    /\ Excerpt \in Nat /\ MinPiece =< Excerpt
ASSUME ChunksAssumption == MaxChunks \in Nat
ASSUME UploadsAssumption == Uploads \subseteq Files

VARIABLES
    stage,
    file,        \* the upload, while its bytes are at hand
    text,        \* raw_text: the parts read, until there is an index
    index,       \* "none", "own" (FAISS) or "server" (OpenSearch)
    chunks,      \* of the index, at any time of this run
    length,      \* of every chunk
    ranked,      \* per_clause: the chunks found for a clause, best first
    upto,        \* the running total of sum(...) over tops, by clause
    cap,         \* NoCap, or what a clause's best chunk is cut to
    rank, at,    \* the loops: rank 1 is pass 1
    prompt,      \* how much of a chunk is in the context, by chunk
    used,
    evidence     \* the chunk the report shows for a clause, or NoEvidence

vars == <<stage, file, text, index, chunks, length, ranked, upto, cap, rank,
          at, prompt, used, evidence>>

Stages == {"new", "refused", "received", "searching", "adding", "asked",
           "reported", "failed"}

NoFile     == [none |-> TRUE]
NoCap      == 0
NoEvidence == -1

TypeOK ==
    /\ stage \in Stages
    /\ file = NoFile \/ file \in Uploads
    /\ text \subseteq Nat
    /\ index \in {"none", "own", "server"}
    /\ chunks \subseteq Nat
    /\ length \in [chunks -> Lengths]
    /\ ranked \in [1..Clauses -> Seq(chunks)]
    /\ upto \in [0..Clauses -> Nat]
    /\ cap \in Nat
    /\ rank \in Nat \ {0}
    /\ at \in 1..Clauses + 1
    /\ DOMAIN prompt \subseteq chunks
    /\ prompt \in [DOMAIN prompt -> Nat]
    /\ used \in Nat
    /\ evidence \in [1..Clauses -> chunks \cup {NoEvidence}]

Init ==
    /\ stage = "new"
    /\ file = NoFile
    /\ text = {}
    /\ index = "none"
    /\ chunks = {}
    /\ length = [chunk \in {} |-> 1]
    /\ ranked = [c \in 1..Clauses |-> <<>>]
    /\ upto = [c \in 0..Clauses |-> 0]
    /\ cap = NoCap
    /\ rank = 1
    /\ at = 1
    /\ prompt = [chunk \in {} |-> 1]
    /\ used = 0
    /\ evidence = [c \in 1..Clauses |-> NoEvidence]

-----------------------------------------------------------------------------
(* The request.  Whether OCR works is decided anew each time.               *)

\* analyze_document answers 400 or 413.
RefuseUpload ==
    /\ stage = "new"
    /\ \E f \in Uploads, ocr \in BOOLEAN :
          /\ f.format = "other" \/ f.large \/ ~ Readable(f, ocr)
          /\ file' = f
    /\ stage' = "refused"
    /\ UNCHANGED <<text, index, chunks, length, ranked, upto, cap, rank, at,
                   prompt, used, evidence>>

\* A text on its way into the graph.
Receive(f, parts) ==
    /\ stage' = "received"
    /\ file' = f
    /\ text' = parts
    /\ UNCHANGED <<index, chunks, length, ranked, upto, cap, rank, at, prompt,
                   used, evidence>>

\* analyze_document goes on.
AnalyzeUpload ==
    /\ stage = "new"
    /\ \E f \in Uploads, ocr \in BOOLEAN :
          /\ f.format # "other"
          /\ ~ f.large
          /\ Readable(f, ocr)
          /\ Receive(f, ExtractText(f))

\* A file of a ZIP: what cannot be read is decoded whatever it is.  A file
\* with neither a signature nor parts is empty.
BatchText(f, ocr) ==
    IF Readable(f, ocr) THEN ExtractText(f)
    ELSE IF f.magic \/ f.parts # <<>> THEN {Raw}
                                     ELSE {}

AnalyzeItem ==
    /\ stage = "new"
    /\ \E f \in Uploads, ocr \in BOOLEAN :
          /\ f.format # "other"
          /\ Receive(f, BatchText(f, ocr))

-----------------------------------------------------------------------------
(* The index, and the search for every clause's evidence.                   *)

\* FAISS makes no index of nothing: the run raises.
NothingToIndex ==
    /\ stage = "received"
    /\ text = {}
    /\ stage' = "failed"
    /\ UNCHANGED <<file, text, index, chunks, length, ranked, upto, cap, rank,
                   at, prompt, used, evidence>>

\* build_index_async returns a FAISS index of all of the text, loaded or built
\* for this run alone, or a handle on the server's index of the text, into which
\* another run of the same text may still be writing.
BuildIndex ==
    /\ stage = "received"
    /\ text # {}
    /\ stage' = "searching"
    /\ index' \in {"own", "server"}
    /\ \E n \in 0..MaxChunks :
          /\ index' = "own" => n > 0
          /\ chunks' = 1..n
          /\ length' \in [1..n -> Lengths]
    /\ file' = NoFile
    /\ text' = {}
    /\ UNCHANGED <<ranked, upto, cap, rank, at, prompt, used, evidence>>

\* k = max(1, min(k, _MAX_K))
Wanted == IF TopK > MaxK THEN MaxK ELSE IF TopK < 1 THEN 1 ELSE TopK

\* Up to k chunks in any order, each as often as the index holds its text.  An
\* index of the run's own has all of its chunks from the start.
Found ==
    LET least == IF index # "own" THEN 0
                 ELSE IF Wanted > Cardinality(chunks) THEN Cardinality(chunks)
                                                      ELSE Wanted
    IN  UNION {[1..count -> chunks] : count \in least..Wanted}

\* tops: the best chunks of the clauses up to c.
Tops(c) == {ranked[d][1] : d \in {d \in 1..c : ranked[d] # <<>>}}

\* semantic_search for the next clause.
Search ==
    /\ stage = "searching"
    /\ at =< Clauses
    /\ \E found \in Found :
          /\ ranked' = [ranked EXCEPT ![at] = found]
          /\ upto' = [upto EXCEPT ![at] =
                upto[at - 1] + IF found = <<>> \/ found[1] \in Tops(at - 1)
                               THEN 0 ELSE length[found[1]] + Sep]
    /\ at' = at + 1
    /\ UNCHANGED <<stage, file, text, index, chunks, length, cap, rank, prompt,
                   used, evidence>>

-----------------------------------------------------------------------------
(* _build_context.                                                          *)

FoundChunks ==
    UNION {{ranked[c][i] : i \in DOMAIN ranked[c]} : c \in 1..Clauses}

TotalLength(some) == MapThenSumSet(LAMBDA chunk : length[chunk] + Sep, some)

\* The fast path: the prompt gets everything that was found.
AskWithAll ==
    /\ stage = "searching"
    /\ at > Clauses
    /\ TotalLength(FoundChunks) =< Budget
    /\ prompt' = [chunk \in FoundChunks |-> length[chunk]]
    /\ stage' = "asked"
    /\ UNCHANGED <<file, text, index, chunks, length, ranked, upto, cap, rank,
                   at, used, evidence>>

\* Faulty: the separators are forgotten.
FairShareWithoutSeparators ==
    LET share == Budget \div Cardinality(Tops(Clauses))
    IN  IF share < MinPiece THEN MinPiece ELSE share

\* A fair share of the budget for every best chunk, but never too little.
FairShare ==
    LET share == (Budget \div Cardinality(Tops(Clauses))) - Sep
    IN  IF share < MinPiece THEN MinPiece ELSE share

ChooseCap ==
    /\ stage = "searching"
    /\ at > Clauses
    /\ TotalLength(FoundChunks) > Budget
    /\ cap' = IF Tops(Clauses) # {} /\ upto[Clauses] > Budget THEN FairShare
                                                           ELSE NoCap
    /\ stage' = "adding"
    /\ at' = 1
    /\ UNCHANGED <<file, text, index, chunks, length, ranked, upto, rank,
                   prompt, used, evidence>>

\* Only best chunks are cut.
PieceLength(chunk) ==
    IF rank = 1 /\ cap # NoCap /\ cap < length[chunk] THEN cap
                                                      ELSE length[chunk]

\* add turns down nothing of this rank, a chunk that is in the prompt, and one
\* there is no room for.
Adds ==
    /\ rank =< Len(ranked[at])
    /\ ranked[at][rank] \notin DOMAIN prompt
    /\ used + PieceLength(ranked[at][rank]) + Sep =< Budget

\* add, for the chunk of this rank of the next clause.
Add ==
    /\ stage = "adding"
    /\ at =< Clauses
    /\ Adds
    /\ prompt' = [chunk \in DOMAIN prompt \cup {ranked[at][rank]} |->
                     IF chunk \in DOMAIN prompt THEN prompt[chunk]
                                                ELSE PieceLength(chunk)]
    /\ used' = used + PieceLength(ranked[at][rank]) + Sep
    /\ at' = at + 1
    /\ UNCHANGED <<stage, file, text, index, chunks, length, ranked, upto, cap,
                   rank, evidence>>

Skip ==
    /\ stage = "adding"
    /\ at =< Clauses
    /\ ~ Adds
    /\ at' = at + 1
    /\ UNCHANGED <<stage, file, text, index, chunks, length, ranked, upto, cap,
                   rank, prompt, used, evidence>>

\* Faulty: clauses are counted from 0.
NextRankFromZero ==
    /\ stage = "adding"
    /\ at > Clauses
    /\ rank < 3
    /\ rank' = rank + 1
    /\ at' = 0
    /\ UNCHANGED <<stage, file, text, index, chunks, length, ranked, upto, cap,
                   prompt, used, evidence>>

\* Pass 2 has two rounds.
NextRank ==
    /\ stage = "adding"
    /\ at > Clauses
    /\ rank < 3
    /\ rank' = rank + 1
    /\ at' = 1
    /\ UNCHANGED <<stage, file, text, index, chunks, length, ranked, upto, cap,
                   prompt, used, evidence>>

Ask ==
    /\ stage = "adding"
    /\ at > Clauses
    /\ rank = 3
    /\ stage' = "asked"
    /\ UNCHANGED <<file, text, index, chunks, length, ranked, upto, cap, rank,
                   at, prompt, used, evidence>>

\* What a second search for a clause, k = 1, finds after the LLM has answered.
\* FAISS finds the best chunk again, whatever the prompt showed of it; on a
\* server's index it may be any chunk by now, or none.
FoundAgain(c) ==
    IF index = "server" THEN chunks \cup {NoEvidence}
    ELSE IF ranked[c] = <<>> THEN {NoEvidence}
                             ELSE {ranked[c][1]}

\* _parse_clause_results: the evidence of a PRESENT clause is an excerpt from
\* the start of that chunk.
Report ==
    /\ stage = "asked"
    /\ evidence' \in [1..Clauses -> chunks \cup {NoEvidence}]
    /\ \A c \in 1..Clauses : evidence'[c] \in FoundAgain(c) \cup {NoEvidence}
    /\ stage' = "reported"
    /\ UNCHANGED <<file, text, index, chunks, length, ranked, upto, cap, rank,
                   at, prompt, used>>

-----------------------------------------------------------------------------
Next ==
    \/ RefuseUpload
    \/ AnalyzeUpload
    \/ AnalyzeItem
    \/ NothingToIndex
    \/ BuildIndex
    \/ Search
    \/ AskWithAll
    \/ ChooseCap
    \/ Add
    \/ Skip
    \/ NextRank
    \/ Ask
    \/ Report

Spec == Init /\ [][Next]_vars

-----------------------------------------------------------------------------
(* Properties.                                                              *)

\* The best chunks can all have a piece of this length: in the code 29 of them
\* a least piece, 19 an excerpt.
RoomForAll(piece) == Cardinality(Tops(Clauses)) * (piece + Sep) =< Budget

\* The excerpt the report shows of a chunk was in the prompt.
ExcerptInPrompt(chunk) ==
    /\ chunk \in DOMAIN prompt
    /\ prompt[chunk] >= Excerpt \/ prompt[chunk] = length[chunk]

\* As long as there is room for a least piece of each, no clause is judged
\* without a piece of its best chunk: neither a best chunk nor a filler takes
\* the place of another (a chunk that is dropped gives a false MISSING).  On an
\* index of the run's own the evidence a report shows is from such a chunk, and
\* as long as there is room for an excerpt of each, the LLM has read all of the
\* excerpt.  With more best chunks than that the report may show text that was
\* cut off the prompt, and on a server's index any text.
EvidenceIsInPrompt ==
    /\ stage = "asked" /\ RoomForAll(MinPiece) =>
          Tops(Clauses) \subseteq DOMAIN prompt
    /\ stage = "reported" /\ index = "own" =>
          \A c \in 1..Clauses : evidence[c] # NoEvidence =>
             /\ RoomForAll(MinPiece) => evidence[c] \in DOMAIN prompt
             /\ RoomForAll(Excerpt) => ExcerptInPrompt(evidence[c])

\* Data of an HTML page is hidden if some part of the page up to it opens
\* more skipped elements than it closes; stray end tags and nesting make no
\* difference.
Hidden(f, p) ==
    \E q \in 1..p :
        Cardinality({r \in q..p : f.parts[r] = "open"})
           > Cardinality({r \in q..p : f.parts[r] = "close"})

\* The text that is analysed of an HTML page is what is not hidden, all of it
\* up to the limit, however its tags are nested or unbalanced.
HtmlTextIsVisibleText ==
    stage = "received" /\ file.format = "html" =>
        text = Truncated({p \in With(file, {"text"}) : ~ Hidden(file, p)})

=============================================================================
