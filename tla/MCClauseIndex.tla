---------------------------- MODULE MCClauseIndex ----------------------------
(***************************************************************************)
(* A small instance of ClauseIndex: three runs, two of them about the same *)
(* text; one text has two chunks and the other one.                        *)
(***************************************************************************)
EXTENDS ClauseIndex

CONSTANTS r1, r2, r3, long, short, c1, c2, c3

MCRuns    == {r1, r2, r3}
MCTexts   == {long, short}
MCTextOf  == [r \in MCRuns |-> IF r = r3 THEN short ELSE long]
MCChunks  == {c1, c2, c3}
MCChunkOf == [c \in MCChunks |-> IF c = c3 THEN short ELSE long]

=============================================================================
