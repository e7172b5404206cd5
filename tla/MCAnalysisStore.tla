--------------------------- MODULE MCAnalysisStore ---------------------------
(***************************************************************************)
(* A small instance of AnalysisStore: a clean document, and one that the   *)
(* guardrail blocks unless it gets another text.                           *)
(***************************************************************************)
EXTENDS AnalysisStore, TLC

CONSTANTS clean, tainted

MCFiles     == {clean, tainted}
MCUnclean   == {tainted}
MCAmbiguous == {tainted}
MCJudged    == {"APPROVED"}
MCOverrides == {"REJECTED"}

Symmetry == Permutations(Traces) \cup Permutations(Handlers)

=============================================================================
