--------------------------- MODULE AnalysisContract ---------------------------
(***************************************************************************)
(* What one analysis of one document promises to whoever started it,       *)
(* however the LangGraph pipeline of backend/agents/ goes about it:        *)
(*                                                                         *)
(*   - it closes at most once, with a verdict, or it aborts;               *)
(*   - a compliance verdict is only issued after compliance has been       *)
(*     judged, and compliance is judged at most MaxRetries + 1 times;      *)
(*   - BLOCKED and SCANNED are issued without judging compliance at all.   *)
(*                                                                         *)
(* Pipeline implements this module (Pipeline!Contract!Spec).               *)
(***************************************************************************)
EXTENDS Naturals

CONSTANT MaxRetries   \* how many times compliance may be judged again

VARIABLES
    phase,      \* "open" while the run is going, then "closed" or "aborted"
    verdict,    \* "NONE" until the run closes
    attempts    \* how many times compliance has been judged

contractVars == <<phase, verdict, attempts>>

UnjudgedVerdict == {"BLOCKED", "SCANNED"}
JudgedVerdict   == {"APPROVED", "REJECTED", "ESCALATE"}

Init ==
    /\ phase = "open"
    /\ verdict = "NONE"
    /\ attempts = 0

Judge ==
    /\ phase = "open"
    /\ attempts <= MaxRetries
    /\ attempts' = attempts + 1
    /\ UNCHANGED <<phase, verdict>>

Close(v) ==
    /\ phase = "open"
    /\ (v \in UnjudgedVerdict) <=> (attempts = 0)
    /\ phase' = "closed"
    /\ verdict' = v
    /\ UNCHANGED attempts

Abort ==
    /\ phase = "open"
    /\ phase' = "aborted"
    /\ UNCHANGED <<verdict, attempts>>

Next ==
    \/ Judge
    \/ \E v \in UnjudgedVerdict \cup JudgedVerdict : Close(v)
    \/ Abort

Spec == Init /\ [][Next]_contractVars

=============================================================================
