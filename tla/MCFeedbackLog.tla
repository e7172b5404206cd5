---------------------------- MODULE MCFeedbackLog ----------------------------
(***************************************************************************)
(* A small instance of FeedbackLog: two analyses, two officers, and        *)
(* REJECTED and APPROVED for the two sorts of decision.                    *)
(***************************************************************************)
EXTENDS FeedbackLog, TLC

MCOverStrict == {"REJECTED"}
MCAgreed     == {"APPROVED"}

Symmetry == Permutations(Feedbacks) \cup Permutations(Traces) \cup Permutations(Officers)

=============================================================================
