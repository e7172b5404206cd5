----------------------------- MODULE MCBatchPage -----------------------------
(***************************************************************************)
(* A small instance of BatchPage: a job of two documents and one of one,   *)
(* a tab opened twice, and two polls under way at once.                    *)
(***************************************************************************)
EXTENDS BatchPage

CONSTANTS a, b, kept

MCTotal == [j \in {a, b} |-> IF j = a THEN 2 ELSE 1]

=============================================================================
