-------------------------------- MODULE JobRow --------------------------------
(***************************************************************************)
(* The rows of the table batch_jobs (backend/data/history_store.py): what  *)
(* the jobs' workers write, what the server promises of them               *)
(* (JobContract) and what the browser's batch tab polls (BatchPage).       *)
(***************************************************************************)
EXTENDS Naturals

CONSTANTS
    Jobs,
    Total       \* Total[j]: how many items job j is about

ASSUME TotalAssumption == Total \in [Jobs -> Nat]

VARIABLE row    \* the row of each job, or NoRow

NoRow == [absent |-> TRUE]

===============================================================================
