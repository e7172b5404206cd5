------------------------------ MODULE MCBatchJob ------------------------------
(***************************************************************************)
(* A small instance of BatchJob: a ZIP of three documents and a            *)
(* re-analysis of two.  There are fewer permits than items, so that the    *)
(* jobs wait for each other.                                               *)
(***************************************************************************)
EXTENDS BatchJob

CONSTANTS zip, again

MCJobs    == {zip, again}
MCZipJobs == {zip}
MCTotal   == [j \in MCJobs |-> IF j = zip THEN 3 ELSE 2]

=============================================================================
