------------------------------ MODULE BatchSystem ------------------------------
(***************************************************************************)
(* The batch jobs and a browser's batch tab, together: the server of       *)
(* BatchPage, of which the tab knows only JobContract, is BatchJob as it   *)
(* is, with the same rows.  A job is made when a request for it arrives.   *)
(*                                                                         *)
(* Results, of which BatchPage assumes nothing, are here the Entries of    *)
(* BatchJob.                                                               *)
(***************************************************************************)
EXTENDS BatchJob, BatchPage

tab == <<browser, history>>

SystemInit == Init /\ PageInit

Creates(j) == CreateJob(j) /\ Accept(j)

\* The server gets on with its jobs, or crashes.
Serves ==
    /\ \/ \E j \in Jobs :
             Work(j) \/ UpdateFails(j) \/ \E i \in Items(j) : RunItem(j, i)
       \/ Crash
    /\ UNCHANGED tab

Browses == Browse /\ UNCHANGED vars

SystemNext == (\E j \in Jobs : Creates(j)) \/ Serves \/ Browses

SystemSpec == SystemInit /\ [][SystemNext]_<<vars, tab>>

-----------------------------------------------------------------------------
(* Properties.                                                              *)

\* Whatever is shown as completed is complete: the browser that polls shows a
\* job's end only when every item has finished, and with as many ok results
\* as there are ok items, whatever crashed or crossed on the way.
ShownIsComplete ==
    (shown # Nothing /\ Finished(shown.job, shown.seen)) =>
        /\ \A i \in Items(shown.job) : item[shown.job][i] \in {"ok", "error"}
        /\ Cardinality({k \in 1..shown.seen :
                           row[shown.job].results[k].outcome = "ok"})
             = Cardinality({i \in Items(shown.job) : item[shown.job][i] = "ok"})

===============================================================================
