------------------------------- MODULE BatchJob -------------------------------
(***************************************************************************)
(* Batch jobs (backend/api/routes.py): _process_batch starts a task per    *)
(* document of a ZIP and collects them in the order they finish;           *)
(* _process_batch_reanalyze works through stored documents one by one.     *)
(* All jobs share one semaphore around the pipeline.  The row of a job in  *)
(* batch_jobs is all a client ever sees of it, and all that survives a     *)
(* restart: no one resumes a job.                                          *)
(*                                                                         *)
(* What a run does to the other tables is AnalysisStore's business.  Here  *)
(* an item is ok or an error, and its place in the job is its name.        *)
(***************************************************************************)
EXTENDS JobRow, Naturals, Sequences, FiniteSets

CONSTANTS
    ZipJobs,        \* the jobs of analyze_batch; the others re-analyse
    Concurrency     \* _BATCH_CONCURRENCY

ASSUME ZipJobsAssumption ==
    /\ ZipJobs \subseteq Jobs
    /\ \A j \in Jobs \ ZipJobs : Total[j] > 0
ASSUME ConcurrencyAssumption == Concurrency \in Nat \ {0}

Items(j) == 1..Total[j]

VARIABLES
    item,       \* the state of the task of each item
    finished,   \* the finished tasks of each job, in order, not yet collected
    results,    \* the worker's own list
    worker,     \* the job's background task
    permits     \* what is left of _batch_semaphore

vars == <<row, item, finished, results, worker, permits>>

\* A finished item is "ok" or "error".
ItemStates == {"new", "started", "waiting", "running", "storing", "ok",
               "error", "gone"}
WorkerStates == {"none", "created", "collecting", "updating", "ended", "dead"}

\* The name in an entry: of which item it claims to be the result.
Entries == [name : UNION {Items(j) : j \in Jobs}, outcome : {"ok", "error"}]

Rows == [status : {"pending", "running", "completed"}, total : Nat,
         completed : Nat, results : Seq(Entries)]

TypeOK ==
    /\ \A j \in Jobs : row[j] = NoRow \/ row[j] \in Rows
    /\ \A j \in Jobs : item[j] \in [Items(j) -> ItemStates]
    /\ \A j \in Jobs : finished[j] \in Seq(Items(j))
    /\ \A j \in Jobs : results[j] \in Seq(Entries)
    /\ worker \in [Jobs -> WorkerStates]
    /\ permits \in 0..Concurrency

Init ==
    /\ row = [j \in Jobs |-> NoRow]
    /\ item = [j \in Jobs |-> [i \in Items(j) |-> "new"]]
    /\ finished = [j \in Jobs |-> <<>>]
    /\ results = [j \in Jobs |-> <<>>]
    /\ worker = [j \in Jobs |-> "none"]
    /\ permits = Concurrency

-----------------------------------------------------------------------------
(* The request, and the background task it starts.                          *)

\* create_batch_job.
CreateJob(j) ==
    /\ worker[j] = "none"
    /\ row[j] = NoRow
    /\ row' = [row EXCEPT ![j] =
          [status |-> "pending", total |-> Total[j], completed |-> 0,
           results |-> <<>>]]
    /\ worker' = [worker EXCEPT ![j] = "created"]
    /\ UNCHANGED <<item, finished, results, permits>>

\* The tasks of a ZIP start together, unless there are none.
LaunchJob(j) ==
    /\ worker[j] = "created"
    /\ worker' = [worker EXCEPT ![j] = IF Total[j] = 0 THEN "ended" ELSE "collecting"]
    /\ item' = [item EXCEPT ![j] = [i \in Items(j) |->
          IF j \in ZipJobs \/ i = 1 THEN "started" ELSE "new"]]
    /\ UNCHANGED <<row, finished, results, permits>>

-----------------------------------------------------------------------------
(* One item: _run_one, or one turn of the re-analysis loop.                 *)

Finish(j, i, outcome) ==
    /\ item' = [item EXCEPT ![j][i] = outcome]
    /\ finished' = [finished EXCEPT ![j] = Append(@, i)]

\* A cached verdict, no stored text, or an exception before the pipeline.
FinishEarly(j, i) ==
    /\ item[j][i] = "started"
    /\ \E outcome \in {"ok", "error"} : Finish(j, i, outcome)
    /\ UNCHANGED <<row, results, worker, permits>>

\* The document is read and has no cached verdict.
AwaitPermit(j, i) ==
    /\ item[j][i] = "started"
    /\ item' = [item EXCEPT ![j][i] = "waiting"]
    /\ UNCHANGED <<row, finished, results, worker, permits>>

Acquire(j, i) ==
    /\ item[j][i] = "waiting"
    /\ permits > 0
    /\ permits' = permits - 1
    /\ item' = [item EXCEPT ![j][i] = "running"]
    /\ UNCHANGED <<row, finished, results, worker>>

\* Faulty: the permit is lost when the pipeline raises.
ReleaseOnSuccess(j, i) ==
    /\ item[j][i] = "running"
    /\ permits' \in {permits, permits + 1}
    /\ item' = [item EXCEPT ![j][i] = "storing"]
    /\ UNCHANGED <<row, finished, results, worker>>

\* The pipeline ends, one way or another: _run_graph_once does not raise.
Release(j, i) ==
    /\ item[j][i] = "running"
    /\ permits' = permits + 1
    /\ item' = [item EXCEPT ![j][i] = "storing"]
    /\ UNCHANGED <<row, finished, results, worker>>

\* Faulty: the permit is given back a second time.
StoreReleasing(j, i) ==
    /\ item[j][i] = "storing"
    /\ Finish(j, i, "ok")
    /\ permits' = permits + 1
    /\ UNCHANGED <<row, results, worker>>

\* _save_to_history does not raise; insert_doc_cache, of a ZIP's items, may.
Store(j, i) ==
    /\ item[j][i] = "storing"
    /\ \/ Finish(j, i, "ok")
       \/ j \in ZipJobs /\ Finish(j, i, "error")
    /\ UNCHANGED <<row, results, worker, permits>>

-----------------------------------------------------------------------------
(* The loop that collects.                                                  *)

\* The exception of a ZIP's item does not say which file it was: the entry is
\* given the name at its own position in the list.
EntryFor(j, i) ==
    [name |-> IF j \in ZipJobs /\ item[j][i] = "error"
              THEN Len(results[j]) + 1 ELSE i,
     outcome |-> item[j][i]]

\* Faulty: the worker looks at the next item, not at the next finished one.
CollectInOrder(j) ==
    /\ worker[j] = "collecting"
    /\ finished[j] # <<>>
    /\ LET i == Len(results[j]) + 1
       IN  results' = [results EXCEPT ![j] = Append(@, [name |-> i, outcome |-> "ok"])]
    /\ finished' = [finished EXCEPT ![j] = Tail(@)]
    /\ worker' = [worker EXCEPT ![j] = "updating"]
    /\ UNCHANGED <<row, item, permits>>

Collect(j) ==
    /\ worker[j] = "collecting"
    /\ finished[j] # <<>>
    /\ results' = [results EXCEPT ![j] = Append(@, EntryFor(j, Head(finished[j])))]
    /\ finished' = [finished EXCEPT ![j] = Tail(@)]
    /\ worker' = [worker EXCEPT ![j] = "updating"]
    /\ UNCHANGED <<row, item, permits>>

\* Faulty: the count of the results is compared before it is increased.
JobStatusLate(j) ==
    IF Len(results[j]) - 1 < Total[j] THEN "running" ELSE "completed"

\* Faulty: off by one, the other way.
JobStatusEarly(j) ==
    IF Len(results[j]) + 1 < Total[j] THEN "running" ELSE "completed"

JobStatus(j) == IF Len(results[j]) < Total[j] THEN "running" ELSE "completed"

\* update_batch_job.  The re-analysis loop then turns to its next item.
UpdateJob(j) ==
    /\ worker[j] = "updating"
    /\ row' = [row EXCEPT ![j] =
          [status |-> JobStatus(j), total |-> @.total,
           completed |-> Len(results[j]), results |-> results[j]]]
    /\ IF Len(results[j]) < Total[j]
       THEN /\ worker' = [worker EXCEPT ![j] = "collecting"]
            /\ item' = [item EXCEPT ![j] = [i \in Items(j) |->
                  IF j \notin ZipJobs /\ i = Len(results[j]) + 1
                  THEN "started" ELSE item[j][i]]]
       ELSE /\ worker' = [worker EXCEPT ![j] = "ended"]
            /\ UNCHANGED item
    /\ UNCHANGED <<finished, results, permits>>

\* update_batch_job raises and nothing catches it: the background task dies,
\* the tasks it has started carry on.
UpdateFails(j) ==
    /\ worker[j] = "updating"
    /\ worker' = [worker EXCEPT ![j] = "dead"]
    /\ UNCHANGED <<row, item, finished, results, permits>>

\* The process dies and is started again: only the rows are left.
Active(j) == worker[j] \in {"created", "collecting", "updating"}
InFlight == {"started", "waiting", "running", "storing"}

Crash ==
    /\ \E j \in Jobs : Active(j) \/ \E i \in Items(j) : item[j][i] \in InFlight
    /\ worker' = [j \in Jobs |-> IF Active(j) THEN "dead" ELSE worker[j]]
    /\ item' = [j \in Jobs |-> [i \in Items(j) |->
                   IF item[j][i] \in InFlight THEN "gone" ELSE item[j][i]]]
    /\ finished' = [j \in Jobs |-> <<>>]
    /\ results' = [j \in Jobs |-> <<>>]
    /\ permits' = Concurrency
    /\ UNCHANGED row

-----------------------------------------------------------------------------

RunItem(j, i) ==
    \/ FinishEarly(j, i) \/ AwaitPermit(j, i)
    \/ Acquire(j, i) \/ Release(j, i) \/ Store(j, i)
Work(j) == LaunchJob(j) \/ Collect(j) \/ UpdateJob(j)

Next ==
    \/ \E j \in Jobs :
          \/ CreateJob(j)
          \/ Work(j)
          \/ UpdateFails(j)
          \/ \E i \in Items(j) : RunItem(j, i)
    \/ Crash

\* The event loop runs every task that can go on, the LLM clients time out,
\* and the semaphore is first come, first served: an item waits for it once.
Spec ==
    /\ Init /\ [][Next]_vars
    /\ \A j \in Jobs : WF_vars(Work(j))
    /\ \A j \in Jobs : \A i \in Items(j) : WF_vars(RunItem(j, i))

-----------------------------------------------------------------------------
(* Properties.                                                              *)

Completed(j) == row[j] # NoRow /\ row[j].status = "completed"

\* The items that hold a permit, over all jobs.
Running == {x \in UNION {{j} \X Items(j) : j \in Jobs} : item[x[1]][x[2]] = "running"}

\* No more pipelines run at once than the semaphore was made for, over all
\* jobs, and a permit is never lost: none is missing that no item holds.
PermitsBalance == permits + Cardinality(Running) = Concurrency

\* A result that says ok tells the truth about the item it names, and no two
\* of them name the same one.
OkResultsAreTrue ==
    \A j \in Jobs : \A k \in 1..Len(results[j]) :
        results[j][k].outcome = "ok" =>
            /\ item[j][results[j][k].name] = "ok"
            /\ \A l \in 1..Len(results[j]) :
                  (l # k /\ results[j][l].outcome = "ok") =>
                      results[j][l].name # results[j][k].name

\* A completed job has nothing left to do: every item has finished, and the
\* row tells of as many ok ones as there were.
CompletedIsComplete ==
    \A j \in Jobs : Completed(j) =>
        /\ \A i \in Items(j) : item[j][i] \in {"ok", "error"}
        /\ Cardinality({k \in 1..Len(row[j].results) :
                           row[j].results[k].outcome = "ok"})
             = Cardinality({i \in Items(j) : item[j][i] = "ok"})

\* What a client sees of all jobs is what JobContract says.
Contract == INSTANCE JobContract
ContractSpec == Contract!Spec

\* A job with something to do is completed unless the process dies or the
\* table cannot be written: neither an item that raises nor one that waits for
\* another job's permit can hold it up.
JobsComplete ==
    \A j \in Jobs : Total[j] > 0 =>
        (row[j] # NoRow ~> (Completed(j) \/ worker[j] = "dead"))

=============================================================================
