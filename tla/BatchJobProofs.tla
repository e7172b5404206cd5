---------------------------- MODULE BatchJobProofs ----------------------------
(***************************************************************************)
(* Proofs about BatchJob, for any jobs of any size and any number of       *)
(* permits: the semaphore is never off, a result that says ok is right,    *)
(* and what a client sees of the jobs is what JobContract says.            *)
(*                                                                         *)
(* A step changes one job and perhaps the semaphore.  The invariant is     *)
(* accordingly one formula about each job, JobInv, and one about the       *)
(* semaphore and all items, PermitInv.                                     *)
(*                                                                         *)
(* The jobs also come to rest: nobody is stuck, and nothing goes back.     *)
(*                                                                         *)
(* The second half is about BatchPage, the tab that polls these jobs: that *)
(* it remembers the right job, that a job's end comes closer to being      *)
(* shown, and that the two together, the tab polling the server as it is,  *)
(* show a job as completed only when it is complete.                       *)
(***************************************************************************)
EXTENDS BatchSystem, FiniteSetTheorems, TLAPS

Shape ==
    /\ DOMAIN row = Jobs
    /\ DOMAIN item = Jobs
    /\ DOMAIN finished = Jobs
    /\ DOMAIN results = Jobs
    /\ worker \in [Jobs -> WorkerStates]

JobTypes(j) ==
    /\ row[j] = NoRow \/ row[j] \in Rows
    /\ item[j] \in [Items(j) -> ItemStates]
    /\ finished[j] \in Seq(Items(j))
    /\ results[j] \in Seq(Entries)
    /\ worker[j] \in WorkerStates

\* The row of j is as long as the worker has made it, and one result behind
\* the worker's own list while the worker is updating it.
RowOf(j) ==
    /\ worker[j] = "none" <=> row[j] = NoRow
    /\ worker[j] # "none" =>
          /\ row[j] \in Rows
          /\ row[j].total = Total[j]
          /\ row[j].completed = Len(row[j].results)
    /\ worker[j] \in {"created", "collecting"} => results[j] = row[j].results
    /\ worker[j] = "collecting" => Len(results[j]) < Total[j]
    /\ worker[j] = "updating" =>
          /\ Len(results[j]) <= Total[j]
          /\ \E e \in Entries : results[j] = Append(row[j].results, e)

\* Which items have not had their turn.
Turns(j) ==
    /\ worker[j] \in {"none", "created"} =>
          /\ results[j] = <<>>
          /\ \A i \in Items(j) : item[j][i] = "new"
    /\ (j \notin ZipJobs /\ worker[j] = "collecting") =>
          \A i \in Items(j) : i > Len(results[j]) + 1 => item[j][i] = "new"
    /\ (j \notin ZipJobs /\ worker[j] = "updating") =>
          \A i \in Items(j) : i > Len(results[j]) => item[j][i] = "new"

\* A finished item is collected once, and an ok result is of an ok item that
\* is not to be collected again.
Accounts(j) ==
    /\ \A k \in 1..Len(finished[j]) : item[j][finished[j][k]] \in {"ok", "error"}
    /\ \A k, l \in 1..Len(finished[j]) :
          k # l => finished[j][k] # finished[j][l]
    /\ \A k \in 1..Len(results[j]) : results[j][k].outcome = "ok" =>
          /\ results[j][k].name \in Items(j)
          /\ item[j][results[j][k].name] = "ok"
          /\ \A l \in 1..Len(finished[j]) : finished[j][l] # results[j][k].name
          /\ \A l \in 1..Len(results[j]) :
                (l # k /\ results[j][l].outcome = "ok") =>
                    results[j][l].name # results[j][k].name

JobInv(j) == JobTypes(j) /\ RowOf(j) /\ Turns(j) /\ Accounts(j)

PermitInv ==
    /\ IsFiniteSet(Running)
    /\ permits \in Nat
    /\ permits + Cardinality(Running) = Concurrency

IInv == Shape /\ (\A j \in Jobs : JobInv(j)) /\ PermitInv

-----------------------------------------------------------------------------
LEMMA RowIsNoRow == \A r \in Rows : r # NoRow
<1>1. ASSUME NEW r \in Rows PROVE "status" \in DOMAIN r
  BY <1>1 DEF Rows
<1>2. "status" \notin DOMAIN NoRow
  BY DEF NoRow
<1> QED
  BY <1>1, <1>2, Zenon

LEMMA TotalType == ASSUME NEW j \in Jobs PROVE Total[j] \in Nat
BY TotalAssumption

\* A step leaves alone what the invariant says of the other jobs.
LEMMA OtherJob ==
    ASSUME NEW j \in Jobs, JobInv(j),
           row'[j] = row[j], item'[j] = item[j], finished'[j] = finished[j],
           results'[j] = results[j], worker'[j] = worker[j]
    PROVE  JobInv(j)'
BY DEF JobInv, JobTypes, RowOf, Turns, Accounts

\* A task goes on without finishing.
LEMMA ItemMoves ==
    ASSUME Shape, NEW j \in Jobs, JobInv(j), NEW i \in Items(j),
           item[j][i] \in InFlight, NEW s \in InFlight,
           item' = [item EXCEPT ![j][i] = s],
           UNCHANGED <<row, finished, results, worker>>
    PROVE  JobInv(j)'
<1>1. item'[j] = [item[j] EXCEPT ![i] = s]
  BY DEF Shape
<1>2. item[j] \in [Items(j) -> ItemStates]
  BY DEF JobInv, JobTypes
<1>3. /\ item'[j][i] = s
      /\ \A k \in Items(j) : k # i => item'[j][k] = item[j][k]
      /\ item'[j] \in [Items(j) -> ItemStates]
  BY <1>1, <1>2 DEF InFlight, ItemStates
<1>4. JobTypes(j)'
  BY <1>3 DEF JobInv, JobTypes
<1>5. RowOf(j)'
  BY DEF JobInv, RowOf
<1>6. Turns(j)'
  BY <1>3 DEF JobInv, Turns, InFlight
<1>7. Accounts(j)'
  BY <1>3 DEF JobInv, JobTypes, Accounts, InFlight
<1> QED
  BY <1>4, <1>5, <1>6, <1>7 DEF JobInv

\* A task finishes.
LEMMA ItemEnds ==
    ASSUME Shape, NEW j \in Jobs, JobInv(j), NEW i \in Items(j),
           item[j][i] \in InFlight, NEW s \in {"ok", "error"},
           Finish(j, i, s), UNCHANGED <<row, results, worker>>
    PROVE  JobInv(j)'
<1>1. /\ item'[j] = [item[j] EXCEPT ![i] = s]
      /\ finished'[j] = Append(finished[j], i)
  BY DEF Shape, Finish
<1>2. /\ item[j] \in [Items(j) -> ItemStates]
      /\ finished[j] \in Seq(Items(j))
  BY DEF JobInv, JobTypes
<1>3. /\ item'[j][i] = s
      /\ \A k \in Items(j) : k # i => item'[j][k] = item[j][k]
      /\ item'[j] \in [Items(j) -> ItemStates]
  BY <1>1, <1>2 DEF ItemStates
<1>4. /\ finished'[j] \in Seq(Items(j))
      /\ Len(finished'[j]) = Len(finished[j]) + 1
      /\ finished'[j][Len(finished[j]) + 1] = i
      /\ \A k \in 1..Len(finished[j]) :
            finished'[j][k] = finished[j][k] /\ finished[j][k] \in Items(j)
  BY <1>1, <1>2
<1>5. JobTypes(j)'
  BY <1>3, <1>4 DEF JobInv, JobTypes
<1>6. RowOf(j)'
  BY DEF JobInv, RowOf
<1>7. Turns(j)'
  BY <1>3 DEF JobInv, Turns, InFlight
<1>8. Accounts(j)'
  <2>1. \A k \in 1..Len(finished[j]) : finished[j][k] # i
    BY DEF JobInv, Accounts, InFlight
  <2>2. \A k \in 1..Len(finished'[j]) :
           \/ k \in 1..Len(finished[j])
           \/ k = Len(finished[j]) + 1
    BY <1>2, <1>4
  <2>3. \A k \in 1..Len(finished'[j]) : item'[j][finished'[j][k]] \in {"ok", "error"}
    <3>1. \A k \in 1..Len(finished[j]) : item[j][finished[j][k]] \in {"ok", "error"}
      BY Zenon DEF JobInv, Accounts
    <3>2. \A k \in 1..Len(finished[j]) :
             item'[j][finished'[j][k]] = item[j][finished[j][k]]
      BY <1>3, <1>4, <2>1, Zenon
    <3>3. item'[j][finished'[j][Len(finished[j]) + 1]] \in {"ok", "error"}
      BY <1>3, <1>4, Zenon
    <3> QED
      BY <2>2, <3>1, <3>2, <3>3, Zenon
  <2>4. \A k, l \in 1..Len(finished'[j]) :
           k # l => finished'[j][k] # finished'[j][l]
    <3>1. ASSUME NEW k \in 1..Len(finished[j])
          PROVE  finished'[j][k] # finished'[j][Len(finished[j]) + 1]
      BY <1>4, <2>1
    <3>2. \A k, l \in 1..Len(finished[j]) :
             k # l => finished'[j][k] # finished'[j][l]
      <4>1. \A k, l \in 1..Len(finished[j]) : k # l => finished[j][k] # finished[j][l]
        BY Zenon DEF JobInv, Accounts
      <4> QED
        BY <1>4, <4>1, Zenon
    <3>3. ASSUME NEW k \in 1..Len(finished'[j]), NEW l \in 1..Len(finished'[j]), k # l
          PROVE  finished'[j][k] # finished'[j][l]
      <4>1. CASE k \in 1..Len(finished[j]) /\ l \in 1..Len(finished[j])
        BY <3>2, <3>3, <4>1, Zenon
      <4>2. CASE k = Len(finished[j]) + 1
        BY <2>2, <3>1, <3>3, <4>2, Zenon
      <4>3. CASE l = Len(finished[j]) + 1
        BY <2>2, <3>1, <3>3, <4>3, Zenon
      <4> QED
        BY <2>2, <4>1, <4>2, <4>3, Zenon
    <3> QED
      BY <3>3, Zenon
  <2>5. ASSUME NEW k \in 1..Len(results[j]), results[j][k].outcome = "ok"
        PROVE  /\ results[j][k].name \in Items(j)
               /\ results[j][k].name # i
               /\ item'[j][results[j][k].name] = "ok"
               /\ \A l \in 1..Len(finished'[j]) : finished'[j][l] # results[j][k].name
    <3> DEFINE n == results[j][k].name
    <3>1. /\ n \in Items(j) /\ item[j][n] = "ok"
          /\ \A l \in 1..Len(finished[j]) : finished[j][l] # n
      BY <2>5 DEF JobInv, Accounts
    <3> HIDE DEF n
    <3>2. n # i
      BY <3>1 DEF InFlight
    <3>3. item'[j][n] = "ok"
      BY <1>3, <3>1, <3>2
    <3>4. \A l \in 1..Len(finished'[j]) : finished'[j][l] # n
      BY <1>4, <2>2, <3>1, <3>2
    <3> QED
      BY <3>1, <3>2, <3>3, <3>4 DEF n
  <2> QED
    BY <2>3, <2>4, <2>5 DEF JobInv, Accounts
<1> QED
  BY <1>5, <1>6, <1>7, <1>8 DEF JobInv

LEMMA CreateStep ==
    ASSUME Shape, NEW j \in Jobs, JobInv(j), CreateJob(j)
    PROVE  JobInv(j)'
<1>1. /\ row'[j] = [status |-> "pending", total |-> Total[j], completed |-> 0,
                    results |-> <<>>]
      /\ worker'[j] = "created"
      /\ UNCHANGED <<item, finished, results>>
  BY DEF Shape, CreateJob
<1>2. row'[j] \in Rows
  BY <1>1, TotalType DEF Rows
<1>3. row'[j] # NoRow
  BY <1>2, RowIsNoRow
<1>4. JobTypes(j)'
  BY <1>1, <1>2 DEF JobInv, JobTypes, WorkerStates
<1>5. Turns(j)'
  BY <1>1 DEF JobInv, Turns, CreateJob
<1>6. RowOf(j)'
  BY <1>1, <1>2, <1>3 DEF JobInv, RowOf, Turns, CreateJob
<1>7. Accounts(j)'
  BY <1>1 DEF JobInv, Accounts
<1> QED
  BY <1>4, <1>5, <1>6, <1>7 DEF JobInv

LEMMA LaunchStep ==
    ASSUME Shape, NEW j \in Jobs, JobInv(j), LaunchJob(j)
    PROVE  JobInv(j)'
<1>1. /\ worker[j] = "created"
      /\ worker'[j] = IF Total[j] = 0 THEN "ended" ELSE "collecting"
      /\ item'[j] = [i \in Items(j) |->
            IF j \in ZipJobs \/ i = 1 THEN "started" ELSE "new"]
      /\ UNCHANGED <<row, finished, results>>
  BY DEF Shape, LaunchJob
<1>2. /\ results[j] = <<>>
      /\ \A i \in Items(j) : item[j][i] = "new"
  BY <1>1 DEF JobInv, Turns
<1>3. finished[j] \in Seq(Items(j))
  BY DEF JobInv, JobTypes
<1>4. \A k \in 1..Len(finished[j]) : FALSE
  BY <1>2, <1>3 DEF JobInv, Accounts
<1>5. JobTypes(j)'
  BY <1>1 DEF JobInv, JobTypes, WorkerStates, ItemStates
<1>6. RowOf(j)'
  BY <1>1, <1>2, TotalType DEF JobInv, RowOf
<1>7. Turns(j)'
  BY <1>1, <1>2 DEF Turns, Items
<1>8. Accounts(j)'
  BY <1>1, <1>2, <1>4 DEF Accounts
<1> QED
  BY <1>5, <1>6, <1>7, <1>8 DEF JobInv

\* What the collecting loop puts into the list is an entry; if it says ok, it
\* is about the item that has finished.
LEMMA EntryType ==
    ASSUME NEW j \in Jobs, JobInv(j), worker[j] = "collecting",
           NEW i \in Items(j), item[j][i] \in {"ok", "error"}
    PROVE  /\ EntryFor(j, i) \in Entries
           /\ EntryFor(j, i).outcome = "ok" =>
                 EntryFor(j, i).name = i /\ item[j][i] = "ok"
<1>1. Len(results[j]) + 1 \in Items(j)
  BY TotalType DEF JobInv, JobTypes, RowOf, Items
<1>2. \A n \in Items(j) : n \in UNION {Items(k) : k \in Jobs}
  OBVIOUS
<1> QED
  BY <1>1, <1>2 DEF EntryFor, Entries

LEMMA CollectStep ==
    ASSUME Shape, NEW j \in Jobs, JobInv(j), Collect(j)
    PROVE  JobInv(j)'
<1> DEFINE i == Head(finished[j])
           e == EntryFor(j, i)
<1>1. /\ worker[j] = "collecting"
      /\ finished[j] # <<>>
      /\ results'[j] = Append(results[j], e)
      /\ finished'[j] = Tail(finished[j])
      /\ worker'[j] = "updating"
      /\ UNCHANGED <<row, item>>
  BY DEF Shape, Collect
<1>2. /\ finished[j] \in Seq(Items(j))
      /\ results[j] \in Seq(Entries)
  BY DEF JobInv, JobTypes
<1>3. /\ 1 \in 1..Len(finished[j])
      /\ i = finished[j][1]
      /\ i \in Items(j)
  BY <1>1, <1>2
<1>4. item[j][i] \in {"ok", "error"}
  BY <1>3 DEF JobInv, Accounts
<1>5. /\ e \in Entries
      /\ e.outcome = "ok" => e.name = i /\ item[j][i] = "ok"
  BY <1>1, <1>3, <1>4, EntryType
<1> HIDE DEF e
<1>6. /\ results'[j] \in Seq(Entries)
      /\ Len(results'[j]) = Len(results[j]) + 1
      /\ results'[j][Len(results[j]) + 1] = e
      /\ \A k \in 1..Len(results[j]) : results'[j][k] = results[j][k]
  BY <1>1, <1>2, <1>5
<1>7. /\ finished'[j] \in Seq(Items(j))
      /\ \A k \in 1..Len(finished'[j]) :
            /\ k + 1 \in 1..Len(finished[j])
            /\ finished'[j][k] = finished[j][k + 1]
  BY <1>1, <1>2
<1>8. JobTypes(j)'
  BY <1>1, <1>6, <1>7 DEF JobInv, JobTypes, WorkerStates
<1>9. RowOf(j)'
  <2>1. /\ Len(results[j]) < Total[j]
        /\ results[j] = row[j].results
    BY <1>1 DEF JobInv, RowOf
  <2>2. Len(results'[j]) <= Total[j]
    BY <1>2, <1>6, <2>1, TotalType
  <2>3. \E x \in Entries : results'[j] = Append(row'[j].results, x)
    BY <1>1, <1>5, <2>1
  <2> QED
    BY <1>1, <2>2, <2>3 DEF JobInv, RowOf
<1>10. Turns(j)'
  BY <1>1, <1>2, <1>6 DEF JobInv, Turns, Items
<1>11. Accounts(j)'
  <2>1. ASSUME NEW k \in 1..Len(finished'[j])
        PROVE  /\ item'[j][finished'[j][k]] \in {"ok", "error"}
               /\ finished'[j][k] # i
    <3>1. /\ k + 1 \in 1..Len(finished[j])
          /\ k + 1 # 1
          /\ finished'[j][k] = finished[j][k + 1]
      BY <1>7
    <3>2. /\ item[j][finished[j][k + 1]] \in {"ok", "error"}
          /\ finished[j][k + 1] # finished[j][1]
      BY <1>3, <3>1 DEF JobInv, Accounts
    <3> QED
      BY <1>1, <1>3, <3>1, <3>2
  <2>2. \A k, l \in 1..Len(finished'[j]) :
           k # l => finished'[j][k] # finished'[j][l]
    BY <1>7 DEF JobInv, Accounts
  <2>3. \A k \in 1..Len(results'[j]) :
           k \in 1..Len(results[j]) \/ k = Len(results[j]) + 1
    BY <1>2, <1>6
  <2>4. ASSUME NEW k \in 1..Len(results[j]), results[j][k].outcome = "ok"
        PROVE  /\ results[j][k].name \in Items(j)
               /\ results[j][k].name # i
               /\ item'[j][results[j][k].name] = "ok"
               /\ \A l \in 1..Len(finished'[j]) : finished'[j][l] # results[j][k].name
    BY <1>1, <1>3, <1>7, <2>4 DEF JobInv, Accounts
  <2>5. ASSUME NEW k \in 1..Len(results'[j]), results'[j][k].outcome = "ok"
        PROVE  /\ results'[j][k].name \in Items(j)
               /\ item'[j][results'[j][k].name] = "ok"
               /\ \A l \in 1..Len(finished'[j]) : finished'[j][l] # results'[j][k].name
    BY <1>1, <1>3, <1>5, <1>6, <2>1, <2>3, <2>4, <2>5
  <2>6. ASSUME NEW k \in 1..Len(results'[j]), results'[j][k].outcome = "ok",
               NEW l \in 1..Len(results'[j]), results'[j][l].outcome = "ok",
               l # k
        PROVE  results'[j][l].name # results'[j][k].name
    <3>1. CASE k \in 1..Len(results[j]) /\ l \in 1..Len(results[j])
      BY <1>6, <2>6, <3>1 DEF JobInv, Accounts
    <3>2. CASE k = Len(results[j]) + 1 /\ l \in 1..Len(results[j])
      BY <1>5, <1>6, <2>4, <2>6, <3>2
    <3>3. CASE k \in 1..Len(results[j]) /\ l = Len(results[j]) + 1
      BY <1>5, <1>6, <2>4, <2>6, <3>3
    <3> QED
      BY <2>3, <2>6, <3>1, <3>2, <3>3
  <2> QED
    BY <2>1, <2>2, <2>5, <2>6 DEF Accounts
<1> QED
  BY <1>8, <1>9, <1>10, <1>11 DEF JobInv

LEMMA UpdateStep ==
    ASSUME Shape, NEW j \in Jobs, JobInv(j), UpdateJob(j)
    PROVE  JobInv(j)'
<1>1. /\ worker[j] = "updating"
      /\ row'[j] = [status |-> JobStatus(j), total |-> row[j].total,
                    completed |-> Len(results[j]), results |-> results[j]]
      /\ UNCHANGED <<finished, results>>
  BY DEF Shape, UpdateJob
<1>2. /\ row[j] \in Rows
      /\ row[j].total = Total[j]
      /\ results[j] \in Seq(Entries)
      /\ finished[j] \in Seq(Items(j))
      /\ item[j] \in [Items(j) -> ItemStates]
      /\ Len(results[j]) <= Total[j]
  BY <1>1 DEF JobInv, JobTypes, RowOf
<1>3. /\ row'[j] \in Rows
      /\ row'[j].total = Total[j]
      /\ row'[j].results = results[j]
      /\ row'[j].completed = Len(results[j])
  BY <1>1, <1>2 DEF Rows, JobStatus
<1>4. row'[j] # NoRow
  BY <1>3, RowIsNoRow
<1>5. CASE Len(results[j]) < Total[j]
  <2>1. /\ worker'[j] = "collecting"
        /\ item'[j] = [i \in Items(j) |->
              IF j \notin ZipJobs /\ i = Len(results[j]) + 1
              THEN "started" ELSE item[j][i]]
    BY <1>5 DEF Shape, UpdateJob
  <2>2. /\ item'[j] \in [Items(j) -> ItemStates]
        /\ \A i \in Items(j) : item[j][i] # "new" => item'[j][i] = item[j][i]
    BY <1>1, <1>2, <2>1 DEF JobInv, Turns, ItemStates
  <2>3. JobTypes(j)'
    BY <1>1, <1>3, <2>1, <2>2 DEF JobInv, JobTypes, WorkerStates
  <2>4. RowOf(j)'
    BY <1>1, <1>3, <1>4, <1>5, <2>1 DEF RowOf
  <2>5. Turns(j)'
    BY <1>1, <1>2, <2>1 DEF JobInv, Turns, Items
  <2>6. Accounts(j)'
    <3>1. \A k \in 1..Len(finished[j]) :
             /\ finished[j][k] \in Items(j)
             /\ item'[j][finished[j][k]] \in {"ok", "error"}
      BY <1>2, <2>2 DEF JobInv, Accounts
    <3>2. ASSUME NEW k \in 1..Len(results[j]), results[j][k].outcome = "ok"
          PROVE  item'[j][results[j][k].name] = "ok"
      BY <2>2, <3>2 DEF JobInv, Accounts
    <3> QED
      BY <1>1, <3>1, <3>2 DEF JobInv, Accounts
  <2> QED
    BY <2>3, <2>4, <2>5, <2>6 DEF JobInv
<1>6. CASE ~(Len(results[j]) < Total[j])
  <2>1. worker'[j] = "ended" /\ item'[j] = item[j]
    BY <1>6 DEF Shape, UpdateJob
  <2>2. JobTypes(j)'
    BY <1>1, <1>3, <2>1 DEF JobInv, JobTypes, WorkerStates
  <2>3. RowOf(j)'
    BY <1>3, <1>4, <2>1 DEF RowOf
  <2>4. Turns(j)'
    BY <2>1 DEF Turns
  <2>5. Accounts(j)'
    BY <1>1, <2>1 DEF JobInv, Accounts
  <2> QED
    BY <2>2, <2>3, <2>4, <2>5 DEF JobInv
<1> QED
  BY <1>5, <1>6

LEMMA UpdateFailsStep ==
    ASSUME Shape, NEW j \in Jobs, JobInv(j), UpdateFails(j)
    PROVE  JobInv(j)'
<1>1. /\ worker[j] = "updating"
      /\ worker'[j] = "dead"
      /\ UNCHANGED <<row, item, finished, results>>
  BY DEF Shape, UpdateFails
<1> QED
  BY <1>1 DEF JobInv, JobTypes, RowOf, Turns, Accounts, WorkerStates

LEMMA CrashStep ==
    ASSUME NEW j \in Jobs, JobInv(j), Crash
    PROVE  JobInv(j)'
<1>1. /\ worker'[j] = IF Active(j) THEN "dead" ELSE worker[j]
      /\ item'[j] = [i \in Items(j) |->
            IF item[j][i] \in InFlight THEN "gone" ELSE item[j][i]]
      /\ finished'[j] = <<>>
      /\ results'[j] = <<>>
      /\ row' = row
  BY DEF Crash
<1>2. worker'[j] = "none" <=> worker[j] = "none"
  BY <1>1 DEF Active
<1>3. worker'[j] \notin {"created", "collecting", "updating"}
  BY <1>1 DEF Active
<1>4. JobTypes(j)'
  <2>1. /\ item'[j] \in [Items(j) -> ItemStates]
        /\ worker'[j] \in WorkerStates
    BY <1>1 DEF JobInv, JobTypes, ItemStates, WorkerStates
  <2> QED
    BY <1>1, <2>1 DEF JobInv, JobTypes
<1>5. RowOf(j)'
  BY <1>1, <1>2, <1>3 DEF JobInv, RowOf
<1>6. Turns(j)'
  BY <1>1, <1>2, <1>3 DEF JobInv, Turns, InFlight
<1>7. Accounts(j)'
  BY <1>1 DEF Accounts
<1> QED
  BY <1>4, <1>5, <1>6, <1>7 DEF JobInv

-----------------------------------------------------------------------------
(* The semaphore.                                                           *)

\* Only Acquire, Release and Crash change which items are running.
LEMMA SameRunning ==
    ASSUME PermitInv, permits' = permits,
           \A j \in Jobs : \A i \in Items(j) :
              (item'[j][i] = "running") <=> (item[j][i] = "running")
    PROVE  PermitInv'
<1>1. Running' = Running
  BY DEF Running
<1> QED
  BY <1>1 DEF PermitInv

LEMMA AcquireStep ==
    ASSUME Shape, \A j \in Jobs : JobInv(j), PermitInv,
           NEW j \in Jobs, NEW i \in Items(j), Acquire(j, i)
    PROVE  PermitInv'
<1>1. /\ item'[j] = [item[j] EXCEPT ![i] = "running"]
      /\ \A k \in Jobs : k # j => item'[k] = item[k]
      /\ item[j][i] = "waiting"
      /\ permits > 0 /\ permits' = permits - 1
  BY DEF Shape, Acquire
<1>2. item[j] \in [Items(j) -> ItemStates]
  BY DEF JobInv, JobTypes
<1>3. \A k \in Jobs : \A n \in Items(k) :
         (item'[k][n] = "running") <=>
            (item[k][n] = "running" \/ (k = j /\ n = i))
  BY <1>1, <1>2
<1>4. Running' = Running \cup {<<j, i>>}
  BY <1>3 DEF Running
<1>5. <<j, i>> \notin Running
  BY <1>1 DEF Running
<1>6. /\ IsFiniteSet(Running')
      /\ Cardinality(Running') = Cardinality(Running) + 1
  BY <1>4, <1>5, FS_AddElement DEF PermitInv
<1>7. Cardinality(Running) \in Nat
  BY FS_CardinalityType DEF PermitInv
<1> QED
  BY <1>1, <1>6, <1>7 DEF PermitInv

LEMMA ReleaseStep ==
    ASSUME Shape, \A j \in Jobs : JobInv(j), PermitInv,
           NEW j \in Jobs, NEW i \in Items(j), Release(j, i)
    PROVE  PermitInv'
<1>1. /\ item'[j] = [item[j] EXCEPT ![i] = "storing"]
      /\ \A k \in Jobs : k # j => item'[k] = item[k]
      /\ item[j][i] = "running"
      /\ permits' = permits + 1
  BY DEF Shape, Release
<1>2. item[j] \in [Items(j) -> ItemStates]
  BY DEF JobInv, JobTypes
<1>3. \A k \in Jobs : \A n \in Items(k) :
         (item'[k][n] = "running") <=>
            (item[k][n] = "running" /\ ~(k = j /\ n = i))
  BY <1>1, <1>2
<1>4. Running' = Running \ {<<j, i>>}
  BY <1>3 DEF Running
<1>5. <<j, i>> \in Running
  BY <1>1 DEF Running
<1>6. /\ IsFiniteSet(Running')
      /\ Cardinality(Running') = Cardinality(Running) - 1
  BY <1>4, <1>5, FS_RemoveElement DEF PermitInv
<1>7. Cardinality(Running) \in Nat /\ Cardinality(Running') \in Nat
  BY <1>6, FS_CardinalityType DEF PermitInv
<1> QED
  BY <1>1, <1>6, <1>7 DEF PermitInv

LEMMA CrashPermits ==
    ASSUME Crash
    PROVE  PermitInv'
<1>1. \A j \in Jobs : \A i \in Items(j) : item'[j][i] # "running"
  BY DEF Crash, InFlight
<1>2. Running' = {}
  BY <1>1 DEF Running
<1> QED
  BY <1>2, FS_EmptySet, ConcurrencyAssumption DEF Crash, PermitInv

-----------------------------------------------------------------------------
(* The invariant.                                                           *)

LEMMA InitIInv == Init => IInv
<1> SUFFICES ASSUME Init PROVE IInv
  OBVIOUS
<1>1. Shape
  BY DEF Init, Shape, WorkerStates
<1>2. ASSUME NEW j \in Jobs PROVE JobInv(j)
  BY DEF Init, JobInv, JobTypes, RowOf, Turns, Accounts, ItemStates, WorkerStates
<1>3. Running = {}
  <2>1. ASSUME NEW j \in Jobs, NEW i \in Items(j) PROVE item[j][i] # "running"
    BY DEF Init
  <2> QED
    BY <2>1 DEF Running
<1>4. PermitInv
  BY <1>3, FS_EmptySet, ConcurrencyAssumption DEF Init, PermitInv
<1> QED
  BY <1>1, <1>2, <1>4 DEF IInv

\* A step of one item.
LEMMA RunItemStep ==
    ASSUME IInv, NEW j \in Jobs, NEW i \in Items(j), RunItem(j, i)
    PROVE  JobInv(j)' /\ PermitInv'
<1>0. Shape /\ JobInv(j) /\ PermitInv /\ \A k \in Jobs : JobInv(k)
  BY DEF IInv
<1>1. item[j] \in [Items(j) -> ItemStates]
  BY <1>0 DEF JobInv, JobTypes
<1>2. CASE FinishEarly(j, i) \/ Store(j, i)
  <2>1. PICK s \in {"ok", "error"} : Finish(j, i, s)
    BY <1>2 DEF FinishEarly, Store
  <2>2. /\ item[j][i] \in {"started", "storing"}
        /\ UNCHANGED <<row, results, worker, permits>>
    BY <1>2 DEF FinishEarly, Store
  <2>3. JobInv(j)'
    BY <1>0, <2>1, <2>2, ItemEnds DEF InFlight
  <2>4. /\ item'[j] = [item[j] EXCEPT ![i] = s]
        /\ \A k \in Jobs : k # j => item'[k] = item[k]
    BY <1>0, <2>1 DEF Finish, Shape
  <2>5. \A k \in Jobs : \A n \in Items(k) :
           (item'[k][n] = "running") <=> (item[k][n] = "running")
    BY <1>1, <2>2, <2>4
  <2> QED
    BY <1>0, <2>2, <2>3, <2>5, SameRunning
<1>3. CASE AwaitPermit(j, i)
  <2>1. /\ item[j][i] = "started"
        /\ item' = [item EXCEPT ![j][i] = "waiting"]
        /\ UNCHANGED <<row, finished, results, worker, permits>>
    BY <1>3 DEF AwaitPermit
  <2>2. JobInv(j)'
    BY <1>0, <2>1, ItemMoves DEF InFlight
  <2>3. /\ item'[j] = [item[j] EXCEPT ![i] = "waiting"]
        /\ \A k \in Jobs : k # j => item'[k] = item[k]
    BY <1>0, <2>1 DEF Shape
  <2>4. \A k \in Jobs : \A n \in Items(k) :
           (item'[k][n] = "running") <=> (item[k][n] = "running")
    BY <1>1, <2>1, <2>3
  <2> QED
    BY <1>0, <2>1, <2>2, <2>4, SameRunning
<1>4. CASE Acquire(j, i)
  <2>1. JobInv(j)'
    BY <1>0, <1>4, ItemMoves DEF Acquire, InFlight
  <2> QED
    BY <1>0, <1>4, <2>1, AcquireStep
<1>5. CASE Release(j, i)
  <2>1. JobInv(j)'
    BY <1>0, <1>5, ItemMoves DEF Release, InFlight
  <2> QED
    BY <1>0, <1>5, <2>1, ReleaseStep
<1> QED
  BY <1>2, <1>3, <1>4, <1>5 DEF RunItem

\* A step of the request or of the worker.
LEMMA WorkerStep ==
    ASSUME IInv, NEW j \in Jobs, CreateJob(j) \/ Work(j) \/ UpdateFails(j)
    PROVE  JobInv(j)' /\ PermitInv'
<1>0. Shape /\ JobInv(j) /\ PermitInv
  BY DEF IInv
<1>1. JobInv(j)'
  BY <1>0, CreateStep, LaunchStep, CollectStep, UpdateStep, UpdateFailsStep DEF Work
<1>2. permits' = permits /\ \A k \in Jobs : k # j => item'[k] = item[k]
  BY <1>0 DEF Shape, Work, CreateJob, LaunchJob, Collect, UpdateJob, UpdateFails
<1>3. \A i \in Items(j) : (item'[j][i] = "running") <=> (item[j][i] = "running")
  <2>1. CASE LaunchJob(j)
    BY <1>0, <2>1 DEF Shape, LaunchJob, JobInv, Turns
  <2>2. CASE UpdateJob(j)
    <3>1. CASE Len(results[j]) < Total[j]
      <4>1. \A i \in Items(j) : (j \notin ZipJobs /\ i = Len(results[j]) + 1) =>
               item[j][i] = "new"
        BY <1>0, <2>2, <3>1 DEF UpdateJob, JobInv, JobTypes, Turns, Items
      <4>2. item'[j] = [i \in Items(j) |->
                  IF j \notin ZipJobs /\ i = Len(results[j]) + 1
                  THEN "started" ELSE item[j][i]]
        BY <1>0, <2>2, <3>1 DEF Shape, UpdateJob
      <4> QED
        BY <4>1, <4>2
    <3>2. CASE ~(Len(results[j]) < Total[j])
      BY <2>2, <3>2 DEF UpdateJob
    <3> QED
      BY <3>1, <3>2
  <2>3. CASE CreateJob(j) \/ Collect(j) \/ UpdateFails(j)
    BY <2>3 DEF CreateJob, Collect, UpdateFails
  <2> QED
    BY <2>1, <2>2, <2>3 DEF Work
<1>4. \A k \in Jobs : \A i \in Items(k) :
         (item'[k][i] = "running") <=> (item[k][i] = "running")
  BY <1>2, <1>3
<1> QED
  BY <1>0, <1>1, <1>2, <1>4, SameRunning

LEMMA NextIInv == IInv /\ [Next]_vars => IInv'
<1> SUFFICES ASSUME IInv, [Next]_vars PROVE IInv'
  OBVIOUS
<1>0. Shape /\ PermitInv /\ \A j \in Jobs : JobInv(j)
  BY DEF IInv
<1>1. ASSUME NEW j \in Jobs,
             \/ CreateJob(j) \/ Work(j) \/ UpdateFails(j)
             \/ \E i \in Items(j) : RunItem(j, i)
      PROVE  IInv'
  <2>1. JobInv(j)' /\ PermitInv'
    BY <1>1, RunItemStep, WorkerStep
  <2>2. Shape'
    BY <1>0, <1>1 DEF Shape, CreateJob, Work, LaunchJob, Collect, UpdateJob, UpdateFails,
       RunItem, FinishEarly, AwaitPermit, Acquire, Release, Store, Finish, WorkerStates
  <2>3. ASSUME NEW k \in Jobs, k # j
        PROVE  /\ row'[k] = row[k] /\ item'[k] = item[k]
               /\ finished'[k] = finished[k] /\ results'[k] = results[k]
               /\ worker'[k] = worker[k]
    BY <1>0, <1>1, <2>3 DEF Shape, CreateJob, Work, LaunchJob, Collect, UpdateJob,
       UpdateFails, RunItem, FinishEarly, AwaitPermit, Acquire, Release, Store, Finish
  <2>4. \A k \in Jobs : JobInv(k)'
    BY <1>0, <2>1, <2>3, OtherJob
  <2> QED
    BY <2>1, <2>2, <2>4 DEF IInv
<1>2. CASE Crash
  <2>1. Shape'
    BY <1>0, <1>2 DEF Shape, Crash, WorkerStates
  <2> QED
    BY <1>0, <1>2, <2>1, CrashStep, CrashPermits DEF IInv
<1>3. CASE UNCHANGED vars
  <2>1. \A j \in Jobs : JobInv(j)'
    BY <1>0, <1>3, OtherJob DEF vars
  <2>2. PermitInv'
    BY <1>0, <1>3, SameRunning DEF vars
  <2> QED
    BY <1>0, <1>3, <2>1, <2>2 DEF IInv, Shape, vars
<1> QED
  BY <1>1, <1>2, <1>3 DEF Next

\* The inductive invariant holds of every reachable state.
THEOREM InductiveInvariant == Spec => []IInv
BY InitIInv, NextIInv, PTL DEF Spec

\* Type correctness; the semaphore never counts above what it was made with.
THEOREM TypeCorrect == Spec => []TypeOK
<1>1. IInv => TypeOK
  <2> SUFFICES ASSUME IInv PROVE TypeOK
    OBVIOUS
  <2>1. Cardinality(Running) \in Nat
    BY FS_CardinalityType DEF IInv, PermitInv
  <2>2. permits \in 0..Concurrency
    BY <2>1, ConcurrencyAssumption DEF IInv, PermitInv
  <2>3. worker \in [Jobs -> WorkerStates]
    BY DEF IInv, Shape
  <2> QED
    BY <2>2, <2>3 DEF TypeOK, IInv, JobInv, JobTypes
<1> QED
  BY <1>1, InductiveInvariant, PTL

\* Over all jobs, however many there are and however they crash, no permit is
\* lost and none is given twice.
THEOREM PermitsNeverLost == Spec => []PermitsBalance
<1>1. IInv => PermitsBalance
  BY DEF IInv, PermitInv, PermitsBalance
<1> QED
  BY <1>1, InductiveInvariant, PTL

\* An ok result names an item that is ok, and no item is named by two.
THEOREM OkIsTrue == Spec => []OkResultsAreTrue
<1>1. IInv => OkResultsAreTrue
  BY DEF IInv, JobInv, Accounts, OkResultsAreTrue
<1> QED
  BY <1>1, InductiveInvariant, PTL

-----------------------------------------------------------------------------
(* The ledger of a job.  While its worker lives, the finished items are     *)
(* those collected and those to be collected, and so are the ok ones; it is *)
(* what makes a completed job complete.                                     *)

Settled(j)       == {i \in Items(j) : item[j][i] \in {"ok", "error"}}
OkItems(j)       == {i \in Items(j) : item[j][i] = "ok"}
OkUncollected(j) ==
    {i \in OkItems(j) : \E k \in 1..Len(finished[j]) : finished[j][k] = i}
OkEntries(s)     == {k \in 1..Len(s) : s[k].outcome = "ok"}

Live(j) == worker[j] \in {"none", "created", "collecting", "updating"}

Counted(j) == Live(j) =>
    /\ Cardinality(Settled(j)) = Len(results[j]) + Len(finished[j])
    /\ Cardinality(OkItems(j))
          = Cardinality(OkEntries(results[j])) + Cardinality(OkUncollected(j))

Final(j) == Completed(j) =>
    /\ worker[j] = "ended"
    /\ Settled(j) = Items(j)
    /\ Cardinality(OkEntries(row[j].results)) = Cardinality(OkItems(j))

Ledger == \A j \in Jobs : Counted(j) /\ Final(j)

LEMMA UpTo ==
    ASSUME NEW n \in Nat
    PROVE  IsFiniteSet(1..n) /\ Cardinality(1..n) = n
BY FS_Interval, Z3

\* What is one more on either side.
LEMMA OneMore ==
    ASSUME NEW a \in Nat, NEW b \in Nat, NEW sum, sum = a + b
    PROVE  /\ sum + 1 = a + (b + 1)
           /\ sum + 1 = (a + 1) + b
OBVIOUS

LEMMA OneMoved ==
    ASSUME NEW a \in Nat, NEW b \in Nat, NEW sum, sum = a + b
    PROVE  sum = (a + 1) + (b - 1)
OBVIOUS

\* Everything that is counted is finite.
LEMMA LedgerIsFinite ==
    ASSUME NEW j \in Jobs, results[j] \in Seq(Entries)
    PROVE  /\ IsFiniteSet(Items(j)) /\ Cardinality(Items(j)) = Total[j]
           /\ IsFiniteSet(Settled(j)) /\ Cardinality(Settled(j)) \in Nat
           /\ IsFiniteSet(OkItems(j)) /\ Cardinality(OkItems(j)) \in Nat
           /\ IsFiniteSet(OkUncollected(j))
           /\ Cardinality(OkUncollected(j)) \in Nat
           /\ IsFiniteSet(OkEntries(results[j]))
           /\ Cardinality(OkEntries(results[j])) \in Nat
<1>1. IsFiniteSet(Items(j)) /\ Cardinality(Items(j)) = Total[j]
  BY TotalType, UpTo DEF Items
<1>2. /\ Settled(j) \in SUBSET Items(j)
      /\ OkItems(j) \in SUBSET Items(j)
      /\ OkUncollected(j) \in SUBSET Items(j)
  BY DEF Settled, OkItems, OkUncollected
<1>3. IsFiniteSet(Settled(j)) /\ IsFiniteSet(OkItems(j)) /\ IsFiniteSet(OkUncollected(j))
  BY <1>1, <1>2, FS_Subset
<1>4. IsFiniteSet(1..Len(results[j]))
  BY FS_Interval
<1>5. OkEntries(results[j]) \in SUBSET (1..Len(results[j]))
  BY DEF OkEntries
<1>6. IsFiniteSet(OkEntries(results[j]))
  BY <1>4, <1>5, FS_Subset
<1> QED
  BY <1>1, <1>3, <1>6, FS_CardinalityType

\* A step that neither finishes nor collects anything keeps the ledger.
LEMMA SameLedger ==
    ASSUME NEW j \in Jobs, Counted(j), Final(j),
           row'[j] = row[j], finished'[j] = finished[j], results'[j] = results[j],
           Live(j)' => Live(j), worker[j] = "ended" => worker'[j] = "ended",
           \A i \in Items(j) :
              /\ (item'[j][i] \in {"ok", "error"}) <=> (item[j][i] \in {"ok", "error"})
              /\ (item'[j][i] = "ok") <=> (item[j][i] = "ok")
    PROVE  Counted(j)' /\ Final(j)'
<1>1. Settled(j)' = Settled(j)
  BY DEF Settled
<1>2. OkItems(j)' = OkItems(j)
  BY DEF OkItems
<1>3. OkUncollected(j)' = OkUncollected(j)
  BY <1>2 DEF OkUncollected
<1>4. Counted(j)'
  BY <1>1, <1>2, <1>3 DEF Counted
<1>5. Final(j)'
  BY <1>1, <1>2 DEF Final, Completed
<1> QED
  BY <1>4, <1>5

\* An item that finishes is to be collected.
LEMMA EndsLedger ==
    ASSUME Shape, NEW j \in Jobs, JobInv(j), Counted(j), Final(j),
           NEW i \in Items(j), item[j][i] \in InFlight, NEW s \in {"ok", "error"},
           Finish(j, i, s), UNCHANGED <<row, results, worker>>
    PROVE  Counted(j)' /\ Final(j)'
<1>1. /\ item'[j] = [item[j] EXCEPT ![i] = s]
      /\ finished'[j] = Append(finished[j], i)
      /\ results'[j] = results[j] /\ row'[j] = row[j] /\ worker'[j] = worker[j]
  BY DEF Shape, Finish
<1>2. /\ item[j] \in [Items(j) -> ItemStates]
      /\ finished[j] \in Seq(Items(j))
      /\ results[j] \in Seq(Entries)
  BY DEF JobInv, JobTypes
<1>3. /\ item'[j][i] = s
      /\ \A k \in Items(j) : k # i => item'[j][k] = item[j][k]
      /\ item[j][i] \notin {"ok", "error"}
  BY <1>1, <1>2 DEF InFlight
<1>4. /\ Len(finished'[j]) = Len(finished[j]) + 1
      /\ finished'[j][Len(finished[j]) + 1] = i
      /\ \A k \in 1..Len(finished[j]) : finished'[j][k] = finished[j][k]
      /\ Len(finished[j]) \in Nat /\ Len(results[j]) \in Nat
  BY <1>1, <1>2
<1>L. /\ Len(finished'[j]) = Len(finished[j]) + 1
      /\ Len(results'[j]) = Len(results[j])
      /\ OkEntries(results'[j]) = OkEntries(results[j])
      /\ Len(finished[j]) \in Nat /\ Len(results[j]) \in Nat
  BY <1>1, <1>4
<1>C. ASSUME NEW n \in Items(j)
      PROVE  (\E k \in 1..Len(finished'[j]) : finished'[j][k] = n)
                <=> (\E k \in 1..Len(finished[j]) : finished[j][k] = n) \/ n = i
  <2>1. \A k \in 1..Len(finished'[j]) :
           k \in 1..Len(finished[j]) \/ k = Len(finished[j]) + 1
    BY <1>4
  <2>2. /\ 1..Len(finished[j]) \subseteq 1..Len(finished'[j])
        /\ Len(finished[j]) + 1 \in 1..Len(finished'[j])
    BY <1>4
  <2> QED
    BY <1>4, <2>1, <2>2, Zenon
<1>5. i \notin Settled(j) /\ Settled(j)' = Settled(j) \cup {i}
  BY <1>3 DEF Settled
<1>6. Final(j)'
  BY <1>1, <1>5 DEF Final, Completed
<1>7. Cardinality(Settled(j)') = Cardinality(Settled(j)) + 1
  BY <1>2, <1>5, LedgerIsFinite, FS_AddElement
<1>8. i \notin OkItems(j) /\ i \notin OkUncollected(j)
  BY <1>3 DEF OkItems, OkUncollected
<1>9. CASE s = "ok"
  <2>1. OkItems(j)' = OkItems(j) \cup {i}
    BY <1>3, <1>9 DEF OkItems
  <2>2. OkUncollected(j)' = OkUncollected(j) \cup {i}
    <3>1. \A n \in Items(j) :
             n \in OkUncollected(j)' <=> n \in OkUncollected(j) \/ n = i
      <4>1. \A n \in Items(j) : n \in OkItems(j)' <=> n \in OkItems(j) \/ n = i
        BY <2>1
      <4> QED
        BY <1>C, <1>8, <4>1, Zenon DEF OkUncollected
    <3>2. /\ OkUncollected(j)' \subseteq Items(j)
          /\ OkUncollected(j) \subseteq Items(j)
      BY DEF OkUncollected, OkItems
    <3> QED
      BY <3>1, <3>2
  <2>3. /\ Cardinality(OkItems(j)') = Cardinality(OkItems(j)) + 1
        /\ Cardinality(OkUncollected(j)') = Cardinality(OkUncollected(j)) + 1
    BY <1>2, <1>8, <2>1, <2>2, LedgerIsFinite, FS_AddElement
  <2>4. ASSUME Live(j)'
        PROVE  /\ Cardinality(Settled(j)') = Len(results'[j]) + Len(finished'[j])
               /\ Cardinality(OkItems(j)')
                     = Cardinality(OkEntries(results'[j]))
                          + Cardinality(OkUncollected(j)')
    <3>1. /\ Cardinality(Settled(j)) = Len(results[j]) + Len(finished[j])
          /\ Cardinality(OkItems(j))
                = Cardinality(OkEntries(results[j])) + Cardinality(OkUncollected(j))
      BY <1>1, <2>4 DEF Counted, Live
    <3>2. /\ Cardinality(OkItems(j)) \in Nat
          /\ Cardinality(OkUncollected(j)) \in Nat
          /\ Cardinality(OkEntries(results[j])) \in Nat
      BY <1>2, LedgerIsFinite
    <3>3. Cardinality(Settled(j)') = Len(results'[j]) + Len(finished'[j])
      <4>1. Cardinality(Settled(j)) + 1 = Len(results[j]) + (Len(finished[j]) + 1)
        BY <1>L, <3>1, OneMore, Zenon
      <4> QED
        BY <1>L, <1>7, <4>1, Zenon
    <3>4. Cardinality(OkItems(j)')
             = Cardinality(OkEntries(results'[j])) + Cardinality(OkUncollected(j)')
      BY <1>L, <2>3, <3>1, <3>2
    <3> QED
      BY <3>3, <3>4
  <2>5. Counted(j)'
    BY <2>4 DEF Counted
  <2> QED
    BY <1>6, <2>5
<1>10. CASE s = "error"
  <2>1. OkItems(j)' = OkItems(j)
    BY <1>3, <1>10 DEF OkItems
  <2>2. OkUncollected(j)' = OkUncollected(j)
    <3>1. \A n \in OkItems(j) : n # i
      BY <1>8
    <3>2. \A n \in OkItems(j) :
             (\E k \in 1..Len(finished'[j]) : finished'[j][k] = n)
                <=> (\E k \in 1..Len(finished[j]) : finished[j][k] = n)
      <4>1. \A n \in OkItems(j) : n \in Items(j)
        BY DEF OkItems
      <4> QED
        BY <1>C, <3>1, <4>1, Zenon
    <3> QED
      BY <2>1, <3>2 DEF OkUncollected
  <2>3. ASSUME Live(j)'
        PROVE  /\ Cardinality(Settled(j)') = Len(results'[j]) + Len(finished'[j])
               /\ Cardinality(OkItems(j)')
                     = Cardinality(OkEntries(results'[j]))
                          + Cardinality(OkUncollected(j)')
    <3>1. /\ Cardinality(Settled(j)) = Len(results[j]) + Len(finished[j])
          /\ Cardinality(OkItems(j))
                = Cardinality(OkEntries(results[j])) + Cardinality(OkUncollected(j))
      BY <1>1, <2>3 DEF Counted, Live
    <3>2. /\ Cardinality(OkItems(j)) \in Nat
          /\ Cardinality(OkUncollected(j)) \in Nat
          /\ Cardinality(OkEntries(results[j])) \in Nat
      BY <1>2, LedgerIsFinite
    <3>3. Cardinality(Settled(j)') = Len(results'[j]) + Len(finished'[j])
      <4>1. Cardinality(Settled(j)) + 1 = Len(results[j]) + (Len(finished[j]) + 1)
        BY <1>L, <3>1, OneMore, Zenon
      <4> QED
        BY <1>L, <1>7, <4>1, Zenon
    <3>4. Cardinality(OkItems(j)')
             = Cardinality(OkEntries(results'[j])) + Cardinality(OkUncollected(j)')
      BY <1>L, <2>1, <2>2, <3>1, <3>2
    <3> QED
      BY <3>3, <3>4
  <2>4. Counted(j)'
    BY <2>3 DEF Counted
  <2> QED
    BY <1>6, <2>4
<1> QED
  BY <1>9, <1>10

\* What is collected is an entry from then on.
LEMMA CollectLedger ==
    ASSUME Shape, NEW j \in Jobs, JobInv(j), Counted(j), Final(j), Collect(j)
    PROVE  Counted(j)' /\ Final(j)'
<1> DEFINE i == Head(finished[j])
           e == EntryFor(j, i)
<1>1. /\ worker[j] = "collecting"
      /\ finished[j] # <<>>
      /\ results'[j] = Append(results[j], e)
      /\ finished'[j] = Tail(finished[j])
      /\ worker'[j] = "updating"
      /\ row'[j] = row[j] /\ item'[j] = item[j]
  BY DEF Shape, Collect
<1>2. /\ finished[j] \in Seq(Items(j))
      /\ results[j] \in Seq(Entries)
  BY DEF JobInv, JobTypes
<1>3. /\ 1 \in 1..Len(finished[j])
      /\ i = finished[j][1]
      /\ i \in Items(j)
  BY <1>1, <1>2
<1>4. e \in Entries /\ e.outcome = item[j][i]
  BY <1>1, <1>3, EntryType DEF JobInv, Accounts, EntryFor
<1> HIDE DEF e, i
<1>5. /\ Len(results'[j]) = Len(results[j]) + 1
      /\ results'[j][Len(results[j]) + 1] = e
      /\ \A k \in 1..Len(results[j]) : results'[j][k] = results[j][k]
      /\ Len(results[j]) \in Nat
      /\ results'[j] \in Seq(Entries)
  BY <1>1, <1>2, <1>4
<1>6. /\ Len(finished'[j]) = Len(finished[j]) - 1
      /\ Len(finished[j]) \in Nat
      /\ \A k \in 1..Len(finished[j]) :
            k # 1 => k - 1 \in 1..Len(finished'[j]) /\ finished'[j][k - 1] = finished[j][k]
      /\ \A k \in 1..Len(finished'[j]) :
            k + 1 \in 1..Len(finished[j]) /\ finished'[j][k] = finished[j][k + 1]
  BY <1>1, <1>2
<1>L. /\ Len(finished'[j]) = Len(finished[j]) - 1
      /\ Len(results'[j]) = Len(results[j]) + 1
      /\ Len(finished[j]) \in Nat /\ Len(results[j]) \in Nat
  BY <1>5, <1>6
<1>7. ~ Completed(j)
  BY <1>1 DEF Final
<1>8. Final(j)'
  BY <1>1, <1>7 DEF Final, Completed
<1>9. Settled(j)' = Settled(j) /\ OkItems(j)' = OkItems(j)
  BY <1>1 DEF Settled, OkItems
<1>10. OkUncollected(j)' = OkUncollected(j) \ {i}
  <2>1. \A n \in Items(j) :
           (\E k \in 1..Len(finished'[j]) : finished'[j][k] = n)
              <=> (n # i /\ \E k \in 1..Len(finished[j]) : finished[j][k] = n)
    <3>1. ASSUME NEW k \in 1..Len(finished'[j]) PROVE finished'[j][k] # i
      <4>1. k + 1 \in 1..Len(finished[j]) /\ k + 1 # 1
            /\ finished'[j][k] = finished[j][k + 1]
        BY <1>6
      <4> QED
        BY <1>3, <4>1 DEF JobInv, Accounts
    <3>2. ASSUME NEW k \in 1..Len(finished[j]), finished[j][k] # i
          PROVE  \E l \in 1..Len(finished'[j]) : finished'[j][l] = finished[j][k]
      BY <1>3, <1>6, <3>2
    <3>3. ASSUME NEW n \in Items(j), NEW k \in 1..Len(finished'[j]),
                 finished'[j][k] = n
          PROVE  n # i /\ \E l \in 1..Len(finished[j]) : finished[j][l] = n
      BY <1>6, <3>1, <3>3
    <3> QED
      BY <3>2, <3>3
  <2> QED
    BY <1>9, <2>1 DEF OkUncollected, OkItems
<1>11. Len(results[j]) + 1 \notin OkEntries(results[j])
  BY <1>5 DEF OkEntries
<1>12. CASE item[j][i] = "ok"
  <2>1. i \in OkUncollected(j)
    BY <1>3, <1>12 DEF OkUncollected, OkItems
  <2>2. OkEntries(results'[j]) = OkEntries(results[j]) \cup {Len(results[j]) + 1}
    BY <1>4, <1>5, <1>12 DEF OkEntries
  <2>3. IsFiniteSet(OkUncollected(j)) /\ IsFiniteSet(OkEntries(results[j]))
    BY <1>2, LedgerIsFinite
  <2>4. Cardinality(OkUncollected(j)') = Cardinality(OkUncollected(j)) - 1
    BY <1>10, <2>1, <2>3, FS_RemoveElement
  <2>5. Cardinality(OkEntries(results'[j])) = Cardinality(OkEntries(results[j])) + 1
    BY <1>11, <2>2, <2>3, FS_AddElement
  <2>6. ASSUME Live(j)'
        PROVE  /\ Cardinality(Settled(j)') = Len(results'[j]) + Len(finished'[j])
               /\ Cardinality(OkItems(j)')
                     = Cardinality(OkEntries(results'[j]))
                          + Cardinality(OkUncollected(j)')
    <3>1. /\ Cardinality(Settled(j)) = Len(results[j]) + Len(finished[j])
          /\ Cardinality(OkItems(j))
                = Cardinality(OkEntries(results[j])) + Cardinality(OkUncollected(j))
      BY <1>1, <2>6 DEF Counted, Live
    <3>2. /\ Cardinality(OkItems(j)) \in Nat
          /\ Cardinality(OkUncollected(j)) \in Nat
          /\ Cardinality(OkEntries(results[j])) \in Nat
      BY <1>2, LedgerIsFinite
    <3>3. Cardinality(Settled(j)') = Len(results'[j]) + Len(finished'[j])
      <4>1. Cardinality(Settled(j)) = (Len(results[j]) + 1) + (Len(finished[j]) - 1)
        BY <1>L, <3>1, OneMoved, Zenon
      <4> QED
        BY <1>L, <1>9, <4>1, Zenon
    <3>4. Cardinality(OkItems(j)')
             = Cardinality(OkEntries(results'[j])) + Cardinality(OkUncollected(j)')
      BY <1>9, <2>4, <2>5, <3>1, <3>2
    <3> QED
      BY <3>3, <3>4
  <2>7. Counted(j)'
    BY <2>6 DEF Counted
  <2> QED
    BY <1>8, <2>7
<1>13. CASE item[j][i] # "ok"
  <2>1. OkUncollected(j)' = OkUncollected(j)
    BY <1>10, <1>13 DEF OkUncollected, OkItems
  <2>2. OkEntries(results'[j]) = OkEntries(results[j])
    BY <1>4, <1>5, <1>13 DEF OkEntries
  <2>3. ASSUME Live(j)'
        PROVE  /\ Cardinality(Settled(j)') = Len(results'[j]) + Len(finished'[j])
               /\ Cardinality(OkItems(j)')
                     = Cardinality(OkEntries(results'[j]))
                          + Cardinality(OkUncollected(j)')
    <3>1. /\ Cardinality(Settled(j)) = Len(results[j]) + Len(finished[j])
          /\ Cardinality(OkItems(j))
                = Cardinality(OkEntries(results[j])) + Cardinality(OkUncollected(j))
      BY <1>1, <2>3 DEF Counted, Live
    <3>2. /\ Cardinality(OkItems(j)) \in Nat
          /\ Cardinality(OkUncollected(j)) \in Nat
          /\ Cardinality(OkEntries(results[j])) \in Nat
      BY <1>2, LedgerIsFinite
    <3>3. Cardinality(Settled(j)') = Len(results'[j]) + Len(finished'[j])
      <4>1. Cardinality(Settled(j)) = (Len(results[j]) + 1) + (Len(finished[j]) - 1)
        BY <1>L, <3>1, OneMoved, Zenon
      <4> QED
        BY <1>L, <1>9, <4>1, Zenon
    <3>4. Cardinality(OkItems(j)')
             = Cardinality(OkEntries(results'[j])) + Cardinality(OkUncollected(j)')
      BY <1>9, <2>1, <2>2, <3>1, <3>2
    <3> QED
      BY <3>3, <3>4
  <2>4. Counted(j)'
    BY <2>3 DEF Counted
  <2> QED
    BY <1>8, <2>4
<1> QED
  BY <1>12, <1>13

\* When the last entry is in, nothing is left to finish or to collect.
LEMMA UpdateLedger ==
    ASSUME Shape, NEW j \in Jobs, JobInv(j), Counted(j), Final(j), UpdateJob(j)
    PROVE  Counted(j)' /\ Final(j)'
<1>1. /\ worker[j] = "updating"
      /\ row'[j] = [status |-> JobStatus(j), total |-> row[j].total,
                    completed |-> Len(results[j]), results |-> results[j]]
      /\ finished'[j] = finished[j] /\ results'[j] = results[j]
  BY DEF Shape, UpdateJob
<1>2. /\ results[j] \in Seq(Entries)
      /\ finished[j] \in Seq(Items(j))
      /\ Len(results[j]) <= Total[j]
      /\ Total[j] \in Nat
  BY <1>1, TotalType DEF JobInv, JobTypes, RowOf
<1>3. CASE Len(results[j]) < Total[j]
  <2>1. /\ worker'[j] = "collecting"
        /\ item'[j] = [i \in Items(j) |->
              IF j \notin ZipJobs /\ i = Len(results[j]) + 1
              THEN "started" ELSE item[j][i]]
        /\ JobStatus(j) = "running"
    BY <1>3 DEF Shape, UpdateJob, JobStatus
  <2>2. \A i \in Items(j) : (j \notin ZipJobs /\ i = Len(results[j]) + 1) =>
           item[j][i] = "new"
    BY <1>1, <1>2, <1>3 DEF JobInv, Turns, Items
  <2>3. \A i \in Items(j) :
           /\ (item'[j][i] \in {"ok", "error"}) <=> (item[j][i] \in {"ok", "error"})
           /\ (item'[j][i] = "ok") <=> (item[j][i] = "ok")
    BY <2>1, <2>2
  <2>4. Settled(j)' = Settled(j) /\ OkItems(j)' = OkItems(j)
    BY <2>3 DEF Settled, OkItems
  <2>5. OkUncollected(j)' = OkUncollected(j)
    BY <1>1, <2>4 DEF OkUncollected
  <2>6. Counted(j)'
    BY <1>1, <2>4, <2>5 DEF Counted, Live
  <2>7. Final(j)'
    BY <1>1, <2>1 DEF Final, Completed
  <2> QED
    BY <2>6, <2>7
<1>4. CASE ~(Len(results[j]) < Total[j])
  <2>1. /\ worker'[j] = "ended"
        /\ item'[j] = item[j]
    BY <1>4 DEF Shape, UpdateJob
  <2>2. Len(results[j]) = Total[j]
    BY <1>2, <1>4
  <2>3. /\ Cardinality(Settled(j)) = Total[j] + Len(finished[j])
        /\ Cardinality(OkItems(j))
              = Cardinality(OkEntries(results[j])) + Cardinality(OkUncollected(j))
    BY <1>1, <2>2 DEF Counted, Live
  <2>4. Settled(j) \in SUBSET Items(j)
    BY DEF Settled
  <2>5. Cardinality(Settled(j)) <= Total[j]
    BY <1>2, <2>4, LedgerIsFinite, FS_Subset
  <2>6. Len(finished[j]) = 0 /\ Cardinality(Settled(j)) = Total[j]
    BY <1>2, <2>3, <2>5
  <2>7. Settled(j) = Items(j)
    BY <1>2, <2>4, <2>6, LedgerIsFinite, FS_Subset
  <2>8. OkUncollected(j) = {}
    BY <2>6 DEF OkUncollected
  <2>9. Cardinality(OkEntries(results[j])) = Cardinality(OkItems(j))
    BY <1>2, <2>3, <2>8, LedgerIsFinite, FS_EmptySet
  <2>10. Settled(j)' = Settled(j) /\ OkItems(j)' = OkItems(j)
    BY <2>1 DEF Settled, OkItems
  <2>11. row'[j].results = results[j]
    BY <1>1
  <2>12. Final(j)'
    BY <2>1, <2>7, <2>9, <2>10, <2>11 DEF Final
  <2> QED
    BY <2>1, <2>12 DEF Counted, Live
<1> QED
  BY <1>3, <1>4

LEMMA InitLedger == Init => Ledger
<1> SUFFICES ASSUME Init, NEW j \in Jobs PROVE Counted(j) /\ Final(j)
  BY DEF Ledger
<1>1. /\ row[j] = NoRow
      /\ \A i \in Items(j) : item[j][i] = "new"
      /\ finished[j] = <<>> /\ results[j] = <<>>
  BY DEF Init
<1>2. Settled(j) = {} /\ OkItems(j) = {} /\ OkUncollected(j) = {}
  BY <1>1 DEF Settled, OkItems, OkUncollected
<1>3. OkEntries(results[j]) = {} /\ Len(results[j]) = 0 /\ Len(finished[j]) = 0
  BY <1>1 DEF OkEntries
<1>4. Counted(j)
  BY <1>2, <1>3, FS_EmptySet DEF Counted
<1>5. Final(j)
  BY <1>1 DEF Final, Completed
<1> QED
  BY <1>4, <1>5

\* A step of the request or of the worker.
LEMMA WorkerLedger ==
    ASSUME Shape, NEW j \in Jobs, JobInv(j), Counted(j), Final(j),
           CreateJob(j) \/ Work(j) \/ UpdateFails(j)
    PROVE  Counted(j)' /\ Final(j)'
<1>1. CASE CreateJob(j)
  <2>1. /\ worker[j] = "none" /\ worker'[j] = "created"
        /\ row'[j].status = "pending"
        /\ item' = item /\ finished' = finished /\ results' = results
    BY <1>1 DEF Shape, CreateJob
  <2>2. /\ Settled(j)' = Settled(j)
        /\ OkItems(j)' = OkItems(j)
        /\ OkUncollected(j)' = OkUncollected(j)
    BY <2>1 DEF Settled, OkItems, OkUncollected
  <2>3. Counted(j)'
    BY <2>1, <2>2 DEF Counted, Live
  <2>4. Final(j)'
    BY <2>1 DEF Final, Completed
  <2> QED
    BY <2>3, <2>4
<1>2. CASE LaunchJob(j)
  <2>1. /\ worker[j] = "created"
        /\ row'[j] = row[j] /\ finished'[j] = finished[j] /\ results'[j] = results[j]
        /\ item'[j] = [i \in Items(j) |->
              IF j \in ZipJobs \/ i = 1 THEN "started" ELSE "new"]
    BY <1>2 DEF Shape, LaunchJob
  <2>2. \A i \in Items(j) : item[j][i] = "new"
    BY <2>1 DEF JobInv, Turns
  <2>3. \A i \in Items(j) :
           /\ (item'[j][i] \in {"ok", "error"}) <=> (item[j][i] \in {"ok", "error"})
           /\ (item'[j][i] = "ok") <=> (item[j][i] = "ok")
    BY <2>1, <2>2
  <2> QED
    BY <2>1, <2>3, SameLedger DEF Live
<1>3. CASE Collect(j)
  BY <1>3, CollectLedger
<1>4. CASE UpdateJob(j)
  BY <1>4, UpdateLedger
<1>5. CASE UpdateFails(j)
  <2>1. /\ worker[j] = "updating" /\ worker'[j] = "dead"
        /\ row' = row /\ item' = item /\ finished' = finished /\ results' = results
    BY <1>5 DEF Shape, UpdateFails
  <2> QED
    BY <2>1, SameLedger DEF Live
<1> QED
  BY <1>1, <1>2, <1>3, <1>4, <1>5 DEF Work

\* A step of an item.
LEMMA ItemLedger ==
    ASSUME Shape, NEW j \in Jobs, JobInv(j), Counted(j), Final(j),
           NEW i \in Items(j), RunItem(j, i)
    PROVE  Counted(j)' /\ Final(j)'
<1>1. CASE FinishEarly(j, i) \/ Store(j, i)
  <2>1. PICK s \in {"ok", "error"} : Finish(j, i, s)
    BY <1>1 DEF FinishEarly, Store
  <2>2. item[j][i] \in InFlight /\ UNCHANGED <<row, results, worker>>
    BY <1>1 DEF FinishEarly, Store, InFlight
  <2> QED
    BY <2>1, <2>2, EndsLedger
<1>2. CASE AwaitPermit(j, i) \/ Acquire(j, i) \/ Release(j, i)
  <2>1. PICK s \in InFlight : item' = [item EXCEPT ![j][i] = s]
    BY <1>2 DEF AwaitPermit, Acquire, Release, InFlight
  <2>2. item[j][i] \in InFlight /\ UNCHANGED <<row, finished, results, worker>>
    BY <1>2 DEF AwaitPermit, Acquire, Release, InFlight
  <2>3. item[j] \in [Items(j) -> ItemStates]
    BY DEF JobInv, JobTypes
  <2>4. item'[j] = [item[j] EXCEPT ![i] = s]
    BY <2>1 DEF Shape
  <2>5. \A k \in Items(j) :
           /\ (item'[j][k] \in {"ok", "error"}) <=> (item[j][k] \in {"ok", "error"})
           /\ (item'[j][k] = "ok") <=> (item[j][k] = "ok")
    BY <2>2, <2>3, <2>4 DEF InFlight
  <2> QED
    BY <2>2, <2>5, SameLedger DEF Live
<1> QED
  BY <1>1, <1>2 DEF RunItem

\* After a crash only what was completed, or not begun, has a ledger.
LEMMA CrashLedger ==
    ASSUME NEW j \in Jobs, JobInv(j), Counted(j), Final(j), Crash
    PROVE  Counted(j)' /\ Final(j)'
<1>1. /\ worker'[j] = IF Active(j) THEN "dead" ELSE worker[j]
      /\ item'[j] = [i \in Items(j) |->
            IF item[j][i] \in InFlight THEN "gone" ELSE item[j][i]]
      /\ finished'[j] = <<>> /\ results'[j] = <<>>
      /\ row'[j] = row[j]
  BY DEF Crash
<1>2. \A i \in Items(j) :
         /\ (item'[j][i] \in {"ok", "error"}) <=> (item[j][i] \in {"ok", "error"})
         /\ (item'[j][i] = "ok") <=> (item[j][i] = "ok")
  BY <1>1 DEF InFlight
<1>3. Settled(j)' = Settled(j) /\ OkItems(j)' = OkItems(j)
  BY <1>2 DEF Settled, OkItems
<1>4. Final(j)'
  BY <1>1, <1>3 DEF Final, Completed, Active
<1>5. ASSUME Live(j)'
      PROVE  Counted(j)'
  <2>1. worker[j] = "none"
    BY <1>1, <1>5 DEF Live, Active
  <2>2. \A i \in Items(j) : item[j][i] = "new"
    BY <2>1 DEF JobInv, Turns
  <2>3. Settled(j)' = {} /\ OkItems(j)' = {}
    BY <1>3, <2>2 DEF Settled, OkItems
  <2>4. OkUncollected(j)' = {}
    BY <2>3 DEF OkUncollected
  <2>5. OkEntries(results'[j]) = {} /\ Len(results'[j]) = 0 /\ Len(finished'[j]) = 0
    BY <1>1 DEF OkEntries
  <2> QED
    BY <2>3, <2>4, <2>5, FS_EmptySet DEF Counted
<1>6. Counted(j)'
  BY <1>5 DEF Counted
<1> QED
  BY <1>4, <1>6

LEMMA NextLedger == IInv /\ Ledger /\ [Next]_vars => Ledger'
<1> SUFFICES ASSUME IInv, Ledger, [Next]_vars, NEW k \in Jobs
             PROVE  Counted(k)' /\ Final(k)'
  BY DEF Ledger
<1>0. Shape /\ JobInv(k) /\ Counted(k) /\ Final(k)
  BY DEF IInv, Ledger
<1>1. ASSUME NEW j \in Jobs,
             \/ CreateJob(j) \/ Work(j) \/ UpdateFails(j)
             \/ \E i \in Items(j) : RunItem(j, i)
      PROVE  Counted(k)' /\ Final(k)'
  <2>1. CASE j = k
    BY <1>0, <1>1, <2>1, WorkerLedger, ItemLedger
  <2>2. CASE j # k
    <3>1. /\ row'[k] = row[k] /\ item'[k] = item[k]
          /\ finished'[k] = finished[k] /\ results'[k] = results[k]
          /\ worker'[k] = worker[k]
      BY <1>0, <1>1, <2>2 DEF Shape, CreateJob, Work, LaunchJob, Collect, UpdateJob,
         UpdateFails, RunItem, FinishEarly, AwaitPermit, Acquire, Release, Store, Finish
    <3> QED
      BY <1>0, <3>1, SameLedger DEF Live
  <2> QED
    BY <2>1, <2>2
<1>2. CASE Crash
  BY <1>0, <1>2, CrashLedger
<1>3. CASE UNCHANGED vars
  BY <1>0, <1>3, SameLedger DEF vars, Live
<1> QED
  BY <1>1, <1>2, <1>3 DEF Next

\* A completed job is complete: no item is left out, and the row a client sees
\* has an ok result for each item that ended well, whatever the order they
\* finished in and whatever other jobs, failures and restarts have done.
THEOREM CompletedComplete == Spec => []CompletedIsComplete
<1>1. Ledger => CompletedIsComplete
  <2> SUFFICES ASSUME Ledger, NEW j \in Jobs, Completed(j)
               PROVE  /\ \A i \in Items(j) : item[j][i] \in {"ok", "error"}
                      /\ Cardinality(OkEntries(row[j].results))
                            = Cardinality(OkItems(j))
    BY DEF CompletedIsComplete, OkEntries, OkItems
  <2>1. Final(j)
    BY DEF Ledger
  <2>2. \A i \in Items(j) : i \in Settled(j)
    BY <2>1 DEF Final
  <2> QED
    BY <2>1, <2>2 DEF Final, Settled
<1> QED
  BY <1>1, InitLedger, NextLedger, InductiveInvariant, PTL DEF Spec

-----------------------------------------------------------------------------
\* An update adds one result to a row.
LEMMA UpdateIsProgress ==
    ASSUME IInv, NEW j \in Jobs, UpdateJob(j)
    PROVE  \E e \in Entries : Contract!Progress(j, e)
<1>1. /\ Shape
      /\ worker[j] = "updating"
      /\ row[j] # NoRow
      /\ row[j] \in Rows
      /\ row[j].total = Total[j]
      /\ row[j].completed = Len(row[j].results)
      /\ Len(results[j]) <= Total[j]
  BY DEF IInv, JobInv, RowOf, UpdateJob
<1>2. PICK e \in Entries : results[j] = Append(row[j].results, e)
  BY <1>1 DEF IInv, JobInv, RowOf
<1>3. row[j].results \in Seq(Entries)
  BY <1>1 DEF Rows
<1>4. /\ Len(results[j]) = Len(row[j].results) + 1
      /\ Len(row[j].results) \in Nat
  BY <1>2, <1>3
<1>5. /\ row[j].completed + 1 = Len(results[j])
      /\ row[j].completed < row[j].total
  BY <1>1, <1>4, TotalType
<1>6. row' = [row EXCEPT ![j] =
                [status |-> JobStatus(j), total |-> row[j].total,
                 completed |-> Len(results[j]), results |-> results[j]]]
  BY DEF UpdateJob
<1>7. Contract!Progress(j, e)
  BY <1>1, <1>2, <1>5, <1>6 DEF Contract!Progress, Contract!NoRow, NoRow, JobStatus
<1> QED
  BY <1>7

\* A step writes no row, or creates one, or adds one result to one.
LEMMA ContractStep == IInv /\ [Next]_vars => [Contract!Next]_row
<1> SUFFICES ASSUME IInv, [Next]_vars PROVE [Contract!Next]_row
  OBVIOUS
<1>1. ASSUME NEW j \in Jobs, CreateJob(j)
      PROVE  Contract!Create(j)
  BY <1>1 DEF CreateJob, Contract!Create, Contract!NoRow, NoRow
<1>2. ASSUME NEW j \in Jobs, UpdateJob(j)
      PROVE  \E e \in Entries : Contract!Progress(j, e)
  BY <1>2, UpdateIsProgress
<1>3. ASSUME NEW j \in Jobs,
             \/ LaunchJob(j) \/ Collect(j) \/ UpdateFails(j)
             \/ \E i \in Items(j) : RunItem(j, i)
      PROVE  row' = row
  BY <1>3 DEF LaunchJob, Collect, UpdateFails, RunItem, FinishEarly, AwaitPermit,
              Acquire, Release, Store
<1>4. ASSUME Crash \/ UNCHANGED vars
      PROVE  row' = row
  BY <1>4 DEF Crash, vars
<1> QED
  BY <1>1, <1>2, <1>3, <1>4 DEF Next, Work, Contract!Next

\* What a client that polls sees of the jobs is what JobContract promises, with
\* any number of jobs competing for the semaphore, and across restarts.
THEOREM ImplementsContract == Spec => ContractSpec
<1>1. Init => Contract!Init
  BY DEF Init, Contract!Init, NoRow, Contract!NoRow
<1> QED
  BY <1>1, ContractStep, InductiveInvariant, PTL
     DEF Spec, ContractSpec, Contract!Spec

-----------------------------------------------------------------------------
(* Progress, without fairness: nobody waits for ever on everybody, and no   *)
(* task or worker does twice what it has done.  What is left to fairness is *)
(* that a step which can be taken is taken.                                 *)

\* Whose turn it is has begun, and nothing of a job that is worked on is lost.
InTurn(j) ==
    /\ Active(j) => \A i \in Items(j) : item[j][i] # "gone"
    /\ worker[j] = "collecting" =>
          \A i \in Items(j) : (j \in ZipJobs \/ i =< Len(results[j]) + 1) =>
              item[j][i] # "new"
    /\ worker[j] = "updating" =>
          \A i \in Items(j) : (j \in ZipJobs \/ i =< Len(results[j])) =>
              item[j][i] # "new"

\* The worker of j can go on, or a task it waits for, or a task that holds a
\* permit which that one waits for.
CanGoOn(j) ==
    \/ worker[j] \in {"created", "updating"}
    \/ finished[j] # <<>>
    \/ \E i \in Items(j) : item[j][i] \in {"started", "running", "storing"}
    \/ /\ \E i \in Items(j) : item[j][i] = "waiting"
       /\ permits > 0 \/ Running # {}

NobodyIsStuck == \A j \in Jobs : Active(j) => CanGoOn(j)

\* A task goes on, and leaves nothing new or gone behind.
LEMMA InTurnMoves ==
    ASSUME Shape, NEW j \in Jobs, JobInv(j), InTurn(j), NEW i \in Items(j),
           NEW s \in ItemStates \ {"new", "gone"},
           item' = [item EXCEPT ![j][i] = s],
           UNCHANGED <<results, worker>>
    PROVE  InTurn(j)'
<1>1. item[j] \in [Items(j) -> ItemStates]
  BY DEF JobInv, JobTypes
<1>2. item'[j] = [item[j] EXCEPT ![i] = s]
  BY DEF Shape
<1>3. \A k \in Items(j) :
         item'[j][k] = item[j][k] \/ item'[j][k] \notin {"new", "gone"}
  BY <1>1, <1>2
<1> QED
  BY <1>3 DEF InTurn, Active

LEMMA InTurnSame ==
    ASSUME NEW j \in Jobs, InTurn(j), item'[j] = item[j],
           results'[j] = results[j], worker'[j] = worker[j]
    PROVE  InTurn(j)'
BY DEF InTurn, Active

LEMMA InTurnWorks ==
    ASSUME Shape, NEW j \in Jobs, JobInv(j), InTurn(j),
           CreateJob(j) \/ Work(j) \/ UpdateFails(j)
    PROVE  InTurn(j)'
<1>1. /\ item[j] \in [Items(j) -> ItemStates]
      /\ results[j] \in Seq(Entries)
      /\ finished[j] \in Seq(Items(j))
  BY DEF JobInv, JobTypes
<1>2. CASE CreateJob(j)
  <2>1. worker[j] = "none" /\ worker'[j] = "created" /\ item' = item
    BY <1>2 DEF Shape, CreateJob
  <2> QED
    BY <2>1 DEF JobInv, Turns, InTurn, Active
<1>3. CASE LaunchJob(j)
  <2>1. /\ worker[j] = "created"
        /\ worker'[j] = IF Total[j] = 0 THEN "ended" ELSE "collecting"
        /\ item'[j] = [i \in Items(j) |->
              IF j \in ZipJobs \/ i = 1 THEN "started" ELSE "new"]
        /\ results' = results
    BY <1>3 DEF Shape, LaunchJob
  <2>2. results[j] = <<>>
    BY <2>1 DEF JobInv, Turns
  <2>3. Len(results'[j]) + 1 = 1
    BY <2>1, <2>2
  <2>4. \A i \in Items(j) : i =< 1 => i = 1
    BY TotalType DEF Items
  <2> QED
    BY <2>1, <2>3, <2>4 DEF InTurn, Active
<1>4. CASE Collect(j)
  <2>1. /\ worker[j] = "collecting" /\ worker'[j] = "updating"
        /\ item' = item
        /\ results'[j] = Append(results[j], EntryFor(j, Head(finished[j])))
    BY <1>4 DEF Shape, Collect
  <2>2. Len(results'[j]) = Len(results[j]) + 1
    BY <1>1, <2>1
  <2> QED
    BY <2>1, <2>2 DEF InTurn, Active
<1>5. CASE UpdateJob(j)
  <2>1. worker[j] = "updating" /\ results' = results
    BY <1>5 DEF UpdateJob
  <2>2. CASE Len(results[j]) < Total[j]
    <3>1. /\ worker'[j] = "collecting"
          /\ item'[j] = [i \in Items(j) |->
                IF j \notin ZipJobs /\ i = Len(results[j]) + 1
                THEN "started" ELSE item[j][i]]
      BY <1>5, <2>2 DEF Shape, UpdateJob
    <3>2. Len(results[j]) \in Nat
      BY <1>1
    <3>3. \A i \in Items(j) : i =< Len(results[j]) + 1 =>
             i =< Len(results[j]) \/ i = Len(results[j]) + 1
      BY <3>2, TotalType DEF Items
    <3> QED
      BY <2>1, <3>1, <3>3 DEF InTurn, Active
  <2>3. CASE ~ (Len(results[j]) < Total[j])
    <3>1. worker'[j] = "ended"
      BY <1>5, <2>3 DEF Shape, UpdateJob
    <3> QED
      BY <3>1 DEF InTurn, Active
  <2> QED
    BY <2>2, <2>3
<1>6. CASE UpdateFails(j)
  <2>1. worker'[j] = "dead"
    BY <1>6 DEF Shape, UpdateFails
  <2> QED
    BY <2>1 DEF InTurn, Active
<1> QED
  BY <1>2, <1>3, <1>4, <1>5, <1>6 DEF Work

LEMMA NextInTurn ==
    IInv /\ (\A j \in Jobs : InTurn(j)) /\ [Next]_vars => \A j \in Jobs : InTurn(j)'
<1> SUFFICES ASSUME IInv, \A j \in Jobs : InTurn(j), [Next]_vars, NEW k \in Jobs
             PROVE  InTurn(k)'
  OBVIOUS
<1>0. Shape /\ JobInv(k) /\ InTurn(k)
  BY DEF IInv
<1>1. ASSUME NEW j \in Jobs,
             \/ CreateJob(j) \/ Work(j) \/ UpdateFails(j)
             \/ \E i \in Items(j) : RunItem(j, i)
      PROVE  InTurn(k)'
  <2>1. CASE j = k
    <3>1. ASSUME NEW i \in Items(k), RunItem(k, i) PROVE InTurn(k)'
      <4>1. PICK s \in ItemStates \ {"new", "gone"} :
               item' = [item EXCEPT ![k][i] = s]
        BY <3>1 DEF RunItem, FinishEarly, AwaitPermit, Acquire, Release, Store,
           Finish, ItemStates
      <4>2. UNCHANGED <<results, worker>>
        BY <3>1 DEF RunItem, FinishEarly, AwaitPermit, Acquire, Release, Store
      <4> QED
        BY <1>0, <4>1, <4>2, InTurnMoves
    <3> QED
      BY <1>0, <1>1, <2>1, <3>1, InTurnWorks
  <2>2. CASE j # k
    <3>1. /\ item'[k] = item[k] /\ results'[k] = results[k]
          /\ worker'[k] = worker[k]
      BY <1>0, <1>1, <2>2 DEF Shape, CreateJob, Work, LaunchJob, Collect, UpdateJob,
         UpdateFails, RunItem, FinishEarly, AwaitPermit, Acquire, Release, Store, Finish
    <3> QED
      BY <1>0, <3>1, InTurnSame
  <2> QED
    BY <2>1, <2>2
<1>2. CASE Crash
  <2>1. worker'[k] = IF Active(k) THEN "dead" ELSE worker[k]
    BY <1>2 DEF Crash
  <2> QED
    BY <2>1 DEF InTurn, Active
<1>3. CASE UNCHANGED vars
  BY <1>0, <1>3, InTurnSame DEF vars
<1> QED
  BY <1>1, <1>2, <1>3 DEF Next

\* A worker that waits has something to wait for.
LEMMA NotStuck ==
    ASSUME IInv, Ledger, \A j \in Jobs : InTurn(j), NEW j \in Jobs, Active(j)
    PROVE  CanGoOn(j)
<1> SUFFICES ASSUME worker[j] = "collecting", finished[j] = <<>>,
                    \A i \in Items(j) : item[j][i] \notin {"started", "running", "storing"},
                    ~ CanGoOn(j)
             PROVE  FALSE
  BY DEF Active, CanGoOn
<1>1. /\ JobInv(j) /\ Counted(j) /\ InTurn(j)
      /\ item[j] \in [Items(j) -> ItemStates]
      /\ results[j] \in Seq(Entries)
      /\ Len(results[j]) < Total[j]
      /\ Len(results[j]) \in Nat
      /\ Total[j] \in Nat
  BY TotalType DEF IInv, Ledger, JobInv, JobTypes, RowOf
<1>2. \A i \in Items(j) : item[j][i] # "waiting"
  <2> SUFFICES ASSUME NEW i \in Items(j), item[j][i] = "waiting" PROVE FALSE
    OBVIOUS
  <2>1. ~ (permits > 0) /\ Running = {}
    BY DEF CanGoOn
  <2>2. permits = Concurrency
    BY <2>1, FS_EmptySet, ConcurrencyAssumption DEF IInv, PermitInv
  <2> QED
    BY <2>1, <2>2, ConcurrencyAssumption
<1>3. Cardinality(Settled(j)) = Len(results[j])
  BY <1>1 DEF Counted, Live
<1>4. \A i \in Items(j) : item[j][i] \in {"new", "ok", "error"}
  BY <1>1, <1>2 DEF ItemStates, InTurn, Active
<1>5. CASE j \in ZipJobs
  <2>1. Settled(j) = Items(j)
    BY <1>1, <1>4, <1>5 DEF Settled, InTurn
  <2> QED
    BY <1>1, <1>3, <2>1, LedgerIsFinite
<1>6. CASE j \notin ZipJobs
  <2>1. \A i \in Items(j) : item[j][i] = "new" <=> ~ (i =< Len(results[j]) + 1)
    BY <1>1, <1>6 DEF InTurn, JobInv, Turns, Items
  <2>2. Settled(j) = 1..(Len(results[j]) + 1)
    BY <1>1, <1>4, <2>1 DEF Settled, Items
  <2>3. Cardinality(Settled(j)) = Len(results[j]) + 1
    BY <1>1, <2>2, UpTo
  <2> QED
    BY <1>1, <1>3, <2>3
<1> QED
  BY <1>5, <1>6

\* Whatever the jobs, their order and the permits, a job whose worker lives can
\* go on, itself or through a task it waits for: an item that raises takes no
\* other with it, and no two jobs starve each other (_process_batch,
\* _process_batch_reanalyze, _batch_semaphore).
THEOREM NeverStuck == Spec => []NobodyIsStuck
<1> DEFINE Inv == IInv /\ Ledger /\ \A j \in Jobs : InTurn(j)
<1>1. Init => Inv
  <2>1. Init => \A j \in Jobs : InTurn(j)
    BY DEF Init, InTurn, Active
  <2> QED
    BY <2>1, InitIInv, InitLedger
<1>2. Inv /\ [Next]_vars => Inv'
  BY NextIInv, NextLedger, NextInTurn
<1>3. Inv => NobodyIsStuck
  BY NotStuck DEF NobodyIsStuck
<1> QED
  BY <1>1, <1>2, <1>3, PTL DEF Spec

\* How far an item is, and a worker.
ItemRank(s) ==
    IF s = "new" THEN 0 ELSE IF s = "started" THEN 1 ELSE IF s = "waiting" THEN 2
    ELSE IF s = "running" THEN 3 ELSE IF s = "storing" THEN 4 ELSE 5

WorkerRank(j) ==
    IF worker[j] = "none" THEN 0
    ELSE IF worker[j] = "created" THEN 1
    ELSE IF worker[j] = "collecting" THEN 2 * Len(results[j]) + 2
    ELSE IF worker[j] = "updating" THEN 2 * Len(results[j]) + 1
    ELSE 2 * Total[j] + 3

\* Nothing goes back, and something goes on.
Onward ==
    /\ \A j \in Jobs :
          /\ WorkerRank(j)' = WorkerRank(j) \/ WorkerRank(j) < WorkerRank(j)'
          /\ \A i \in Items(j) :
                \/ item'[j][i] = item[j][i]
                \/ ItemRank(item[j][i]) < ItemRank(item'[j][i])
    /\ \E j \in Jobs :
          \/ WorkerRank(j) < WorkerRank(j)'
          \/ \E i \in Items(j) : ItemRank(item[j][i]) < ItemRank(item'[j][i])

\* The worker's own steps take it on, and its items with it.
LEMMA WorkerOnward ==
    ASSUME Shape, NEW j \in Jobs, JobInv(j),
           CreateJob(j) \/ Work(j) \/ UpdateFails(j)
    PROVE  /\ WorkerRank(j) < WorkerRank(j)'
           /\ \A i \in Items(j) :
                 \/ item'[j][i] = item[j][i]
                 \/ ItemRank(item[j][i]) < ItemRank(item'[j][i])
<1>1. /\ results[j] \in Seq(Entries) /\ Len(results[j]) \in Nat
      /\ Total[j] \in Nat
  BY TotalType DEF JobInv, JobTypes
<1>2. CASE CreateJob(j)
  <2>1. worker[j] = "none" /\ worker'[j] = "created" /\ item' = item
    BY <1>2 DEF Shape, CreateJob
  <2> QED
    BY <2>1 DEF WorkerRank
<1>3. CASE LaunchJob(j)
  <2>1. /\ worker[j] = "created"
        /\ worker'[j] = IF Total[j] = 0 THEN "ended" ELSE "collecting"
        /\ results' = results
        /\ item'[j] = [i \in Items(j) |->
              IF j \in ZipJobs \/ i = 1 THEN "started" ELSE "new"]
    BY <1>3 DEF Shape, LaunchJob
  <2>2. WorkerRank(j) < WorkerRank(j)'
    BY <1>1, <2>1 DEF WorkerRank
  <2>3. \A i \in Items(j) : item[j][i] = "new"
    BY <2>1 DEF JobInv, Turns
  <2> QED
    BY <2>1, <2>2, <2>3 DEF ItemRank
<1>4. CASE Collect(j)
  <2>1. /\ worker[j] = "collecting" /\ worker'[j] = "updating" /\ item' = item
        /\ results'[j] = Append(results[j], EntryFor(j, Head(finished[j])))
    BY <1>4 DEF Shape, Collect
  <2>2. Len(results'[j]) = Len(results[j]) + 1
    BY <1>1, <2>1
  <2> QED
    BY <1>1, <2>1, <2>2 DEF WorkerRank
<1>5. CASE UpdateJob(j)
  <2>1. /\ worker[j] = "updating" /\ results' = results
        /\ Len(results[j]) =< Total[j]
    BY <1>5 DEF UpdateJob, JobInv, RowOf
  <2>2. CASE Len(results[j]) < Total[j]
    <3>1. /\ worker'[j] = "collecting"
          /\ item'[j] = [i \in Items(j) |->
                IF j \notin ZipJobs /\ i = Len(results[j]) + 1
                THEN "started" ELSE item[j][i]]
      BY <1>5, <2>2 DEF Shape, UpdateJob
    <3>2. \A i \in Items(j) : (j \notin ZipJobs /\ i = Len(results[j]) + 1) =>
             item[j][i] = "new"
      BY <1>1, <2>1 DEF JobInv, Turns, Items
    <3>3. WorkerRank(j) < WorkerRank(j)'
      BY <1>1, <2>1, <3>1 DEF WorkerRank
    <3> QED
      BY <3>1, <3>2, <3>3 DEF ItemRank
  <2>3. CASE ~ (Len(results[j]) < Total[j])
    <3>1. worker'[j] = "ended" /\ item' = item
      BY <1>5, <2>3 DEF Shape, UpdateJob
    <3> QED
      BY <1>1, <2>1, <3>1 DEF WorkerRank
  <2> QED
    BY <2>2, <2>3
<1>6. CASE UpdateFails(j)
  <2>1. worker[j] = "updating" /\ worker'[j] = "dead" /\ item' = item
    BY <1>6 DEF Shape, UpdateFails
  <2>2. Len(results[j]) =< Total[j]
    BY <2>1 DEF JobInv, RowOf
  <2> QED
    BY <1>1, <2>1, <2>2 DEF WorkerRank
<1> QED
  BY <1>2, <1>3, <1>4, <1>5, <1>6 DEF Work

\* A worker that does nothing keeps its rank.
LEMMA SameRank ==
    ASSUME NEW j \in Jobs, results'[j] = results[j], worker'[j] = worker[j]
    PROVE  WorkerRank(j)' = WorkerRank(j)
BY DEF WorkerRank

LEMMA ItemOnward ==
    ASSUME Shape, NEW j \in Jobs, JobInv(j), NEW i \in Items(j), RunItem(j, i)
    PROVE  /\ ItemRank(item[j][i]) < ItemRank(item'[j][i])
           /\ \A k \in Items(j) : k # i => item'[j][k] = item[j][k]
<1>1. item[j] \in [Items(j) -> ItemStates]
  BY DEF JobInv, JobTypes
<1>2. PICK s \in ItemStates :
         /\ item' = [item EXCEPT ![j][i] = s]
         /\ ItemRank(item[j][i]) < ItemRank(s)
  <2>1. CASE FinishEarly(j, i) \/ Store(j, i)
    BY <2>1 DEF FinishEarly, Store, Finish, ItemStates, ItemRank
  <2>2. CASE AwaitPermit(j, i)
    BY <2>2 DEF AwaitPermit, ItemStates, ItemRank
  <2>3. CASE Acquire(j, i)
    BY <2>3 DEF Acquire, ItemStates, ItemRank
  <2>4. CASE Release(j, i)
    BY <2>4 DEF Release, ItemStates, ItemRank
  <2> QED
    BY <2>1, <2>2, <2>3, <2>4 DEF RunItem
<1>3. item'[j] = [item[j] EXCEPT ![i] = s]
  BY <1>2 DEF Shape
<1> QED
  BY <1>1, <1>2, <1>3

LEMMA NextOnward == IInv /\ [Next]_vars => [Onward]_vars
<1> SUFFICES ASSUME IInv, Next PROVE Onward
  OBVIOUS
<1>0. Shape /\ \A j \in Jobs : JobInv(j)
  BY DEF IInv
<1>1. ASSUME NEW j \in Jobs,
             \/ CreateJob(j) \/ Work(j) \/ UpdateFails(j)
             \/ \E i \in Items(j) : RunItem(j, i)
      PROVE  Onward
  <2>1. ASSUME NEW k \in Jobs, k # j
        PROVE  WorkerRank(k)' = WorkerRank(k) /\ item'[k] = item[k]
    <3>1. /\ item'[k] = item[k] /\ results'[k] = results[k]
          /\ worker'[k] = worker[k]
      BY <1>0, <1>1, <2>1 DEF Shape, CreateJob, Work, LaunchJob, Collect, UpdateJob,
         UpdateFails, RunItem, FinishEarly, AwaitPermit, Acquire, Release, Store, Finish
    <3> QED
      BY <3>1, SameRank
  <2>2. CASE CreateJob(j) \/ Work(j) \/ UpdateFails(j)
    <3>1. /\ WorkerRank(j) < WorkerRank(j)'
          /\ \A i \in Items(j) :
                \/ item'[j][i] = item[j][i]
                \/ ItemRank(item[j][i]) < ItemRank(item'[j][i])
      BY <1>0, <2>2, WorkerOnward
    <3> QED
      BY <2>1, <3>1, Zenon DEF Onward
  <2>3. ASSUME NEW i \in Items(j), RunItem(j, i) PROVE Onward
    <3>1. /\ ItemRank(item[j][i]) < ItemRank(item'[j][i])
          /\ \A k \in Items(j) : k # i => item'[j][k] = item[j][k]
      BY <1>0, <2>3, ItemOnward
    <3>2. WorkerRank(j)' = WorkerRank(j)
      <4>1. UNCHANGED <<results, worker>>
        BY <2>3 DEF RunItem, FinishEarly, AwaitPermit, Acquire, Release, Store
      <4> QED
        BY <4>1, SameRank
    <3>3. ASSUME NEW k \in Jobs
          PROVE  /\ WorkerRank(k)' = WorkerRank(k)
                 /\ \A l \in Items(k) :
                       \/ item'[k][l] = item[k][l]
                       \/ ItemRank(item[k][l]) < ItemRank(item'[k][l])
      <4>1. CASE k = j
        BY <3>1, <3>2, <4>1
      <4>2. CASE k # j
        BY <2>1, <4>2
      <4> QED
        BY <4>1, <4>2
    <3> QED
      BY <3>1, <3>3, Zenon DEF Onward
  <2> QED
    BY <1>1, <2>2, <2>3
<1>2. CASE Crash
  <2>1. ASSUME NEW j \in Jobs
        PROVE  /\ WorkerRank(j)' = WorkerRank(j) \/ WorkerRank(j) < WorkerRank(j)'
               /\ Active(j) => WorkerRank(j) < WorkerRank(j)'
               /\ \A i \in Items(j) :
                     /\ \/ item'[j][i] = item[j][i]
                        \/ ItemRank(item[j][i]) < ItemRank(item'[j][i])
                     /\ item[j][i] \in InFlight =>
                           ItemRank(item[j][i]) < ItemRank(item'[j][i])
    <3>1. /\ worker'[j] = IF Active(j) THEN "dead" ELSE worker[j]
          /\ item'[j] = [i \in Items(j) |->
                IF item[j][i] \in InFlight THEN "gone" ELSE item[j][i]]
      BY <1>2 DEF Crash
    <3>2. /\ worker[j] \in WorkerStates
          /\ Len(results[j]) \in Nat /\ Total[j] \in Nat
          /\ worker[j] \in {"collecting", "updating"} => Len(results[j]) =< Total[j]
      BY <1>0, TotalType DEF JobInv, JobTypes, RowOf
    <3>3. CASE Active(j)
      <4>1. WorkerRank(j) < WorkerRank(j)'
        BY <3>1, <3>2, <3>3 DEF WorkerRank, Active
      <4> QED
        BY <3>1, <4>1 DEF InFlight, ItemRank
    <3>4. CASE ~ Active(j)
      <4>1. WorkerRank(j)' = WorkerRank(j)
        BY <3>1, <3>2, <3>4 DEF WorkerRank, Active
      <4> QED
        BY <3>1, <3>4, <4>1 DEF InFlight, ItemRank
    <3> QED
      BY <3>3, <3>4
  <2>2. PICK j \in Jobs : Active(j) \/ \E i \in Items(j) : item[j][i] \in InFlight
    BY <1>2 DEF Crash
  <2> QED
    BY <2>1, <2>2, Zenon DEF Onward
<1> QED
  BY <1>1, <1>2 DEF Next

\* No step of the server undoes another, and each takes a task or a worker on:
\* as an item has six ranks and the worker of n items has 2n + 4, the jobs come
\* to rest after a bounded number of steps, crashes included.
THEOREM JobsOnlyGoOn == Spec => [][Onward]_vars
BY NextOnward, InductiveInvariant, PTL DEF Spec

-----------------------------------------------------------------------------
(* The batch tab of a browser, which polls these jobs: BatchPage with the   *)
(* jobs above for its server.                                               *)

PageTypes ==
    /\ visits \in Nat
    /\ open \in BOOLEAN
    /\ open => visits \in Visits
    /\ crossed \in BOOLEAN
    /\ saved \in Jobs \cup {NoJob}
    /\ timer \in [Visits -> Jobs \cup {NoJob}]
    /\ DOMAIN polls = 1..MaxPolls
    /\ \A k \in 1..MaxPolls : polls[k] # NoPoll => polls[k].job \in Jobs

\* Only the component in view polls, and it polls the job in localStorage; a
\* job that is shown completed is no longer there.
Following == ~ crossed =>
    /\ \A v \in Visits : timer[v] # NoJob =>
          InView(v) /\ timer[v] = saved
    /\ (open /\ shown # Nothing /\ Finished(shown.job, shown.seen)) =>
          saved = NoJob
    /\ owed = IF saved = NoJob THEN {} ELSE {saved}

PageInv == PageTypes /\ Following

LEMMA PageInitInv == PageInit => PageInv
<1> SUFFICES ASSUME PageInit PROVE PageInv
  OBVIOUS
<1>1. PageTypes
  BY DEF PageInit, PageTypes
<1>2. Following
  BY DEF PageInit, Following
<1> QED
  BY <1>1, <1>2 DEF PageInv

LEMMA OpenStep ==
    ASSUME PageInv, Open
    PROVE  PageInv'
<1>1. /\ ~ open /\ open' = TRUE
      /\ visits' = visits + 1
      /\ visits < MaxVisits
      /\ shown' = Nothing
      /\ timer' = [timer EXCEPT ![visits + 1] = saved]
      /\ UNCHANGED <<saved, polls, owed, crossed>>
  BY DEF Open
<1>2. visits + 1 \in Visits
  BY <1>1, BoundsAssumption DEF PageInv, PageTypes, Visits
<1>3. PageTypes'
  BY <1>1, <1>2 DEF PageInv, PageTypes, Visits, NoPoll
<1>4. ASSUME ~ crossed
      PROVE  /\ \A v \in Visits : v # visits + 1 => timer'[v] = NoJob
             /\ timer'[visits + 1] = saved
  BY <1>1, <1>2, <1>4 DEF PageInv, PageTypes, Following, InView
<1>5. Following'
  BY <1>1, <1>4 DEF PageInv, Following, InView, Nothing, Visits
<1> QED
  BY <1>3, <1>5 DEF PageInv

\* The tab is left, the browser closed, or the list cleared: nothing is polled.
LEMMA StopStep ==
    ASSUME PageInv, Leave \/ CloseBrowser \/ HandleClear
    PROVE  PageInv'
<1>1. CASE Leave
  <2>1. /\ open /\ open' = FALSE
        /\ timer' = [timer EXCEPT ![visits] = NoJob]
        /\ UNCHANGED <<saved, visits, shown, polls, owed, crossed>>
    BY <1>1 DEF Leave, history
  <2>2. PageTypes'
    BY <2>1 DEF PageInv, PageTypes, Visits, NoPoll
  <2>3. ~ crossed => \A v \in Visits : timer'[v] = NoJob
    BY <2>1 DEF PageInv, PageTypes, Following, InView
  <2>4. Following'
    BY <2>1, <2>3 DEF PageInv, Following, Visits
  <2> QED
    BY <2>2, <2>4 DEF PageInv
<1>2. CASE CloseBrowser
  <2>1. /\ open' = FALSE
        /\ timer' = [v \in Visits |-> NoJob]
        /\ polls' = [k \in 1..MaxPolls |-> NoPoll]
        /\ UNCHANGED <<saved, visits, shown, owed, crossed>>
    BY <1>2 DEF CloseBrowser, history
  <2>2. PageTypes'
    BY <2>1 DEF PageInv, PageTypes, Visits, NoPoll
  <2>3. Following'
    BY <2>1 DEF PageInv, Following, Visits
  <2> QED
    BY <2>2, <2>3 DEF PageInv
<1>3. CASE HandleClear
  <2>1. /\ open /\ shown # Nothing
        /\ Finished(shown.job, shown.seen)
        /\ timer' = [timer EXCEPT ![visits] = NoJob]
        /\ shown' = Nothing
        /\ saved' = NoJob
        /\ UNCHANGED <<open, visits, polls, owed, crossed>>
    BY <1>3 DEF HandleClear, IsRunning, history
  <2>2. PageTypes'
    BY <2>1 DEF PageInv, PageTypes, Visits, NoPoll
  <2>3. ~ crossed => saved = NoJob
    BY <2>1 DEF PageInv, Following
  <2>4. ~ crossed => \A v \in Visits : timer'[v] = NoJob
    BY <2>1 DEF PageInv, PageTypes, Following, InView
  <2>5. Following'
    BY <2>1, <2>3, <2>4 DEF PageInv, Following, Visits, Nothing
  <2> QED
    BY <2>2, <2>5 DEF PageInv
<1> QED
  BY <1>1, <1>2, <1>3

\* The answer to a request: if nothing has crossed, the component that asked
\* is in view and was not following anything.
LEMMA CreatedStep ==
    ASSUME PageInv, NEW j \in Jobs, Created(j)
    PROVE  PageInv'
<1> DEFINE v == request[j].visit
<1>1. /\ saved' = j
      /\ timer' = [timer EXCEPT ![v] = j]
      /\ IF InView(v) THEN shown' = [job |-> j, seen |-> 0]
                           ELSE shown' = shown
      /\ crossed' = (crossed \/ ~ InView(v) \/ saved # NoJob)
      /\ owed' = owed \cup {j}
      /\ UNCHANGED <<visits, open, polls>>
  BY DEF Created
<1> HIDE DEF v
<1>2. crossed' \in BOOLEAN
  BY <1>1 DEF PageInv, PageTypes
<1>3. PageTypes'
  BY <1>1, <1>2 DEF PageInv, PageTypes, Visits, NoPoll
<1>4. ASSUME ~ crossed'
      PROVE  /\ ~ crossed /\ InView(v) /\ saved = NoJob
             /\ \A w \in Visits : w # v => timer'[w] = NoJob
             /\ owed' = {j}
             /\ shown' = [job |-> j, seen |-> 0]
  <2>1. ~ crossed /\ InView(v) /\ saved = NoJob
    BY <1>1, <1>4
  <2> QED
    BY <1>1, <2>1 DEF PageInv, PageTypes, Following, InView
<1>5. ASSUME ~ crossed'
      PROVE  /\ ~ Finished(shown'.job, shown'.seen)
             /\ owed' = {saved'} /\ saved' # NoJob
             /\ \A w \in Visits : timer'[w] # NoJob =>
                   InView(w)' /\ timer'[w] = saved'
  <2>1. \A w \in Visits : timer'[w] # NoJob => w = v /\ timer'[w] = j
    BY <1>1, <1>4, <1>5 DEF PageInv, PageTypes
  <2> QED
    BY <1>1, <1>4, <1>5, <2>1, NoJobAssumption DEF Finished, InView
<1>6. Following'
  BY <1>5 DEF Following, Visits, Finished
<1> QED
  BY <1>3, <1>6 DEF PageInv

LEMMA TickStep ==
    ASSUME PageInv, NEW v \in Visits, Tick(v)
    PROVE  PageInv'
<1>1. PICK k \in 1..MaxPolls :
         polls' = [polls EXCEPT ![k] =
            [visit |-> v, job |-> timer[v], from |-> row[timer[v]].completed]]
  BY DEF Tick
<1>2. /\ timer[v] \in Jobs
      /\ UNCHANGED <<saved, visits, open, shown, timer, owed, crossed>>
  BY DEF PageInv, PageTypes, Tick, history
<1>3. /\ DOMAIN polls' = 1..MaxPolls
      /\ \A l \in 1..MaxPolls : polls'[l] # NoPoll => polls'[l].job \in Jobs
  BY <1>1, <1>2 DEF PageInv, PageTypes
<1>4. PageTypes'
  BY <1>2, <1>3 DEF PageInv, PageTypes, Visits, NoPoll
<1>5. Following'
  BY <1>2 DEF PageInv, Following, Visits, InView, Nothing, Finished
<1> QED
  BY <1>4, <1>5 DEF PageInv

\* The answer to a poll: if nothing has crossed, it is about the job that is
\* followed, and whoever polls is in view.
LEMMA AnswerStep ==
    ASSUME PageInv, NEW k \in 1..MaxPolls, Answer(k)
    PROVE  PageInv'
<1> DEFINE v == polls[k].visit
           j == polls[k].job
<1>1. polls[k] # NoPoll /\ j \in Jobs
  BY DEF PageInv, PageTypes, Answer
<1>2. PICK n \in polls[k].from..row[j].completed :
         /\ shown' = IF InView(v) THEN [job |-> j, seen |-> n] ELSE shown
         /\ IF Finished(j, n)
            THEN /\ timer' = [timer EXCEPT ![v] = NoJob]
                 /\ polling' = (polling /\ ~ InView(v))
                 /\ saved' = NoJob
                 /\ owed' = IF InView(v) THEN owed \ {j} ELSE owed
            ELSE UNCHANGED <<timer, polling, saved, owed>>
         /\ crossed' = (crossed \/ IF InView(v) THEN timer[v] # j
                                                     ELSE Finished(j, n))
  BY Zenon DEF Answer
<1>3. /\ polls' = [polls EXCEPT ![k] = NoPoll]
      /\ UNCHANGED <<visits, open>>
  BY DEF Answer
<1>4. /\ DOMAIN polls' = 1..MaxPolls
      /\ \A l \in 1..MaxPolls : polls'[l] # NoPoll => polls'[l].job \in Jobs
  BY <1>3 DEF PageInv, PageTypes
<1> HIDE DEF v, j
<1>5. PageTypes'
  <2>1. crossed' \in BOOLEAN
    BY <1>2, Zenon DEF PageInv, PageTypes, InView, Finished
  <2>2. /\ saved' \in Jobs \cup {NoJob}
        /\ timer' \in [Visits -> Jobs \cup {NoJob}]
    BY <1>2 DEF PageInv, PageTypes
  <2> QED
    BY <1>3, <1>4, <2>1, <2>2 DEF PageInv, PageTypes, Visits, NoPoll
<1>6. ASSUME ~ crossed'
      PROVE  /\ \A w \in Visits : timer'[w] # NoJob =>
                   InView(w)' /\ timer'[w] = saved'
             /\ (open' /\ shown' # Nothing
                    /\ Finished(shown'.job, shown'.seen)) => saved' = NoJob
             /\ owed' = IF saved' = NoJob THEN {} ELSE {saved'}
  <2>1. ~ crossed
    BY <1>2, <1>6
  <2>2. /\ \A w \in Visits : timer[w] # NoJob =>
              InView(w) /\ timer[w] = saved
        /\ (open /\ shown # Nothing
               /\ Finished(shown.job, shown.seen)) => saved = NoJob
        /\ owed = IF saved = NoJob THEN {} ELSE {saved}
        /\ timer \in [Visits -> Jobs \cup {NoJob}]
        /\ open => visits \in Visits
    BY <2>1 DEF PageInv, PageTypes, Following
  <2>3. CASE InView(v)
    <3>1. timer[v] = j /\ v = visits /\ v \in Visits /\ j # NoJob
      BY <1>1, <1>2, <1>6, <2>2, <2>3, NoJobAssumption DEF InView
    <3>2. saved = j /\ owed = {j}
      BY <2>2, <3>1
    <3>3. \A w \in Visits : w # v => timer[w] = NoJob
      BY <2>2, <3>1 DEF InView
    <3>4. shown' = [job |-> j, seen |-> n]
      BY <1>2, <2>3
    <3>5. CASE Finished(j, n)
      <4>1. timer' = [timer EXCEPT ![v] = NoJob] /\ saved' = NoJob /\ owed' = {}
        BY <1>2, <2>3, <3>2, <3>5
      <4> QED
        BY <2>2, <3>1, <3>3, <4>1
    <3>6. CASE ~ Finished(j, n)
      <4>1. UNCHANGED <<timer, saved, owed>>
        BY <1>2, <3>6
      <4>2. ~ Finished(shown'.job, shown'.seen)
        BY <3>4, <3>6
      <4> QED
        BY <1>3, <2>2, <4>1, <4>2 DEF InView
    <3> QED
      BY <3>5, <3>6
  <2>4. CASE ~ InView(v)
    <3>1. UNCHANGED <<timer, saved, owed, shown>>
      BY <1>2, <1>6, <2>4
    <3> QED
      BY <1>3, <2>2, <3>1 DEF InView
  <2> QED
    BY <2>3, <2>4
<1>7. Following'
  BY <1>6 DEF Following, Visits, Finished, Nothing
<1> QED
  BY <1>5, <1>7 DEF PageInv

LEMMA PollFailsStep ==
    ASSUME PageInv, NEW k \in 1..MaxPolls, PollFails(k)
    PROVE  PageInv'
<1>1. /\ polls' = [polls EXCEPT ![k] = NoPoll]
      /\ timer' = [timer EXCEPT ![polls[k].visit] = NoJob]
      /\ UNCHANGED <<saved, visits, open, shown, owed, crossed>>
  BY DEF PollFails
<1>2. /\ DOMAIN polls' = 1..MaxPolls
      /\ \A l \in 1..MaxPolls : polls'[l] # NoPoll => polls'[l].job \in Jobs
  BY <1>1 DEF PageInv, PageTypes
<1>3. PageTypes'
  BY <1>1, <1>2 DEF PageInv, PageTypes, Visits, NoPoll
<1>4. \A w \in Visits : timer'[w] # NoJob => timer'[w] = timer[w]
  BY <1>1 DEF PageInv, PageTypes
<1>5. Following'
  BY <1>1, <1>4 DEF PageInv, Following, Visits, InView, Nothing, Finished
<1> QED
  BY <1>3, <1>5 DEF PageInv

\* A question, a refusal and a step of the server leave all this alone.
LEMMA PageSame ==
    ASSUME PageInv,
           UNCHANGED <<saved, visits, open, shown, timer, polls, owed, crossed>>
    PROVE  PageInv'
<1>1. PageTypes'
  BY DEF PageInv, PageTypes, Visits, NoPoll
<1>2. Following'
  BY DEF PageInv, Following, Visits, InView, Nothing, Finished
<1> QED
  BY <1>1, <1>2 DEF PageInv

LEMMA PageNextInv ==
    PageInv /\ [PageNext]_pageVars => PageInv'
<1> SUFFICES ASSUME PageInv, [PageNext]_pageVars PROVE PageInv'
  OBVIOUS
<1>1. CASE Open \/ Leave \/ CloseBrowser \/ HandleClear
  BY <1>1, OpenStep, StopStep
<1>2. ASSUME NEW j \in Jobs,
             \/ HandleSubmit(j) \/ HandleReanalyzeSelected(j)
             \/ Accept(j) \/ NotCreated(j)
      PROVE  PageInv'
  <2>1. UNCHANGED <<saved, visits, open, shown, timer, polls, owed, crossed>>
    BY <1>2 DEF HandleSubmit, HandleReanalyzeSelected, Ask,
                Accept, NotCreated, history
  <2> QED
    BY <2>1, PageSame
<1>3. ASSUME NEW j \in Jobs, Created(j) PROVE PageInv'
  BY <1>3, CreatedStep
<1>4. ASSUME NEW v \in Visits, Tick(v) PROVE PageInv'
  BY <1>4, TickStep
<1>5. ASSUME NEW k \in 1..MaxPolls, Answer(k) \/ PollFails(k)
      PROVE  PageInv'
  BY <1>5, AnswerStep, PollFailsStep
<1>6. CASE Progress \/ UNCHANGED pageVars
  <2>1. UNCHANGED <<saved, visits, open, shown, timer, polls, owed, crossed>>
    BY <1>6 DEF Progress, pageVars, browser, history
  <2> QED
    BY <2>1, PageSame
<1> QED
  BY <1>1, <1>2, <1>3, <1>4, <1>5, <1>6 DEF PageNext, Browse

\* "Silently resume an in-progress job from localStorage on mount": however
\* often the tab is opened and left, whatever is lost or fails, and however
\* many polls are under way, the job in localStorage is the one whose end the
\* user has not been shown, unless an answer has come to a component that had
\* moved on.
THEOREM UnfinishedStaysSaved ==
    PageSpec => []UnfinishedIsSaved
<1>1. PageInit => PageInv
  BY PageInitInv
<1>2. PageInv /\ [PageNext]_pageVars => PageInv'
  BY PageNextInv
<1>3. PageInv => UnfinishedIsSaved
  BY DEF PageInv, Following, UnfinishedIsSaved
<1> QED
  BY <1>1, <1>2, <1>3, PTL DEF PageSpec

-----------------------------------------------------------------------------
(* What the tab knows of its server.                                        *)

\* What a row says of itself, by the contract.
ServedRows ==
    /\ DOMAIN row = Jobs
    /\ \A j \in Jobs : row[j] # NoRow =>
          /\ row[j].total = Total[j]
          /\ row[j].completed \in 0..Total[j]
          /\ (row[j].completed > 0 /\ row[j].completed = Total[j]) =>
                row[j].status = "completed"

\* A row stays, and what was counted stays counted.
RowsGrow == \A j \in Jobs : row[j] # NoRow =>
    /\ row'[j] # NoRow
    /\ row[j].completed \in Nat
    /\ row'[j].completed \in Nat
    /\ row[j].completed =< row'[j].completed

LEMMA InitServedRows == PageInit => ServedRows
BY DEF PageInit, Server!Init, Server!NoRow, ServedRows, NoRow

LEMMA ServerStep == ServedRows /\ [PageNext]_pageVars => ServedRows' /\ RowsGrow
<1> SUFFICES ASSUME ServedRows, [PageNext]_pageVars PROVE ServedRows' /\ RowsGrow
  OBVIOUS
<1>1. CASE row' = row
  BY <1>1, TotalType DEF ServedRows, RowsGrow
<1>2. ASSUME NEW j \in Jobs, Accept(j) PROVE ServedRows' /\ RowsGrow
  <2>1. /\ row[j] = NoRow
        /\ row' = [row EXCEPT ![j] = [status |-> "pending", total |-> Total[j],
                                     completed |-> 0, results |-> <<>>]]
    BY <1>2 DEF Accept, Server!Create, Server!NoRow, NoRow
  <2>2. Total[j] \in Nat
    BY TotalType
  <2>3. ServedRows'
    BY <2>1, <2>2 DEF ServedRows
  <2>4. RowsGrow
    BY <2>1, TotalType DEF ServedRows, RowsGrow
  <2> QED
    BY <2>3, <2>4
<1>3. ASSUME NEW j \in Jobs, NEW e \in Results, Server!Progress(j, e)
      PROVE  ServedRows' /\ RowsGrow
  <2> DEFINE n == row[j].completed
             t == row[j].total
  <2>1. /\ row[j] # NoRow /\ n < t
        /\ row' = [row EXCEPT ![j] =
              [status |-> IF n + 1 < t THEN "running" ELSE "completed",
               total |-> t, completed |-> n + 1,
               results |-> Append(row[j].results, e)]]
    BY <1>3 DEF Server!Progress, Server!NoRow, NoRow
  <2>2. Total[j] \in Nat /\ t = Total[j] /\ n \in 0..Total[j]
    BY <2>1, TotalType DEF ServedRows
  <2> HIDE DEF n, t
  <2>3. /\ DOMAIN row' = Jobs
        /\ \A k \in Jobs : k # j => row'[k] = row[k]
        /\ row'[j].total = Total[j]
        /\ row'[j].completed = n + 1
        /\ row'[j].status = IF n + 1 < t THEN "running" ELSE "completed"
        /\ row'[j] # NoRow
    BY <2>1, <2>2 DEF ServedRows, NoRow
  <2>4. ServedRows'
    BY <2>1, <2>2, <2>3 DEF ServedRows
  <2>5. n = row[j].completed
    BY DEF n
  <2>6. RowsGrow
    BY <2>2, <2>3, <2>5, TotalType DEF ServedRows, RowsGrow
  <2> QED
    BY <2>4, <2>6
<1>4. row' = row \/ (\E j \in Jobs : Accept(j)) \/ Progress
  BY DEF PageNext, Browse, pageVars, Open, Leave, CloseBrowser, HandleClear,
     HandleSubmit, HandleReanalyzeSelected, Ask, NotCreated, Created, Tick,
     Answer, PollFails
<1> QED
  BY <1>1, <1>2, <1>3, <1>4 DEF Progress

Requests == [stage : {"none", "sent", "made", "over"}, visit : Nat]

\* What the tab knows of a job, the job's row bears out.
Known ==
    /\ request \in [Jobs -> Requests]
    /\ \A j \in Jobs : request[j].stage = "made" => row[j] # NoRow
    /\ saved # NoJob => row[saved] # NoRow
    /\ \A v \in Visits : timer[v] # NoJob => row[timer[v]] # NoRow
    /\ \A k \in 1..MaxPolls : polls[k] # NoPoll =>
          /\ row[polls[k].job] # NoRow
          /\ polls[k].from \in Nat
          /\ polls[k].from =< row[polls[k].job].completed
    /\ shown # Nothing =>
          /\ shown.job \in Jobs
          /\ row[shown.job] # NoRow
          /\ shown.seen \in Nat
          /\ shown.seen =< row[shown.job].completed

LEMMA InitKnown == PageInit => Known
BY DEF PageInit, Known, Requests, Visits, Nothing

\* The rows grow under a tab that does nothing, or whose request is granted.
LEMMA KnownAsRowsGrow ==
    ASSUME PageInv, Known, RowsGrow,
           UNCHANGED <<saved, timer, polls, shown>>,
           request' \in [Jobs -> Requests],
           \A j \in Jobs : request'[j].stage = "made" => row'[j] # NoRow
    PROVE  Known'
<1>1. \A j \in Jobs : row[j] # NoRow => row'[j] # NoRow
  BY DEF RowsGrow
<1>2. saved' # NoJob => row'[saved'] # NoRow
  BY <1>1 DEF PageInv, PageTypes, Known
<1>3. \A v \in Visits : timer'[v] # NoJob => row'[timer'[v]] # NoRow
  BY <1>1 DEF PageInv, PageTypes, Known
<1>4. \A k \in 1..MaxPolls : polls'[k] # NoPoll =>
         /\ row'[polls'[k].job] # NoRow
         /\ polls'[k].from \in Nat
         /\ polls'[k].from =< row'[polls'[k].job].completed
  BY DEF PageInv, PageTypes, Known, RowsGrow
<1>5. shown' # Nothing =>
          /\ shown'.job \in Jobs
          /\ row'[shown'.job] # NoRow
          /\ shown'.seen \in Nat
          /\ shown'.seen =< row'[shown'.job].completed
  BY DEF Known, RowsGrow
<1> QED
  BY <1>2, <1>3, <1>4, <1>5 DEF Known, Requests, Visits, NoPoll, Nothing

\* What is followed, asked for or shown after a step of the tab is what was
\* before, or what the tab has just been told.
LEMMA KnownAsTabMoves ==
    ASSUME PageInv, Known, RowsGrow,
           Browse, row' = row
    PROVE  Known'
<1>1. row' = row
  OBVIOUS
<1>2. /\ visits \in Nat
      /\ timer \in [Visits -> Jobs \cup {NoJob}]
      /\ DOMAIN polls = 1..MaxPolls
      /\ request \in [Jobs -> Requests]
      /\ \A k \in 1..MaxPolls : polls[k] # NoPoll => polls[k].job \in Jobs
  BY DEF PageInv, PageTypes, Known
<1>3. CASE Open \/ Leave \/ CloseBrowser \/ HandleClear
  <2>1. /\ saved' # NoJob => saved' = saved
        /\ shown' # Nothing => shown' = shown
        /\ \A v \in Visits : timer'[v] # NoJob =>
              timer'[v] = timer[v] \/ timer'[v] = saved
    BY <1>2, <1>3 DEF Open, Leave, CloseBrowser, HandleClear,
       history
  <2>2. \A k \in 1..MaxPolls : polls'[k] # NoPoll => polls'[k] = polls[k]
    BY <1>3 DEF Open, Leave, CloseBrowser, HandleClear
  <2>3. /\ request' \in [Jobs -> Requests]
        /\ \A j \in Jobs : request'[j].stage = "made" => request[j].stage = "made"
    <3>1. CASE CloseBrowser
      <4>1. request' = [j \in Jobs |->
               IF request[j].stage = "none" THEN request[j]
               ELSE [request[j] EXCEPT !.stage = "over"]]
        BY <3>1 DEF CloseBrowser
      <4> QED
        BY <1>2, <4>1 DEF Requests
    <3>2. CASE Open \/ Leave \/ HandleClear
      BY <1>2, <3>2 DEF Open, Leave, HandleClear
    <3> QED
      BY <1>3, <3>1, <3>2
  <2> QED
    BY <1>1, <2>1, <2>2, <2>3
       DEF Known, Requests, Visits, NoPoll, Nothing
<1>4. ASSUME NEW j \in Jobs,
             \/ HandleSubmit(j) \/ HandleReanalyzeSelected(j)
             \/ NotCreated(j)
      PROVE  Known'
  <2>1. UNCHANGED <<saved, timer, polls, shown>>
    BY <1>4 DEF HandleSubmit, HandleReanalyzeSelected, Ask,
       NotCreated
  <2>2. /\ request' \in [Jobs -> Requests]
        /\ \A i \in Jobs : request'[i].stage = "made" => request[i].stage = "made"
    <3>1. \/ request' = [request EXCEPT ![j] = [stage |-> "sent", visit |-> visits]]
          \/ request' = [request EXCEPT ![j].stage = "over"]
      BY <1>4 DEF HandleSubmit, HandleReanalyzeSelected, Ask,
         NotCreated
    <3>2. CASE request' = [request EXCEPT ![j] = [stage |-> "sent", visit |-> visits]]
      BY <1>2, <3>2 DEF Requests
    <3>3. CASE request' = [request EXCEPT ![j].stage = "over"]
      BY <1>2, <3>3 DEF Requests
    <3> QED
      BY <3>1, <3>2, <3>3
  <2> QED
    BY <1>1, <2>1, <2>2, KnownAsRowsGrow DEF Known
<1>5. ASSUME NEW j \in Jobs, Created(j) PROVE Known'
  <2>1. /\ request[j].stage = "made"
        /\ request' = [request EXCEPT ![j].stage = "over"]
        /\ saved' = j
        /\ timer' = [timer EXCEPT ![request[j].visit] = j]
        /\ shown' = [job |-> j, seen |-> 0] \/ shown' = shown
        /\ UNCHANGED polls
    BY <1>5 DEF Created
  <2>2. row[j] # NoRow /\ 0 =< row[j].completed
    BY <2>1 DEF Known, RowsGrow
  <2>3. /\ request' \in [Jobs -> Requests]
        /\ \A i \in Jobs : request'[i].stage = "made" => request[i].stage = "made"
    BY <1>2, <2>1 DEF Requests
  <2>4. \A v \in Visits : timer'[v] # NoJob =>
           timer'[v] = timer[v] \/ timer'[v] = j
    BY <1>2, <2>1
  <2>5. shown' # Nothing =>
           /\ shown'.job \in Jobs
           /\ row[shown'.job] # NoRow
           /\ shown'.seen \in Nat
           /\ shown'.seen =< row[shown'.job].completed
    BY <2>1, <2>2 DEF Known
  <2> QED
    BY <1>1, <2>1, <2>2, <2>3, <2>4, <2>5
       DEF Known, Requests, Visits, NoPoll, Nothing
<1>6. ASSUME NEW v \in Visits, Tick(v) PROVE Known'
  <2>1. /\ timer[v] \in Jobs
        /\ row[timer[v]] # NoRow
        /\ UNCHANGED <<saved, timer, shown, request>>
    BY <1>2, <1>6 DEF Tick, Known
  <2>2. row[timer[v]].completed \in Nat
    BY <2>1 DEF RowsGrow
  <2>3. PICK k \in 1..MaxPolls :
           polls' = [polls EXCEPT ![k] =
              [visit |-> v, job |-> timer[v], from |-> row[timer[v]].completed]]
    BY <1>6 DEF Tick
  <2>4. \A l \in 1..MaxPolls : polls'[l] # NoPoll =>
           /\ row[polls'[l].job] # NoRow
           /\ polls'[l].from \in Nat
           /\ polls'[l].from =< row[polls'[l].job].completed
    BY <1>2, <2>1, <2>2, <2>3 DEF Known
  <2> QED
    BY <1>1, <2>1, <2>4
       DEF Known, Requests, Visits, NoPoll, Nothing
<1>7. ASSUME NEW k \in 1..MaxPolls, Answer(k) \/ PollFails(k)
      PROVE  Known'
  <2>1. /\ polls[k] # NoPoll
        /\ polls' = [polls EXCEPT ![k] = NoPoll]
        /\ UNCHANGED request
    BY <1>7 DEF Answer, PollFails
  <2>2. /\ polls[k].job \in Jobs
        /\ row[polls[k].job] # NoRow
        /\ polls[k].from \in Nat
    BY <1>2, <2>1 DEF Known
  <2>3. \A l \in 1..MaxPolls : polls'[l] # NoPoll => polls'[l] = polls[l]
    BY <1>2, <2>1
  <2>4. /\ saved' # NoJob => saved' = saved
        /\ timer' = [timer EXCEPT ![polls[k].visit] = NoJob] \/ timer' = timer
        /\ \/ shown' = shown
           \/ \E n \in polls[k].from..row[polls[k].job].completed :
                 shown' = [job |-> polls[k].job, seen |-> n]
    <3>1. CASE Answer(k)
      <4>1. PICK n \in polls[k].from..row[polls[k].job].completed :
               /\ shown' = IF InView(polls[k].visit)
                           THEN [job |-> polls[k].job, seen |-> n] ELSE shown
               /\ IF Finished(polls[k].job, n)
                  THEN /\ timer' = [timer EXCEPT ![polls[k].visit] = NoJob]
                       /\ saved' = NoJob
                  ELSE UNCHANGED <<timer, saved>>
        BY <3>1, Zenon DEF Answer
      <4> QED
        BY <4>1
    <3>2. CASE PollFails(k)
      BY <3>2 DEF PollFails
    <3> QED
      BY <1>7, <3>1, <3>2
  <2>5. \A v \in Visits : timer'[v] # NoJob => timer'[v] = timer[v]
    BY <1>2, <2>4
  <2>6. shown' # Nothing =>
           /\ shown'.job \in Jobs
           /\ row[shown'.job] # NoRow
           /\ shown'.seen \in Nat
           /\ shown'.seen =< row[shown'.job].completed
    <3>1. row[polls[k].job].completed \in Nat
      BY <2>2 DEF RowsGrow
    <3>2. \A n \in polls[k].from..row[polls[k].job].completed :
             n \in Nat /\ n =< row[polls[k].job].completed
      BY <2>2, <3>1
    <3>3. CASE shown' = shown
      BY <3>3 DEF Known
    <3>4. CASE \E n \in polls[k].from..row[polls[k].job].completed :
                  shown' = [job |-> polls[k].job, seen |-> n]
      BY <2>2, <3>2, <3>4
    <3> QED
      BY <2>4, <3>3, <3>4
  <2> QED
    BY <1>1, <2>1, <2>3, <2>4, <2>5, <2>6
       DEF Known, Requests, Visits, NoPoll, Nothing
<1> QED
  BY <1>3, <1>4, <1>5, <1>6, <1>7 DEF Browse

LEMMA KnownAsTabAsks ==
    ASSUME PageInv, Known, RowsGrow, ServedRows', NEW j \in Jobs, Accept(j)
    PROVE  Known'
<1>1. /\ UNCHANGED <<saved, timer, polls, shown>>
      /\ request' = [request EXCEPT ![j].stage = "made"]
      /\ row' = [row EXCEPT ![j] = [status |-> "pending", total |-> Total[j],
                                   completed |-> 0, results |-> <<>>]]
  BY DEF Accept, Server!Create
<1>2. row'[j] # NoRow
  BY <1>1 DEF ServedRows, NoRow
<1>3. /\ request' \in [Jobs -> Requests]
      /\ \A i \in Jobs : request'[i].stage = "made" =>
            i = j \/ request[i].stage = "made"
  BY <1>1 DEF Known, Requests
<1>4. \A i \in Jobs : request'[i].stage = "made" => row'[i] # NoRow
  BY <1>2, <1>3 DEF Known, RowsGrow
<1> QED
  BY <1>1, <1>3, <1>4, KnownAsRowsGrow

\* As long as nothing has crossed and no poll has failed, the tab in view does
\* not run without an interval: it polls the job that is remembered, or waits
\* for nothing.
Polled ==
    (open /\ ~ failed /\ ~ crossed) =>
        IF saved = NoJob THEN ~ IsRunning ELSE timer[visits] = saved

TabInv == PageInv /\ ServedRows /\ Known /\ Polled

LEMMA PolledStep ==
    ASSUME PageInv, Polled, Browse
    PROVE  Polled'
<1> SUFFICES ASSUME open', ~ failed', ~ crossed'
             PROVE  IF saved' = NoJob THEN ~ IsRunning' ELSE timer'[visits'] = saved'
  BY DEF Polled
<1>1. /\ visits \in Nat /\ (open => visits \in Visits)
      /\ timer \in [Visits -> Jobs \cup {NoJob}]
  BY DEF PageInv, PageTypes
<1>2. CASE Open
  <2>1. /\ shown' = Nothing /\ polling' = (saved # NoJob)
        /\ timer' = [timer EXCEPT ![visits + 1] = saved]
        /\ visits' = visits + 1 /\ visits + 1 \in Visits
        /\ saved' = saved
    BY <1>1, <1>2, BoundsAssumption DEF Open, Visits
  <2> QED
    BY <1>1, <2>1 DEF IsRunning, Nothing
<1>3. CASE Leave \/ CloseBrowser
  BY <1>3 DEF Leave, CloseBrowser
<1>4. CASE HandleClear
  BY <1>4 DEF HandleClear, IsRunning, Nothing
<1>5. ASSUME NEW j \in Jobs,
             HandleSubmit(j) \/ HandleReanalyzeSelected(j) \/ NotCreated(j)
      PROVE  IF saved' = NoJob THEN ~ IsRunning' ELSE timer'[visits'] = saved'
  <2>1. UNCHANGED <<saved, visits, open, shown, polling, timer, crossed, failed>>
    BY <1>5 DEF HandleSubmit, HandleReanalyzeSelected, Ask, NotCreated, history
  <2> QED
    BY <2>1 DEF Polled, IsRunning, Nothing, Finished
<1>6. ASSUME NEW j \in Jobs, Created(j)
      PROVE  IF saved' = NoJob THEN ~ IsRunning' ELSE timer'[visits'] = saved'
  <2>1. /\ saved' = j /\ visits' = visits /\ open' = open
        /\ timer' = [timer EXCEPT ![request[j].visit] = j]
        /\ InView(request[j].visit)
    BY <1>6 DEF Created
  <2> QED
    BY <1>1, <1>6, <2>1, NoJobAssumption DEF InView
<1>7. ASSUME NEW v \in Visits, Tick(v)
      PROVE  IF saved' = NoJob THEN ~ IsRunning' ELSE timer'[visits'] = saved'
  <2>1. UNCHANGED <<saved, visits, open, shown, polling, timer, crossed, failed>>
    BY <1>7 DEF Tick, history
  <2> QED
    BY <2>1 DEF Polled, IsRunning, Nothing, Finished
<1>8. ASSUME NEW k \in 1..MaxPolls, Answer(k)
      PROVE  IF saved' = NoJob THEN ~ IsRunning' ELSE timer'[visits'] = saved'
  <2> DEFINE v == polls[k].visit
             j == polls[k].job
  <2>1. PICK n \in polls[k].from..row[j].completed :
           /\ shown' = IF InView(v) THEN [job |-> j, seen |-> n] ELSE shown
           /\ IF Finished(j, n)
              THEN /\ timer' = [timer EXCEPT ![v] = NoJob]
                   /\ polling' = (polling /\ ~ InView(v))
                   /\ saved' = NoJob
                   /\ owed' = IF InView(v) THEN owed \ {j} ELSE owed
              ELSE UNCHANGED <<timer, polling, saved, owed>>
           /\ crossed' = (crossed \/ IF InView(v) THEN timer[v] # j
                                                  ELSE Finished(j, n))
    BY <1>8, Zenon DEF Answer
  <2>2. j \in Jobs /\ UNCHANGED <<visits, open, failed>>
    BY <1>8 DEF PageInv, PageTypes, Answer
  <2> HIDE DEF v, j
  <2>3. CASE InView(v) /\ Finished(j, n)
    BY <2>1, <2>3 DEF IsRunning, Finished
  <2>4. CASE InView(v) /\ ~ Finished(j, n)
    <3>1. /\ UNCHANGED <<timer, saved>> /\ ~ crossed
          /\ timer[v] = j /\ v = visits /\ v \in Visits /\ j # NoJob
      BY <1>1, <2>1, <2>2, <2>4, NoJobAssumption DEF InView
    <3>2. saved = j
      BY <3>1 DEF PageInv, Following
    <3> QED
      BY <2>2, <3>1, <3>2
  <2>5. CASE ~ InView(v)
    <3>1. UNCHANGED <<timer, saved, shown, polling>> /\ ~ crossed
      BY <2>1, <2>5
    <3> QED
      BY <2>2, <3>1 DEF Polled, IsRunning, Nothing, Finished
  <2> QED
    BY <2>3, <2>4, <2>5
<1>9. ASSUME NEW k \in 1..MaxPolls, PollFails(k)
      PROVE  IF saved' = NoJob THEN ~ IsRunning' ELSE timer'[visits'] = saved'
  <2> DEFINE v == polls[k].visit
  <2>1. /\ timer' = [timer EXCEPT ![v] = NoJob]
        /\ polling' = (polling /\ ~ InView(v))
        /\ failed' = (failed \/ InView(v))
        /\ UNCHANGED <<saved, visits, open, shown, crossed>>
    BY <1>9 DEF PollFails
  <2> HIDE DEF v
  <2>2. v # visits /\ ~ failed
    BY <2>1 DEF InView
  <2>3. timer'[visits] = timer[visits]
    BY <1>1, <2>1, <2>2
  <2> QED
    BY <2>1, <2>2, <2>3 DEF Polled, IsRunning, Nothing, Finished
<1> QED
  BY <1>2, <1>3, <1>4, <1>5, <1>6, <1>7, <1>8, <1>9 DEF Browse

LEMMA TabNextInv == TabInv /\ [PageNext]_pageVars => TabInv'
<1> SUFFICES ASSUME TabInv, [PageNext]_pageVars PROVE TabInv'
  OBVIOUS
<1>1. PageInv' /\ ServedRows' /\ RowsGrow
  BY PageNextInv, ServerStep DEF TabInv
<1>2. CASE Browse
  <2>1. row' = row
    BY <1>2 DEF Browse, Open, Leave, CloseBrowser, HandleClear, HandleSubmit,
       HandleReanalyzeSelected, Ask, NotCreated, Created, Tick, Answer, PollFails
  <2> QED
    BY <1>1, <1>2, <2>1, KnownAsTabMoves, PolledStep DEF TabInv
<1>3. ASSUME NEW j \in Jobs, Accept(j) PROVE TabInv'
  <2>1. UNCHANGED <<saved, visits, open, shown, polling, timer, crossed, failed>>
    BY <1>3 DEF Accept, history
  <2>2. Polled'
    BY <2>1 DEF TabInv, Polled, IsRunning, Nothing, Finished
  <2> QED
    BY <1>1, <1>3, <2>2, KnownAsTabAsks DEF TabInv
<1>4. CASE Progress \/ UNCHANGED pageVars
  <2>1. UNCHANGED <<browser, history>>
    BY <1>4 DEF Progress, pageVars
  <2>2. Polled'
    BY <2>1 DEF browser, history, TabInv, Polled, IsRunning, Nothing, Finished
  <2>3. /\ UNCHANGED <<saved, timer, polls, shown>>
        /\ request' \in [Jobs -> Requests]
        /\ \A j \in Jobs : request'[j].stage = "made" => row'[j] # NoRow
    BY <1>1, <2>1 DEF browser, TabInv, Known, RowsGrow
  <2> QED
    BY <1>1, <2>2, <2>3, KnownAsRowsGrow DEF TabInv
<1> QED
  BY <1>2, <1>3, <1>4 DEF PageNext

LEMMA TabInitInv == PageInit => TabInv
<1> SUFFICES ASSUME PageInit PROVE TabInv
  OBVIOUS
<1>1. Polled
  BY DEF PageInit, Polled
<1> QED
  BY <1>1, PageInitInv, InitServedRows, InitKnown DEF TabInv

LEMMA TabInvHolds == PageInit /\ [][PageNext]_pageVars => []TabInv
BY TabInitInv, TabNextInv, PTL

-----------------------------------------------------------------------------
(* What CompletedIsShown needs of the steps.                                *)

\* The tab waits for a job that is completed, and nothing is in its way.
Awaited(j) ==
    /\ open /\ ~ failed /\ ~ crossed
    /\ saved = j
    /\ row[j].completed = Total[j]

\* What CompletedIsShown promises.
LetGo(j) == (j \notin owed /\ ~ IsRunning) \/ ~ open \/ failed \/ crossed

\* A poll that can only be answered with the end of the job.
IsLast(poll, j) == poll = [visit |-> visits, job |-> j, from |-> Total[j]]

\* The tab that waits has its interval, no other component has one, and
\* whatever poll is under way can be answered.
AwaitedIsPolled ==
    \A j \in Jobs : Awaited(j) =>
        /\ \A v \in Visits : timer[v] = IF v = visits THEN j ELSE NoJob
        /\ \A k \in 1..MaxPolls : polls[k] # NoPoll =>
              polls[k].from..row[polls[k].job].completed # {}

\* A place for a poll is taken by an older poll, free, or taken by one that
\* brings the end, and goes through this in this order: what is sent while the
\* tab waits brings the end, and when that is answered, or fails, the wait is
\* over.
EndComesNearer ==
    \A j \in Jobs : (Total[j] > 0 /\ Awaited(j)) =>
        \/ LetGo(j)'
        \/ /\ Awaited(j)'
           /\ \A k \in 1..MaxPolls :
                 \/ polls'[k] = polls[k]
                 \/ ~ IsLast(polls[k], j) /\ polls'[k] = NoPoll
                 \/ polls[k] = NoPoll /\ IsLast(polls'[k], j)

LEMMA WhileAwaited ==
    ASSUME TabInv, NEW j \in Jobs, Awaited(j)
    PROVE  /\ visits \in Visits /\ j # NoJob /\ row[j] # NoRow
           /\ \A v \in Visits : timer[v] = IF v = visits THEN j ELSE NoJob
           /\ shown # Nothing => ~ Finished(shown.job, shown.seen)
<1>1. open /\ ~ failed /\ ~ crossed /\ saved = j /\ j # NoJob
  BY NoJobAssumption DEF Awaited
<1>2. /\ visits \in Visits /\ timer[visits] = j
  BY <1>1 DEF TabInv, PageInv, PageTypes, Polled
<1>3. /\ \A v \in Visits : timer[v] # NoJob => v = visits
      /\ shown # Nothing => ~ Finished(shown.job, shown.seen)
  BY <1>1 DEF TabInv, PageInv, Following, InView
<1>4. row[j] # NoRow
  BY <1>1 DEF TabInv, Known
<1> QED
  BY <1>1, <1>2, <1>3, <1>4

\* A completed job that is remembered is polled in the tab in view, unless a
\* poll has failed or an answer has crossed, and every poll has an answer.
THEOREM CompletedIsPolled == PageSpec => []AwaitedIsPolled
<1>1. TabInv => AwaitedIsPolled
  <2> SUFFICES ASSUME TabInv, NEW j \in Jobs, Awaited(j)
               PROVE  /\ \A v \in Visits : timer[v] = IF v = visits THEN j ELSE NoJob
                      /\ \A k \in 1..MaxPolls : polls[k] # NoPoll =>
                            polls[k].from..row[polls[k].job].completed # {}
    BY DEF AwaitedIsPolled
  <2>1. ASSUME NEW k \in 1..MaxPolls, polls[k] # NoPoll
        PROVE  polls[k].from..row[polls[k].job].completed # {}
    <3>1. /\ polls[k].job \in Jobs /\ row[polls[k].job] # NoRow
          /\ polls[k].from \in Nat
          /\ polls[k].from =< row[polls[k].job].completed
      BY <2>1 DEF TabInv, PageInv, PageTypes, Known
    <3>2. row[polls[k].job].completed \in Nat
      BY <3>1, TotalType DEF TabInv, ServedRows
    <3>3. polls[k].from \in polls[k].from..row[polls[k].job].completed
      BY <3>1, <3>2
    <3> QED
      BY <3>3
  <2> QED
    BY <2>1, WhileAwaited
<1> QED
  BY <1>1, TabInvHolds, PTL DEF PageSpec

LEMMA AnswerNearer ==
    ASSUME TabInv, NEW j \in Jobs, Total[j] > 0, Awaited(j), ~ LetGo(j)',
           NEW k \in 1..MaxPolls, Answer(k)
    PROVE  Awaited(j)' /\ ~ IsLast(polls[k], j)
<1> DEFINE v == polls[k].visit
           i == polls[k].job
<1>1. PICK n \in polls[k].from..row[i].completed :
         /\ shown' = IF InView(v) THEN [job |-> i, seen |-> n] ELSE shown
         /\ IF Finished(i, n)
            THEN /\ timer' = [timer EXCEPT ![v] = NoJob]
                 /\ polling' = (polling /\ ~ InView(v))
                 /\ saved' = NoJob
                 /\ owed' = IF InView(v) THEN owed \ {i} ELSE owed
            ELSE UNCHANGED <<timer, polling, saved, owed>>
         /\ crossed' = (crossed \/ IF InView(v) THEN timer[v] # i
                                                ELSE Finished(i, n))
  BY Zenon DEF Answer
<1>2. /\ i \in Jobs /\ UNCHANGED <<row, visits, open, failed>>
      /\ polls[k].from \in Nat
      /\ IsLast(polls[k], j) => v = visits /\ i = j /\ polls[k].from = Total[j]
  BY DEF TabInv, PageInv, PageTypes, Known, Answer, IsLast
<1>3. /\ open /\ ~ crossed' /\ ~ failed'
      /\ j \notin owed' => IsRunning'
      /\ visits \in Visits /\ timer[visits] = j /\ Total[j] \in Nat
      /\ saved = j /\ row[j].completed = Total[j]
  BY WhileAwaited, TotalType DEF LetGo, Awaited
<1> HIDE DEF v, i
<1>4. InView(v) => i = j
  BY <1>1, <1>3 DEF InView
<1>5. ~ Finished(i, n)
  <2> SUFFICES ASSUME Finished(i, n) PROVE FALSE
    OBVIOUS
  <2>1. InView(v) /\ i = j
    BY <1>1, <1>3, <1>4
  <2>2. j \notin owed' /\ ~ polling' /\ shown' = [job |-> j, seen |-> n]
    BY <1>1, <2>1
  <2> QED
    BY <1>3, <2>1, <2>2 DEF IsRunning, Finished
<1>6. Awaited(j)'
  BY <1>1, <1>2, <1>3, <1>5 DEF Awaited
<1>7. ~ IsLast(polls[k], j)
  <2> SUFFICES ASSUME IsLast(polls[k], j) PROVE FALSE
    OBVIOUS
  <2>1. i = j /\ n \in Total[j]..Total[j]
    BY <1>1, <1>2, <1>3
  <2> QED
    BY <1>3, <1>5, <2>1 DEF Finished
<1> QED
  BY <1>6, <1>7

LEMMA NextNearer == TabInv /\ [PageNext]_pageVars => [EndComesNearer]_pageVars
<1> SUFFICES ASSUME TabInv, PageNext, NEW j \in Jobs, Total[j] > 0, Awaited(j),
                    ~ LetGo(j)'
             PROVE  /\ Awaited(j)'
                    /\ \A k \in 1..MaxPolls :
                          \/ polls'[k] = polls[k]
                          \/ ~ IsLast(polls[k], j) /\ polls'[k] = NoPoll
                          \/ polls[k] = NoPoll /\ IsLast(polls'[k], j)
  BY DEF EndComesNearer
<1>1. /\ open /\ open' /\ ~ failed' /\ ~ crossed' /\ saved = j
      /\ row[j].completed = Total[j]
  BY DEF Awaited, LetGo
<1>2. /\ visits \in Visits /\ j # NoJob /\ row[j] # NoRow
      /\ \A v \in Visits : timer[v] = IF v = visits THEN j ELSE NoJob
      /\ shown # Nothing => ~ Finished(shown.job, shown.seen)
  BY WhileAwaited
<1>3. DOMAIN polls = 1..MaxPolls
  BY DEF TabInv, PageInv, PageTypes
<1>4. CASE Open \/ Leave \/ CloseBrowser \/ HandleClear
  BY <1>1, <1>2, <1>4 DEF Open, Leave, CloseBrowser, HandleClear, IsRunning
<1>5. ASSUME NEW i \in Jobs, Created(i) PROVE FALSE
  BY <1>1, <1>2, <1>5 DEF Created
<1>6. CASE /\ UNCHANGED <<saved, polls>>
           /\ row'[j] = row[j]
  BY <1>1, <1>6 DEF Awaited
<1>7. ASSUME NEW i \in Jobs,
             HandleSubmit(i) \/ HandleReanalyzeSelected(i) \/ NotCreated(i)
      PROVE  UNCHANGED <<saved, polls, row>>
  BY <1>7 DEF HandleSubmit, HandleReanalyzeSelected, Ask, NotCreated
<1>8. ASSUME NEW i \in Jobs, Accept(i)
      PROVE  UNCHANGED <<saved, polls>> /\ row'[j] = row[j]
  <2>1. i # j
    BY <1>2, <1>8 DEF Accept, Server!Create, Server!NoRow, NoRow
  <2> QED
    BY <1>8, <2>1 DEF Accept, Server!Create
<1>9. CASE Progress
  <2>1. PICK i \in Jobs, e \in Results : Server!Progress(i, e)
    BY <1>9 DEF Progress
  <2>2. i # j
    BY <1>1, <1>2, <2>1, TotalType DEF Server!Progress, TabInv, ServedRows
  <2>3. row'[j] = row[j]
    BY <2>1, <2>2 DEF Server!Progress
  <2> QED
    BY <1>6, <1>9, <2>3 DEF Progress, browser
<1>10. ASSUME NEW v \in Visits, Tick(v)
       PROVE  /\ Awaited(j)'
              /\ \A k \in 1..MaxPolls :
                    \/ polls'[k] = polls[k]
                    \/ polls[k] = NoPoll /\ IsLast(polls'[k], j)
  <2>1. v = visits /\ timer[v] = j /\ UNCHANGED <<saved, row>>
    BY <1>2, <1>10 DEF Tick
  <2>2. PICK k \in 1..MaxPolls :
           /\ polls[k] = NoPoll
           /\ polls' = [polls EXCEPT ![k] =
                 [visit |-> v, job |-> timer[v], from |-> row[timer[v]].completed]]
    BY <1>10 DEF Tick
  <2>3. IsLast(polls'[k], j)
    BY <1>1, <1>3, <2>1, <2>2 DEF IsLast
  <2> QED
    BY <1>1, <1>3, <2>1, <2>2, <2>3 DEF Awaited
<1>11. ASSUME NEW k \in 1..MaxPolls, Answer(k) \/ PollFails(k)
       PROVE  /\ Awaited(j)'
              /\ \A l \in 1..MaxPolls :
                    \/ polls'[l] = polls[l]
                    \/ ~ IsLast(polls[l], j) /\ polls'[l] = NoPoll
  <2>1. polls' = [polls EXCEPT ![k] = NoPoll]
    BY <1>11 DEF Answer, PollFails
  <2>2. CASE PollFails(k)
    <3>1. /\ ~ InView(polls[k].visit)
          /\ UNCHANGED <<saved, row, open>>
      BY <1>1, <2>2 DEF PollFails
    <3>2. ~ IsLast(polls[k], j)
      BY <1>1, <3>1 DEF IsLast, InView
    <3> QED
      BY <1>1, <1>3, <2>1, <3>1, <3>2 DEF Awaited
  <2> QED
    BY <1>3, <1>11, <2>1, <2>2, AnswerNearer
<1> QED
  BY <1>4, <1>5, <1>6, <1>7, <1>8, <1>9, <1>10, <1>11 DEF PageNext, Browse

\* Once the tab waits for a job that is completed, no step sets it back: it
\* waits on, each of its polls under way or to come closer to bringing the
\* end, or it shows the end, unless it is left, a poll fails or an answer
\* crosses.
THEOREM CompletedComesNearer == PageSpec => [][EndComesNearer]_pageVars
BY TabInvHolds, NextNearer, PTL DEF PageSpec

-----------------------------------------------------------------------------
(* The two together: the server makes a job when a request for it arrives,  *)
(* and gets on with its jobs, or crashes, while the tab does what it does.  *)

\* A step of the system is a step of the jobs, and one of the tab.
LEMMA SystemStepOfJobs == [SystemNext]_<<vars, tab>> => [Next]_vars
<1> SUFFICES ASSUME SystemNext \/ UNCHANGED <<vars, tab>> PROVE [Next]_vars
  OBVIOUS
<1>1. ASSUME NEW j \in Jobs, Creates(j) PROVE Next
  BY <1>1 DEF Creates, Next
<1>2. CASE Serves
  BY <1>2 DEF Serves, Next
<1>3. CASE Browses \/ UNCHANGED <<vars, tab>>
  BY <1>3 DEF Browses
<1> QED
  BY <1>1, <1>2, <1>3 DEF SystemNext

LEMMA SystemStepOfPage ==
    ASSUME Results = Entries
    PROVE  IInv /\ [SystemNext]_<<vars, tab>> => [PageNext]_pageVars
<1> SUFFICES ASSUME IInv, SystemNext \/ UNCHANGED <<vars, tab>>
             PROVE  PageNext \/ UNCHANGED pageVars
  OBVIOUS
<1>1. ASSUME NEW j \in Jobs, Creates(j) PROVE PageNext
  BY <1>1 DEF Creates, PageNext
<1>2. CASE Serves
  <2>1. UNCHANGED <<browser, history>>
    BY <1>2 DEF Serves, tab, browser, history
  <2>2. ASSUME NEW j \in Jobs, UpdateJob(j) PROVE Progress
    <3>1. PICK e \in Entries : Contract!Progress(j, e)
      BY <2>2, UpdateIsProgress
    <3>2. Server!Progress(j, e)
      BY <3>1 DEF Contract!Progress, Server!Progress,
                  Contract!NoRow, Server!NoRow
    <3> QED
      BY <2>1, <3>2 DEF Progress
  <2>3. ASSUME \A j \in Jobs : ~ UpdateJob(j) PROVE UNCHANGED pageVars
    <3>1. row' = row
      BY <1>2, <2>3 DEF Serves, Work, LaunchJob, Collect, UpdateFails, RunItem,
         FinishEarly, AwaitPermit, Acquire, Release, Store, Crash
    <3> QED
      BY <2>1, <3>1 DEF pageVars
  <2> QED
    BY <2>2, <2>3 DEF PageNext
<1>3. CASE Browses
  BY <1>3 DEF Browses, PageNext
<1>4. CASE UNCHANGED <<vars, tab>>
  BY <1>4 DEF vars, tab, pageVars, browser, history
<1> QED
  BY <1>1, <1>2, <1>3, <1>4 DEF SystemNext

\* The jobs in the system are those of BatchJob.
SystemInv == IInv /\ Ledger /\ TabInv

LEMMA SystemInitInv == SystemInit => SystemInv
BY InitIInv, InitLedger, TabInitInv DEF SystemInit, SystemInv

LEMMA SystemNextInv ==
    ASSUME Results = Entries
    PROVE  SystemInv /\ [SystemNext]_<<vars, tab>> => SystemInv'
<1> SUFFICES ASSUME SystemInv, [SystemNext]_<<vars, tab>> PROVE SystemInv'
  OBVIOUS
<1>1. [Next]_vars /\ [PageNext]_pageVars
  BY SystemStepOfJobs, SystemStepOfPage DEF SystemInv
<1> QED
  BY <1>1, NextIInv, NextLedger, TabNextInv DEF SystemInv

LEMMA SystemInvHolds ==
    ASSUME Results = Entries
    PROVE  SystemSpec => []SystemInv
BY SystemInitInv, SystemNextInv, PTL DEF SystemSpec

\* In front of the server as it is, the tab's server keeps its contract: the
\* whole system behaves as BatchPage says.
THEOREM SystemImplementsPage ==
    ASSUME Results = Entries
    PROVE  SystemSpec => PageInit /\ [][PageNext]_pageVars
<1>1. SystemInit => PageInit
  BY DEF SystemInit
<1>2. SystemInv => IInv
  BY DEF SystemInv
<1> QED
  BY <1>1, <1>2, SystemInvHolds, SystemStepOfPage, PTL DEF SystemSpec

\* A job the browser shows as completed is complete on the server.
THEOREM ShownComplete ==
    ASSUME Results = Entries
    PROVE  SystemSpec => []ShownIsComplete
<1>1. SystemInv => ShownIsComplete
  <2> SUFFICES ASSUME SystemInv, shown # Nothing,
                      Finished(shown.job, shown.seen)
               PROVE  /\ \A i \in Items(shown.job) :
                            item[shown.job][i] \in {"ok", "error"}
                      /\ Cardinality({k \in 1..shown.seen :
                                         row[shown.job].results[k].outcome = "ok"})
                           = Cardinality(OkItems(shown.job))
    BY DEF ShownIsComplete, OkItems
  <2> DEFINE j == shown.job
  <2>1. /\ j \in Jobs /\ row[j] # NoRow
        /\ shown.seen \in Nat /\ shown.seen > 0 /\ shown.seen = Total[j]
        /\ shown.seen =< row[j].completed
    BY DEF SystemInv, TabInv, Known, Finished
  <2>2. /\ row[j] \in Rows /\ row[j].completed = Len(row[j].results)
    BY <2>1 DEF SystemInv, IInv, JobInv, RowOf
  <2>3. row[j].completed = shown.seen /\ Completed(j)
    BY <2>1, <2>2 DEF SystemInv, TabInv, ServedRows, Completed, Rows
  <2>4. /\ Settled(j) = Items(j)
        /\ Cardinality(OkEntries(row[j].results)) = Cardinality(OkItems(j))
    BY <2>1, <2>3 DEF SystemInv, Ledger, Final
  <2>5. OkEntries(row[j].results)
           = {k \in 1..shown.seen : row[j].results[k].outcome = "ok"}
    BY <2>2, <2>3 DEF OkEntries
  <2>6. \A i \in Items(j) : i \in Settled(j)
    BY <2>4
  <2> QED
    BY <2>4, <2>5, <2>6 DEF Settled
<1> QED
  BY <1>1, SystemInvHolds, PTL

=============================================================================
