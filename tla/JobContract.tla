------------------------------ MODULE JobContract ------------------------------
(***************************************************************************)
(* What GET /jobs/{id} promises whoever polls it, however the job is done: *)
(* the row of a job appears as "pending" and empty; every change adds the  *)
(* result of one more item; it is "running" until the last item is in and  *)
(* "completed" from then on.  A job may stop making progress at any time,  *)
(* and a job without items never leaves "pending".                         *)
(***************************************************************************)
EXTENDS JobRow, Naturals, Sequences

CONSTANT Entries    \* what the results of a job are made of

Rows == [status : {"pending", "running", "completed"}, total : Nat,
         completed : Nat, results : Seq(Entries)]

Init == row = [j \in Jobs |-> NoRow]

Create(j) ==
    /\ row[j] = NoRow
    /\ row' = [row EXCEPT ![j] =
          [status |-> "pending", total |-> Total[j], completed |-> 0,
           results |-> <<>>]]

Progress(j, e) ==
    /\ row[j] # NoRow
    /\ row[j].completed < row[j].total
    /\ row' = [row EXCEPT ![j] =
          [status    |-> IF @.completed + 1 < @.total THEN "running" ELSE "completed",
           total     |-> @.total,
           completed |-> @.completed + 1,
           results   |-> Append(@.results, e)]]

Next == \E j \in Jobs :
    \/ Create(j)
    \/ \E e \in Entries : Progress(j, e)

Spec == Init /\ [][Next]_row

=============================================================================
