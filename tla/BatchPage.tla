------------------------------- MODULE BatchPage -------------------------------
(***************************************************************************)
(* The batch tab of one browser (frontend/sentinel-ui/src/components/      *)
(* BatchUpload.tsx) and the server it polls, of which it knows no more     *)
(* than JobContract.  The tab may be left and opened again, which makes a  *)
(* new component; what the old one has under way comes back to it all the  *)
(* same.  The id of the job that is followed is kept in localStorage.      *)
(*                                                                         *)
(* As a job's results only grow, what a client has seen of a job is how    *)
(* many of them it has seen.                                               *)
(***************************************************************************)
EXTENDS JobRow, Naturals, Sequences

CONSTANTS
    Results,                 \* what the results of a job are made of
    Selectable,              \* the results that can be selected for re-analysis
    NoJob,
    MaxVisits,               \* how often the tab is opened
    MaxPolls                 \* how many polls may be under way at once

ASSUME SelectableAssumption == Selectable \subseteq Results
ASSUME NoJobAssumption == NoJob \notin Jobs
ASSUME BoundsAssumption == MaxVisits \in Nat /\ MaxPolls \in Nat \ {0}

VARIABLES
    saved,      \* the job in localStorage, or NoJob
    visits,     \* how often the tab has been opened; the last one is in view
    open,
    shown,      \* job: the job in view and how many results of it, or Nothing
    polling,
    timer,      \* intervalRef, of every visit: the job it polls, or NoJob
    polls,      \* the polls under way
    request,    \* for every job, the request that asks for it
    owed,       \* history: jobs the browser was told of and whose end it has
                \* not shown
    crossed,    \* history: an answer has come to a component that had moved on
    failed      \* history: a poll of this visit has met a network error

browser == <<saved, visits, open, shown, polling, timer, polls, request>>
history == <<owed, crossed, failed>>
pageVars == <<row, browser, history>>

Visits  == 1..MaxVisits
Nothing == [job |-> NoJob, seen |-> 0]
NoPoll  == [visit |-> 0, job |-> NoJob, from |-> 0]

Server == INSTANCE JobContract WITH Entries <- Results

PageInit ==
    /\ Server!Init
    /\ saved = NoJob
    /\ visits = 0
    /\ open = FALSE
    /\ shown = Nothing
    /\ polling = FALSE
    /\ timer = [v \in Visits |-> NoJob]
    /\ polls = [k \in 1..MaxPolls |-> NoPoll]
    /\ request = [j \in Jobs |-> [stage |-> "none", visit |-> 0]]
    /\ owed = {}
    /\ crossed = FALSE
    /\ failed = FALSE

\* Whether the component of this visit is the one in view.  What the others
\* set is lost, except localStorage and their own intervals.
InView(v) == open /\ v = visits

\* status "completed"; the server never says "failed".
Finished(job, seen) == seen > 0 /\ seen = Total[job]

IsRunning == polling \/ (shown # Nothing /\ ~ Finished(shown.job, shown.seen))

-----------------------------------------------------------------------------
(* The tab.                                                                 *)

\* Faulty: the job in localStorage is not looked up on mount.
OpenWithoutResuming ==
    /\ ~ open
    /\ visits < MaxVisits
    /\ visits' = visits + 1
    /\ open' = TRUE
    /\ shown' = Nothing
    /\ polling' = FALSE
    /\ failed' = FALSE
    /\ UNCHANGED <<row, saved, timer, polls, request, owed, crossed>>

\* On mount the job in localStorage is polled again.
Open ==
    /\ ~ open
    /\ visits < MaxVisits
    /\ visits' = visits + 1
    /\ open' = TRUE
    /\ shown' = Nothing
    /\ timer' = [timer EXCEPT ![visits + 1] = saved]
    /\ polling' = (saved # NoJob)
    /\ failed' = FALSE
    /\ UNCHANGED <<row, saved, polls, request, owed, crossed>>

\* On unmount.
Leave ==
    /\ open
    /\ open' = FALSE
    /\ timer' = [timer EXCEPT ![visits] = NoJob]
    /\ UNCHANGED <<row, saved, visits, shown, polling, polls, request, history>>

\* The browser is closed, or the site loaded again.
CloseBrowser ==
    /\ open' = FALSE
    /\ timer' = [v \in Visits |-> NoJob]
    /\ polls' = [k \in 1..MaxPolls |-> NoPoll]
    /\ request' = [j \in Jobs |->
          IF request[j].stage = "none" THEN request[j]
                                       ELSE [request[j] EXCEPT !.stage = "over"]]
    /\ UNCHANGED <<row, saved, visits, shown, polling, history>>

\* "New Batch".
HandleClear ==
    /\ open
    /\ shown # Nothing
    /\ ~ IsRunning
    /\ timer' = [timer EXCEPT ![visits] = NoJob]
    /\ polling' = FALSE
    /\ shown' = Nothing
    /\ saved' = NoJob
    /\ UNCHANGED <<row, visits, open, polls, request, history>>

-----------------------------------------------------------------------------
(* Asking for a job.                                                        *)

Ask(j) ==
    /\ request[j].stage = "none"
    /\ request' = [request EXCEPT ![j] = [stage |-> "sent", visit |-> visits]]
    /\ UNCHANGED <<row, saved, visits, open, shown, polling, timer, polls, history>>

\* A ZIP is dropped.
HandleSubmit(j) ==
    /\ open
    /\ shown = Nothing
    /\ ~ polling
    /\ Ask(j)

\* Rows of a completed job have been selected.
HandleReanalyzeSelected(j) ==
    /\ open
    /\ shown # Nothing
    /\ ~ IsRunning
    /\ \E i \in 1..shown.seen : row[shown.job].results[i] \in Selectable
    /\ Ask(j)

\* The server makes the job.
Accept(j) ==
    /\ request[j].stage = "sent"
    /\ Server!Create(j)
    /\ request' = [request EXCEPT ![j].stage = "made"]
    /\ UNCHANGED <<saved, visits, open, shown, polling, timer, polls, history>>

\* A refusal, or a network error: the page shows it.
NotCreated(j) ==
    /\ request[j].stage \in {"sent", "made"}
    /\ request' = [request EXCEPT ![j].stage = "over"]
    /\ UNCHANGED <<row, saved, visits, open, shown, polling, timer, polls, history>>

\* The answer: the job is remembered, shown, and polled.
Created(j) ==
    /\ request[j].stage = "made"
    /\ request' = [request EXCEPT ![j].stage = "over"]
    /\ LET v == request[j].visit
       IN  /\ saved' = j
           /\ timer' = [timer EXCEPT ![v] = j]
           /\ IF InView(v)
              THEN /\ shown' = [job |-> j, seen |-> 0]
                   /\ polling' = TRUE
              ELSE UNCHANGED <<shown, polling>>
           /\ crossed' = (crossed \/ ~ InView(v) \/ saved # NoJob)
    /\ owed' = owed \cup {j}
    /\ UNCHANGED <<row, visits, open, polls, failed>>

-----------------------------------------------------------------------------
(* Polling.                                                                 *)

\* Every three seconds, whether or not the last poll has been answered.  An
\* answer that is not ok is as if the poll had not been made.
Tick(v) ==
    /\ timer[v] # NoJob
    /\ \E k \in 1..MaxPolls :
          /\ polls[k] = NoPoll
          /\ \A l \in 1..k - 1 : polls[l] # NoPoll
          /\ polls' = [polls EXCEPT ![k] =
                [visit |-> v, job |-> timer[v], from |-> row[timer[v]].completed]]
    /\ UNCHANGED <<row, saved, visits, open, shown, polling, timer, request, history>>

\* Faulty: a completed job stays in localStorage, to be resumed once more.
AnswerKeepingSaved(k) ==
    /\ polls[k] # NoPoll
    /\ polls' = [polls EXCEPT ![k] = NoPoll]
    /\ LET v == polls[k].visit
           j == polls[k].job
       IN  \E n \in polls[k].from..row[j].completed :
              /\ shown' = IF InView(v) THEN [job |-> j, seen |-> n] ELSE shown
              /\ IF Finished(j, n)
                 THEN /\ timer' = [timer EXCEPT ![v] = NoJob]
                      /\ polling' = (polling /\ ~ InView(v))
                      /\ saved' = saved
                      /\ owed' = IF InView(v) THEN owed \ {j} ELSE owed
                 ELSE UNCHANGED <<timer, polling, saved, owed>>
              /\ crossed' = (crossed \/ IF InView(v) THEN timer[v] # j
                                                     ELSE Finished(j, n))
    /\ UNCHANGED <<row, visits, open, request, failed>>

\* Poll k is answered with what the row was at some moment since it was sent.
Answer(k) ==
    /\ polls[k] # NoPoll
    /\ polls' = [polls EXCEPT ![k] = NoPoll]
    /\ LET v == polls[k].visit
           j == polls[k].job
       IN  \E n \in polls[k].from..row[j].completed :
              /\ shown' = IF InView(v) THEN [job |-> j, seen |-> n] ELSE shown
              /\ IF Finished(j, n)
                 THEN /\ timer' = [timer EXCEPT ![v] = NoJob]
                      /\ polling' = (polling /\ ~ InView(v))
                      /\ saved' = NoJob
                      /\ owed' = IF InView(v) THEN owed \ {j} ELSE owed
                 ELSE UNCHANGED <<timer, polling, saved, owed>>
              /\ crossed' = (crossed \/ IF InView(v) THEN timer[v] # j
                                                     ELSE Finished(j, n))
    /\ UNCHANGED <<row, visits, open, request, failed>>

\* Poll k meets a network error: polling ends, the job stays remembered.
PollFails(k) ==
    /\ polls[k] # NoPoll
    /\ polls' = [polls EXCEPT ![k] = NoPoll]
    /\ LET v == polls[k].visit
       IN  /\ timer' = [timer EXCEPT ![v] = NoJob]
           /\ polling' = (polling /\ ~ InView(v))
           /\ failed' = (failed \/ InView(v))
    /\ UNCHANGED <<row, saved, visits, open, shown, request, owed, crossed>>

\* The server gets on with a job, or does not.
Progress ==
    /\ \E j \in Jobs, e \in Results : Server!Progress(j, e)
    /\ UNCHANGED <<browser, history>>

-----------------------------------------------------------------------------
\* What happens in the browser.
Browse ==
    \/ Open \/ Leave \/ CloseBrowser \/ HandleClear
    \/ \E j \in Jobs :
          HandleSubmit(j) \/ HandleReanalyzeSelected(j) \/ NotCreated(j) \/ Created(j)
    \/ \E v \in Visits : Tick(v)
    \/ \E k \in 1..MaxPolls : Answer(k) \/ PollFails(k)

PageNext == Browse \/ (\E j \in Jobs : Accept(j)) \/ Progress

\* Intervals go off, and a poll is answered or fails.  Neither the user nor
\* the server need do anything.
PageSpec ==
    /\ PageInit /\ [][PageNext]_pageVars
    /\ \A v \in Visits : WF_pageVars(Tick(v))
    /\ \A k \in 1..MaxPolls : WF_pageVars(Answer(k) \/ PollFails(k))

-----------------------------------------------------------------------------
(* Properties.                                                              *)

\* "Silently resume an in-progress job from localStorage on mount": as long as
\* no answer comes to a component that has moved on (the tab was left, another
\* ZIP was dropped, or a poll was overtaken), the job in localStorage is the
\* job whose end the user has not been shown, whatever is left, closed, lost
\* or re-analysed meanwhile.
UnfinishedIsSaved ==
    ~ crossed => owed = IF saved = NoJob THEN {} ELSE {saved}

\* Once a job that is remembered has been completed, the tab, if it stays
\* open, shows it completed and lets the user go on, unless a poll met a
\* network error or an answer crossed: no poll that is answered late or with
\* an older row leaves the tab polling, or without an interval but running.
CompletedIsShown ==
    \A j \in Jobs :
        (open /\ saved = j /\ row[j].completed = Total[j])
            ~> (j \notin owed /\ ~ IsRunning) \/ ~ open \/ failed \/ crossed

=============================================================================
