------------------------------ MODULE FeedbackLog ------------------------------
(***************************************************************************)
(* Feedback on a verdict, and the log of it the review agent learns from   *)
(* (submit_feedback and ignore_feedback in backend/api/routes.py).         *)
(*                                                                         *)
(* A row of the feedback table is committed before the response; the line  *)
(* of correction_examples.jsonl is written, or taken out by rewriting the  *)
(* file, by a background task.  These tasks are plain functions and run in *)
(* threads, at the same time as each other and as other requests.          *)
(*                                                                         *)
(* An entry of the log is the feedback it is about.  A line that cannot be *)
(* parsed is skipped by every reader and left out here.                    *)
(***************************************************************************)
EXTENDS Naturals

CONSTANTS
    Feedbacks,      \* the submissions there may be
    Traces,         \* the analyses they are about
    Officers,       \* who may ignore feedback, one request at a time each
    OverStrict,     \* the decisions praise of which shows what is too strict
    Agreed,         \* the other decisions
    FailuresHappen  \* whether file access may fail and the process die

ASSUME DecisionsAssumption == OverStrict \cap Agreed = {}
ASSUME FailuresAssumption == FailuresHappen \in BOOLEAN

NoRecord == ""      \* the decision of an analysis that is not found
Decisions == OverStrict \cup Agreed \cup {NoRecord}
Ratings == {"positive", "negative"}

VARIABLES
    feedback,   \* the rows of the table
    exists,     \* whether there is a correction_examples.jsonl
    log,        \* its entries, as _load_corrections returns them
    submit,     \* where each submission stands
    ignore,     \* where the request of each officer stands
    disturbed   \* history: the traces on which activities overlapped or failed

vars == <<feedback, exists, log, submit, ignore, disturbed>>

NotSubmitted == [at |-> "new"]
Submissions == [at : {"inserted", "appending", "done"}, trace : Traces,
                rating : Ratings, decision : Decisions]
Idle == [at |-> "idle"]
Removals == [at : {"removing", "read", "truncated"}, trace : Traces,
             kept : SUBSET Feedbacks]

TypeOK ==
    /\ feedback \subseteq Feedbacks
    /\ exists \in BOOLEAN
    /\ log \subseteq Feedbacks
    /\ submit \in [Feedbacks -> Submissions \cup {NotSubmitted}]
    /\ ignore \in [Officers -> Removals \cup {Idle}]
    /\ disturbed \subseteq Traces

Init ==
    /\ feedback = {}
    /\ exists = FALSE
    /\ log = {}
    /\ submit = [f \in Feedbacks |-> NotSubmitted]
    /\ ignore = [o \in Officers |-> Idle]
    /\ disturbed = {}

About(t) == {f \in Feedbacks : submit[f].at # "new" /\ submit[f].trace = t}

BeingSubmitted(t) == \E f \in About(t) : submit[f].at # "done"
BeingIgnored(t) == \E o \in Officers : ignore[o].at # "idle" /\ ignore[o].trace = t
Rewriting(o) == ignore[o].at \in {"read", "truncated"}

Disturb(traces) == disturbed' = disturbed \cup traces

-----------------------------------------------------------------------------
(* submit_feedback                                                          *)

\* insert_feedback commits; the record of the analysis is asked for next.
Insert(f, t, rating) ==
    /\ submit[f].at = "new"
    /\ submit' = [submit EXCEPT ![f] =
          [at |-> "inserted", trace |-> t, rating |-> rating, decision |-> NoRecord]]
    /\ feedback' = feedback \cup {f}
    /\ Disturb(IF BeingIgnored(t) THEN {t} ELSE {})
    /\ UNCHANGED <<exists, log, ignore>>

Actionable(rating, decision) ==
    rating = "negative" \/ (rating = "positive" /\ decision \in OverStrict)

\* get_history_record answers with the decision at this moment, or None; the
\* response is sent and the task, if there is one, is left to run.
LookUp(f) ==
    /\ submit[f].at = "inserted"
    /\ \E d \in Decisions :
          submit' = [submit EXCEPT ![f] =
             [at |-> IF Actionable(@.rating, d) THEN "appending" ELSE "done",
              trace |-> @.trace, rating |-> @.rating, decision |-> d]]
    /\ UNCHANGED <<feedback, exists, log, ignore, disturbed>>

\* Faulty: the file is opened for writing, not for appending.
AppendCorrectionOver(f) ==
    /\ submit[f].at = "appending"
    /\ submit' = [submit EXCEPT ![f] = [@ EXCEPT !.at = "done"]]
    /\ exists' = TRUE
    /\ log' = {f}
    /\ Disturb(IF \E o \in Officers : Rewriting(o) THEN {submit[f].trace} ELSE {})
    /\ UNCHANGED <<feedback, ignore>>

\* _append_correction_jsonl, which makes the file if it must.
AppendCorrection(f) ==
    /\ submit[f].at = "appending"
    /\ submit' = [submit EXCEPT ![f] = [@ EXCEPT !.at = "done"]]
    /\ exists' = TRUE
    /\ log' = log \cup {f}
    /\ Disturb(IF \E o \in Officers : Rewriting(o) THEN {submit[f].trace} ELSE {})
    /\ UNCHANGED <<feedback, ignore>>

\* It logs its failures and says nothing.
AppendFails(f) ==
    /\ FailuresHappen
    /\ submit[f].at = "appending"
    /\ submit' = [submit EXCEPT ![f] = [@ EXCEPT !.at = "done"]]
    /\ Disturb({submit[f].trace})
    /\ UNCHANGED <<feedback, exists, log, ignore>>

-----------------------------------------------------------------------------
(* ignore_feedback                                                          *)

\* The lines that _remove_correction_jsonl_entries keeps.
Kept(t) == log \ About(t)

\* Faulty: the file is read by the handler, for the task to write.
DeleteFeedbackReading(o, t) ==
    /\ ignore[o].at = "idle"
    /\ feedback \cap About(t) # {}
    /\ feedback' = feedback \ About(t)
    /\ ignore' = [ignore EXCEPT ![o] = [at |-> "read", trace |-> t, kept |-> Kept(t)]]
    /\ Disturb(IF BeingSubmitted(t) THEN {t} ELSE {})
    /\ UNCHANGED <<exists, log, submit>>

\* delete_feedback_by_trace_id; without a row to delete the answer is 404.
DeleteFeedback(o, t) ==
    /\ ignore[o].at = "idle"
    /\ feedback \cap About(t) # {}
    /\ feedback' = feedback \ About(t)
    /\ ignore' = [ignore EXCEPT ![o] = [at |-> "removing", trace |-> t, kept |-> {}]]
    /\ Disturb(IF BeingSubmitted(t) THEN {t} ELSE {})
    /\ UNCHANGED <<exists, log, submit>>

\* It reads the file, if there is one.  When another task is between its own
\* reading and writing, the two write over one another.
ReadLog(o) ==
    /\ ignore[o].at = "removing"
    /\ \/ /\ ~exists
          /\ ignore' = [ignore EXCEPT ![o] = Idle]
          /\ UNCHANGED disturbed
       \/ /\ exists
          /\ ignore' = [ignore EXCEPT ![o] =
                [@ EXCEPT !.at = "read", !.kept = Kept(ignore[o].trace)]]
          /\ Disturb(IF \E p \in Officers : Rewriting(p) THEN Traces ELSE {})
    /\ UNCHANGED <<feedback, exists, log, submit>>

\* write_text empties the file when it opens it ...
Truncate(o) ==
    /\ ignore[o].at = "read"
    /\ log' = {}
    /\ ignore' = [ignore EXCEPT ![o] = [@ EXCEPT !.at = "truncated"]]
    /\ UNCHANGED <<feedback, exists, submit, disturbed>>

\* ... and writes from its start what is kept.  Of lines others have written
\* there since, those further back than that are still there.
WriteKept(o) ==
    /\ ignore[o].at = "truncated"
    /\ \E rest \in SUBSET log :
          /\ ignore[o].kept = {} => rest = log
          /\ log' = ignore[o].kept \cup rest
    /\ ignore' = [ignore EXCEPT ![o] = Idle]
    /\ UNCHANGED <<feedback, exists, submit, disturbed>>

\* Reading or writing the file raises: the task is over.
RemovalFails(o) ==
    /\ FailuresHappen
    /\ ignore[o].at # "idle"
    /\ Disturb(IF ignore[o].at = "truncated" THEN Traces ELSE {ignore[o].trace})
    /\ ignore' = [ignore EXCEPT ![o] = Idle]
    /\ UNCHANGED <<feedback, exists, log, submit>>

-----------------------------------------------------------------------------

\* Faulty: what was under way is submitted again.
CrashReplays ==
    /\ FailuresHappen
    /\ \E t \in Traces : BeingSubmitted(t) \/ BeingIgnored(t)
    /\ submit' = [f \in Feedbacks |-> [submit[f] EXCEPT !.at = "new"]]
    /\ ignore' = [o \in Officers |-> Idle]
    /\ UNCHANGED <<feedback, exists, log, disturbed>>

\* The process dies and is started again: no task outlives it.
Crash ==
    /\ FailuresHappen
    /\ \E t \in Traces : BeingSubmitted(t) \/ BeingIgnored(t)
    /\ Disturb(IF \E o \in Officers : ignore[o].at = "truncated" THEN Traces
               ELSE {t \in Traces : BeingSubmitted(t) \/ BeingIgnored(t)})
    /\ submit' = [f \in Feedbacks |->
          IF submit[f].at = "new" THEN submit[f] ELSE [submit[f] EXCEPT !.at = "done"]]
    /\ ignore' = [o \in Officers |-> Idle]
    /\ UNCHANGED <<feedback, exists, log>>

Next ==
    \/ \E f \in Feedbacks, t \in Traces, rating \in Ratings : Insert(f, t, rating)
    \/ \E o \in Officers, t \in Traces : DeleteFeedback(o, t)
    \/ \E f \in Feedbacks : LookUp(f) \/ AppendCorrection(f) \/ AppendFails(f)
    \/ \E o \in Officers : ReadLog(o) \/ Truncate(o) \/ WriteKept(o) \/ RemovalFails(o)
    \/ Crash

Spec == Init /\ [][Next]_vars

-----------------------------------------------------------------------------
(* Properties.                                                              *)

\* Nothing is under way that could still change what the log says of t.
Settled(t) ==
    /\ t \notin disturbed
    /\ ~BeingSubmitted(t) /\ ~BeingIgnored(t)
    /\ \A o \in Officers : ignore[o].at # "truncated"

\* Once a trace's tasks are done, the log holds the complaints about it that
\* stand, no ignored feedback and no praise of an approval, whatever has been
\* ignored on other traces meanwhile (_append_correction_jsonl,
\* _remove_correction_jsonl_entries).
LogMatchesFeedback ==
    \A t \in Traces : Settled(t) => \A f \in About(t) :
        /\ (f \in feedback /\ submit[f].rating = "negative") => f \in log
        /\ f \in log =>
              /\ f \in feedback
              /\ submit[f].rating = "positive" => submit[f].decision \notin Agreed

\* Feedback that was ignored, and has left the log, does not come back into it
\* with what a rewrite on behalf of another trace read before
\* (_remove_correction_jsonl_entries).
Forgotten(f) ==
    /\ submit[f].at = "done"
    /\ f \notin feedback /\ f \notin log
    /\ ~BeingIgnored(submit[f].trace)
ForgottenStaysForgotten ==
    [][\A f \in Feedbacks :
          (Forgotten(f) /\ submit[f].trace \notin disturbed') => f \notin log']_vars

\* What routes.py:999 says of an ignored entry: it is removed from the table and
\* from the log, so that the review agent will not see it.
IgnoredIsForgotten ==
    (\A t \in Traces : ~BeingSubmitted(t) /\ ~BeingIgnored(t)) => log \subseteq feedback

=============================================================================
