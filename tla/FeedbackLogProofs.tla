--------------------------- MODULE FeedbackLogProofs ---------------------------
(***************************************************************************)
(* Proofs about FeedbackLog, for any number of submissions, analyses and   *)
(* officers.                                                               *)
(*                                                                         *)
(* What the log says of a trace depends on the rewrites that are under way *)
(* on behalf of others.  The invariant says, of feedback on a trace no     *)
(* activities have collided on, what each stage of a rewrite holds of it:  *)
(* until the file is emptied the lines to be written are those of the log, *)
(* and from then on they are the log.                                      *)
(***************************************************************************)
EXTENDS FeedbackLog, TLAPS

Undisturbed(f) == submit[f].at # "new" /\ submit[f].trace \notin disturbed

Stands(f) == f \in feedback /\ Actionable(submit[f].rating, submit[f].decision)

IsIgnored(f) == BeingIgnored(submit[f].trace)

\* What the removal by officer o holds of f.
RemovalOk(f, o) ==
    /\ ignore[o].at = "read" =>
          (f \in ignore[o].kept <=> f \in log /\ submit[f].trace # ignore[o].trace)
    /\ ignore[o].at = "truncated" =>
          /\ f \notin log
          /\ submit[f].trace = ignore[o].trace => f \notin ignore[o].kept
          /\ (submit[f].at = "done" /\ ~IsIgnored(f)) =>
                (f \in ignore[o].kept <=> Stands(f))
    /\ (Rewriting(o) /\ submit[f].at # "done") => f \notin ignore[o].kept

\* What the table and the log hold of f.
SubmissionOk(f) ==
    /\ submit[f].at # "done" => f \in feedback /\ f \notin log /\ ~IsIgnored(f)
    /\ submit[f].at = "appending" => Actionable(submit[f].rating, submit[f].decision)
    /\ (submit[f].at = "done" /\ IsIgnored(f)) => f \notin feedback
    /\ (/\ submit[f].at = "done" /\ ~IsIgnored(f)
        /\ \A o \in Officers : ignore[o].at # "truncated") => (f \in log <=> Stands(f))

Submitted ==
    \A f \in Feedbacks : Undisturbed(f) =>
        SubmissionOk(f) /\ \A o \in Officers : RemovalOk(f, o)

\* Nothing holds of what has not been submitted.
Unsubmitted ==
    \A f \in Feedbacks : submit[f].at = "new" =>
        /\ f \notin feedback /\ f \notin log
        /\ \A o \in Officers : Rewriting(o) => f \notin ignore[o].kept

\* Two rewrites at once leave no trace undisturbed.
OneRewrite ==
    \A o, p \in Officers : (o # p /\ Rewriting(o) /\ Rewriting(p)) => disturbed = Traces

NoFileNoLog == ~exists => log = {} /\ \A o \in Officers : ~Rewriting(o)

IInv == TypeOK /\ Submitted /\ Unsubmitted /\ OneRewrite /\ NoFileNoLog

-----------------------------------------------------------------------------
(* Records.                                                                 *)

LEMMA NewAndIdle ==
    /\ NotSubmitted.at = "new" /\ NotSubmitted \notin Submissions
    /\ Idle.at = "idle" /\ Idle \notin Removals
    /\ \A x \in Submissions : x.at \in {"inserted", "appending", "done"}
    /\ \A x \in Removals : x.at \in {"removing", "read", "truncated"}
BY DEF NotSubmitted, Submissions, Idle, Removals

LEMMA DoneSubmission ==
    ASSUME NEW x \in Submissions
    PROVE  /\ [x EXCEPT !.at = "done"] \in Submissions
           /\ [x EXCEPT !.at = "done"].at = "done"
           /\ [x EXCEPT !.at = "done"].trace = x.trace
           /\ [x EXCEPT !.at = "done"].rating = x.rating
           /\ [x EXCEPT !.at = "done"].decision = x.decision
<1> PICK a \in {"inserted", "appending", "done"}, t \in Traces, r \in Ratings,
         e \in Decisions :
      x = [at |-> a, trace |-> t, rating |-> r, decision |-> e]
  BY DEF Submissions
<1> QED
  BY DEF Submissions

LEMMA ReadRemoval ==
    ASSUME NEW x \in Removals, NEW k \in SUBSET Feedbacks
    PROVE  /\ [x EXCEPT !.at = "read", !.kept = k] \in Removals
           /\ [x EXCEPT !.at = "read", !.kept = k].at = "read"
           /\ [x EXCEPT !.at = "read", !.kept = k].trace = x.trace
           /\ [x EXCEPT !.at = "read", !.kept = k].kept = k
<1> PICK a \in {"removing", "read", "truncated"}, t \in Traces, l \in SUBSET Feedbacks :
      x = [at |-> a, trace |-> t, kept |-> l]
  BY DEF Removals
<1> QED
  BY DEF Removals

LEMMA TruncatedRemoval ==
    ASSUME NEW x \in Removals
    PROVE  /\ [x EXCEPT !.at = "truncated"] \in Removals
           /\ [x EXCEPT !.at = "truncated"].at = "truncated"
           /\ [x EXCEPT !.at = "truncated"].trace = x.trace
           /\ [x EXCEPT !.at = "truncated"].kept = x.kept
<1> PICK a \in {"removing", "read", "truncated"}, t \in Traces, l \in SUBSET Feedbacks :
      x = [at |-> a, trace |-> t, kept |-> l]
  BY DEF Removals
<1> QED
  BY DEF Removals

LEMMA SubmissionOf ==
    ASSUME TypeOK, NEW f \in Feedbacks, submit[f].at # "new"
    PROVE  submit[f] \in Submissions
BY NewAndIdle DEF TypeOK

LEMMA RemovalOf ==
    ASSUME TypeOK, NEW o \in Officers, ignore[o].at # "idle"
    PROVE  ignore[o] \in Removals
BY NewAndIdle DEF TypeOK

-----------------------------------------------------------------------------
(* Submitting.                                                              *)

\* A step that leaves f and the removals alone.
LEMMA Untouched ==
    ASSUME NEW f \in Feedbacks,
           SubmissionOk(f), \A o \in Officers : RemovalOk(f, o),
           submit'[f] = submit[f],
           f \in feedback' <=> f \in feedback,
           f \in log' <=> f \in log,
           ignore' = ignore
    PROVE  SubmissionOk(f)' /\ \A o \in Officers : RemovalOk(f, o)'
BY DEF SubmissionOk, RemovalOk, IsIgnored, BeingIgnored, Stands, Rewriting

LEMMA InsertStep ==
    ASSUME IInv, NEW f \in Feedbacks, NEW t \in Traces, NEW rating \in Ratings,
           Insert(f, t, rating)
    PROVE  IInv'
<1>1. PICK y : y = [at |-> "inserted", trace |-> t, rating |-> rating,
                    decision |-> NoRecord]
  OBVIOUS
<1>2. y \in Submissions /\ y.at = "inserted" /\ y.trace = t
  BY <1>1 DEF Submissions, Decisions
<1>3. /\ submit[f].at = "new"
      /\ submit' = [submit EXCEPT ![f] = y]
      /\ feedback' = feedback \cup {f}
      /\ disturbed' = disturbed \cup (IF BeingIgnored(t) THEN {t} ELSE {})
      /\ UNCHANGED <<exists, log, ignore>>
  BY <1>1 DEF Insert, Disturb
<1>4. /\ submit'[f] = y
      /\ \A g \in Feedbacks : g # f => submit'[g] = submit[g]
  BY <1>3 DEF IInv, TypeOK
<1>5. TypeOK'
  BY <1>2, <1>3 DEF IInv, TypeOK
<1>6. Submitted'
  <2> SUFFICES ASSUME NEW g \in Feedbacks, Undisturbed(g)'
               PROVE  SubmissionOk(g)' /\ \A o \in Officers : RemovalOk(g, o)'
    BY DEF Submitted
  <2>1. CASE g = f
    <3>1. ~IsIgnored(g)'
      BY <1>2, <1>3, <1>4, <2>1 DEF IsIgnored, BeingIgnored, Undisturbed
    <3>2. /\ g \notin log
          /\ \A o \in Officers : Rewriting(o) => g \notin ignore[o].kept
      BY <1>3, <2>1 DEF IInv, Unsubmitted
    <3>3. \A o \in Officers : ignore[o].at # "idle" => ignore[o].trace # t
      BY <1>2, <1>4, <2>1, <3>1 DEF IsIgnored, BeingIgnored, Insert
    <3> QED
      BY <1>2, <1>3, <1>4, <2>1, <3>1, <3>2, <3>3 DEF SubmissionOk, RemovalOk, Rewriting
  <2>2. CASE g # f
    <3>1. Undisturbed(g)
      BY <1>3, <1>4, <2>2 DEF Undisturbed
    <3> QED
      BY <1>3, <1>4, <2>2, <3>1, Untouched DEF IInv, Submitted
  <2> QED
    BY <2>1, <2>2
<1>7. Unsubmitted'
  BY <1>2, <1>3, <1>4 DEF IInv, Unsubmitted, Rewriting
<1>8. OneRewrite' /\ NoFileNoLog'
  BY <1>3 DEF IInv, OneRewrite, NoFileNoLog, Rewriting, TypeOK
<1> QED
  BY <1>5, <1>6, <1>7, <1>8 DEF IInv

LEMMA LookUpStep ==
    ASSUME IInv, NEW f \in Feedbacks, LookUp(f)
    PROVE  IInv'
<1>0. PICK x \in Submissions : x = submit[f]
  BY SubmissionOf DEF LookUp, IInv
<1>1. PICK d \in Decisions :
         submit' = [submit EXCEPT ![f] =
            [at |-> IF Actionable(@.rating, d) THEN "appending" ELSE "done",
             trace |-> @.trace, rating |-> @.rating, decision |-> d]]
  BY DEF LookUp
<1>2. PICK s \in {"appending", "done"} :
         s = IF Actionable(submit[f].rating, d) THEN "appending" ELSE "done"
  OBVIOUS
<1>3. PICK y : y = [at |-> s, trace |-> x.trace, rating |-> x.rating, decision |-> d]
  OBVIOUS
<1>4. /\ y \in Submissions /\ y.at = s /\ y.trace = submit[f].trace
      /\ y.rating = submit[f].rating /\ y.decision = d
  BY <1>0, <1>1, <1>2, <1>3 DEF Submissions
<1>5. /\ submit[f].at = "inserted"
      /\ submit' = [submit EXCEPT ![f] = y]
      /\ UNCHANGED <<feedback, exists, log, ignore, disturbed>>
  BY <1>0, <1>1, <1>2, <1>3 DEF LookUp
<1>6. /\ submit'[f] = y
      /\ \A g \in Feedbacks : g # f => submit'[g] = submit[g]
  BY <1>5 DEF IInv, TypeOK
<1>7. TypeOK'
  BY <1>4, <1>5 DEF IInv, TypeOK
<1>8. Submitted'
  <2> SUFFICES ASSUME NEW g \in Feedbacks, Undisturbed(g)'
               PROVE  SubmissionOk(g)' /\ \A o \in Officers : RemovalOk(g, o)'
    BY DEF Submitted
  <2>1. SubmissionOk(g) /\ \A o \in Officers : RemovalOk(g, o)
    BY <1>4, <1>5, <1>6 DEF IInv, Submitted, Undisturbed
  <2>2. CASE g = f
    <3>1. /\ g \in feedback /\ g \notin log /\ ~IsIgnored(g)
          /\ \A o \in Officers : Rewriting(o) => g \notin ignore[o].kept
      BY <1>5, <2>1, <2>2 DEF SubmissionOk, RemovalOk
    <3>2. ~IsIgnored(g)'
      BY <1>4, <1>5, <1>6, <2>2, <3>1 DEF IsIgnored, BeingIgnored
    <3>3. /\ s = "appending" <=> Actionable(submit[f].rating, d)
          /\ Stands(g)' <=> s = "appending"
      BY <1>2, <1>4, <1>5, <1>6, <2>2, <3>1 DEF Stands
    <3>4. SubmissionOk(g)'
      BY <1>4, <1>5, <1>6, <2>2, <3>1, <3>2, <3>3 DEF SubmissionOk
    <3>5. \A o \in Officers : RemovalOk(g, o)'
      BY <1>4, <1>5, <1>6, <2>1, <2>2, <3>1, <3>3 DEF RemovalOk, Rewriting
    <3> QED
      BY <3>4, <3>5
  <2>3. CASE g # f
    BY <1>5, <1>6, <2>1, <2>3, Untouched
  <2> QED
    BY <2>2, <2>3
<1>9. Unsubmitted' /\ OneRewrite' /\ NoFileNoLog'
  BY <1>4, <1>5, <1>6 DEF IInv, Unsubmitted, OneRewrite, NoFileNoLog, Rewriting
<1> QED
  BY <1>7, <1>8, <1>9 DEF IInv

\* A submission is done: with its line in the log or, disturbed, without.
LEMMA DoneStep ==
    ASSUME IInv, NEW f \in Feedbacks, submit[f].at = "appending",
           submit' = [submit EXCEPT ![f] = [@ EXCEPT !.at = "done"]],
           UNCHANGED <<feedback, ignore>>,
           disturbed \subseteq disturbed', disturbed' \subseteq Traces,
           \/ /\ log' = log \cup {f} /\ exists' = TRUE
              /\ (\E o \in Officers : Rewriting(o)) => submit[f].trace \in disturbed'
           \/ UNCHANGED <<exists, log>> /\ submit[f].trace \in disturbed'
    PROVE  IInv'
<1>0. submit[f] \in Submissions
  BY SubmissionOf DEF IInv
<1>1. PICK y : y = [submit[f] EXCEPT !.at = "done"]
  OBVIOUS
<1>2. /\ y \in Submissions /\ y.at = "done" /\ y.trace = submit[f].trace
      /\ y.rating = submit[f].rating /\ y.decision = submit[f].decision
  BY <1>0, <1>1, DoneSubmission
<1>3. submit' = [submit EXCEPT ![f] = y]
  BY <1>1
<1>4. /\ submit'[f] = y
      /\ \A g \in Feedbacks : g # f => submit'[g] = submit[g]
  BY <1>3 DEF IInv, TypeOK
<1>5. TypeOK'
  BY <1>2, <1>3 DEF IInv, TypeOK
<1>6. Submitted'
  <2> SUFFICES ASSUME NEW g \in Feedbacks, Undisturbed(g)'
               PROVE  SubmissionOk(g)' /\ \A o \in Officers : RemovalOk(g, o)'
    BY DEF Submitted
  <2>1. SubmissionOk(g) /\ \A o \in Officers : RemovalOk(g, o)
    BY <1>2, <1>4 DEF IInv, Submitted, Undisturbed
  <2>2. CASE g = f
    <3>1. log' = log \cup {g} /\ \A o \in Officers : ~Rewriting(o)
      BY <1>2, <1>4, <2>2 DEF Undisturbed
    <3>2. Stands(g) /\ ~IsIgnored(g)
      BY <2>1, <2>2 DEF SubmissionOk, Stands
    <3>3. Stands(g)' /\ ~IsIgnored(g)'
      BY <1>2, <1>4, <2>2, <3>2 DEF Stands, IsIgnored, BeingIgnored
    <3> QED
      BY <1>2, <1>4, <2>2, <3>1, <3>3 DEF SubmissionOk, RemovalOk, Rewriting
  <2>3. CASE g # f
    BY <1>4, <2>1, <2>3, Untouched
  <2> QED
    BY <2>2, <2>3
<1>7. Unsubmitted'
  BY <1>2, <1>4 DEF IInv, Unsubmitted, Rewriting
<1>8. OneRewrite' /\ NoFileNoLog'
  BY DEF IInv, OneRewrite, NoFileNoLog, Rewriting, TypeOK
<1> QED
  BY <1>5, <1>6, <1>7, <1>8 DEF IInv

LEMMA AppendStep ==
    ASSUME IInv, NEW f \in Feedbacks, AppendCorrection(f) \/ AppendFails(f)
    PROVE  IInv'
<1>0. submit[f].trace \in Traces
  BY SubmissionOf DEF AppendCorrection, AppendFails, IInv, Submissions
<1>1. CASE AppendCorrection(f)
  BY <1>0, <1>1, DoneStep DEF AppendCorrection, Disturb, IInv, TypeOK
<1>2. CASE AppendFails(f)
  BY <1>0, <1>2, DoneStep DEF AppendFails, Disturb, IInv, TypeOK
<1> QED
  BY <1>1, <1>2
-----------------------------------------------------------------------------
(* Ignoring.                                                                *)

LEMMA DeleteStep ==
    ASSUME IInv, NEW o \in Officers, NEW t \in Traces, DeleteFeedback(o, t)
    PROVE  IInv'
<1>1. PICK y : y = [at |-> "removing", trace |-> t, kept |-> {}]
  OBVIOUS
<1>2. y \in Removals /\ y.at = "removing" /\ y.trace = t
  BY <1>1 DEF Removals
<1>3. /\ ignore[o].at = "idle"
      /\ ignore' = [ignore EXCEPT ![o] = y]
      /\ feedback' = feedback \ About(t)
      /\ disturbed' = disturbed \cup (IF BeingSubmitted(t) THEN {t} ELSE {})
      /\ UNCHANGED <<exists, log, submit>>
  BY <1>1 DEF DeleteFeedback, Disturb
<1>4. /\ ignore'[o] = y
      /\ \A p \in Officers : p # o => ignore'[p] = ignore[p]
      /\ \A p \in Officers : Rewriting(p)' => Rewriting(p) /\ ignore'[p] = ignore[p]
      /\ \A p \in Officers : p # o \/ ignore[p].at = "idle"
  BY <1>2, <1>3 DEF IInv, TypeOK, Rewriting
<1>5. TypeOK'
  BY <1>2, <1>3 DEF IInv, TypeOK
<1>6. Submitted'
  <2> SUFFICES ASSUME NEW g \in Feedbacks, Undisturbed(g)'
               PROVE  SubmissionOk(g)' /\ \A p \in Officers : RemovalOk(g, p)'
    BY DEF Submitted
  <2>1. Undisturbed(g) /\ SubmissionOk(g) /\ \A p \in Officers : RemovalOk(g, p)
    BY <1>3 DEF IInv, Submitted, Undisturbed
  <2>2. IsIgnored(g)' <=> IsIgnored(g) \/ submit[g].trace = t
    BY <1>2, <1>3, <1>4 DEF IsIgnored, BeingIgnored
  <2>3. g \in feedback' <=> g \in feedback /\ submit[g].trace # t
    BY <1>3, <2>1 DEF About, Undisturbed
  <2>4. submit[g].trace = t => submit[g].at = "done"
    BY <1>3, <2>1 DEF Undisturbed, BeingSubmitted, About
  <2>5. submit[g].trace # t => (Stands(g)' <=> Stands(g))
    BY <1>3, <2>3 DEF Stands
  <2>6. SubmissionOk(g)'
    <3>1. (\A p \in Officers : ignore'[p].at # "truncated") =>
             \A p \in Officers : ignore[p].at # "truncated"
      BY <1>3, <1>4
    <3> QED
      BY <1>3, <2>1, <2>2, <2>3, <2>4, <2>5, <3>1 DEF SubmissionOk
  <2>7. \A p \in Officers : RemovalOk(g, p)'
    BY <1>2, <1>3, <1>4, <2>1, <2>2, <2>5 DEF RemovalOk, Rewriting
  <2> QED
    BY <2>6, <2>7
<1>7. Unsubmitted'
  BY <1>3, <1>4 DEF IInv, Unsubmitted
<1>8. OneRewrite' /\ NoFileNoLog'
  BY <1>3, <1>4 DEF IInv, OneRewrite, NoFileNoLog, TypeOK
<1> QED
  BY <1>5, <1>6, <1>7, <1>8 DEF IInv

\* The task of o is over, and has left the log to h as it was; it is not one
\* that had emptied it.
LEMMA RemovalOver ==
    ASSUME IInv, NEW o \in Officers, ignore' = [ignore EXCEPT ![o] = Idle],
           UNCHANGED <<feedback, exists, log, submit>>,
           disturbed \subseteq disturbed', disturbed' \subseteq Traces,
           \/ disturbed' = Traces
           \/ ignore[o].at # "truncated" /\ ignore[o].trace \in disturbed'
           \/ ignore[o].at # "truncated" /\ ~exists
    PROVE  IInv'
<1>1. /\ ignore'[o] = Idle
      /\ \A p \in Officers : p # o => ignore'[p] = ignore[p]
      /\ \A p \in Officers : Rewriting(p)' => Rewriting(p) /\ ignore'[p] = ignore[p] /\ p # o
  BY NewAndIdle DEF IInv, TypeOK, Rewriting
<1>2. TypeOK'
  BY DEF IInv, TypeOK
<1>3. Submitted'
  <2> SUFFICES ASSUME NEW g \in Feedbacks, Undisturbed(g)'
               PROVE  SubmissionOk(g)' /\ \A p \in Officers : RemovalOk(g, p)'
    BY DEF Submitted
  <2>1. Undisturbed(g) /\ SubmissionOk(g) /\ \A p \in Officers : RemovalOk(g, p)
    BY DEF IInv, Submitted, Undisturbed
  <2>2. submit[g].trace \in Traces /\ submit[g].trace \notin disturbed'
    BY <2>1, SubmissionOf DEF Undisturbed, IInv, Submissions
  <2>3. ignore[o].at # "truncated"
    BY <2>2
  <2>4. IsIgnored(g)' => IsIgnored(g)
    BY <1>1, NewAndIdle DEF IsIgnored, BeingIgnored
  <2>5. CASE ignore[o].trace # submit[g].trace \/ ignore[o].at = "idle"
    <3>1. IsIgnored(g)' <=> IsIgnored(g)
      BY <1>1, <2>4, <2>5 DEF IsIgnored, BeingIgnored
    <3>2. (\A p \in Officers : ignore'[p].at # "truncated") =>
             \A p \in Officers : ignore[p].at # "truncated"
      BY <1>1, <2>3
    <3>3. Stands(g)' <=> Stands(g)
      BY DEF Stands
    <3>4. SubmissionOk(g)'
      BY <2>1, <3>1, <3>2, <3>3 DEF SubmissionOk
    <3>5. \A p \in Officers : RemovalOk(g, p)'
      BY <1>1, <2>1, <3>1, <3>3, NewAndIdle DEF RemovalOk, Rewriting
    <3> QED
      BY <3>4, <3>5
  <2>6. CASE ignore[o].trace = submit[g].trace /\ ignore[o].at # "idle"
    <3>1. ~exists /\ log = {} /\ \A p \in Officers : ~Rewriting(p)
      BY <2>2, <2>6 DEF IInv, NoFileNoLog
    <3>2. IsIgnored(g)
      BY <2>6 DEF IsIgnored, BeingIgnored
    <3>3. submit[g].at = "done" /\ g \notin feedback
      BY <2>1, <3>2 DEF SubmissionOk
    <3>4. SubmissionOk(g)'
      BY <3>1, <3>3 DEF SubmissionOk, Stands
    <3>5. \A p \in Officers : RemovalOk(g, p)'
      BY <1>1, <3>1, <3>3, NewAndIdle DEF RemovalOk, Rewriting
    <3> QED
      BY <3>4, <3>5
  <2> QED
    BY <2>5, <2>6
<1>4. Unsubmitted' /\ NoFileNoLog'
  BY <1>1 DEF IInv, Unsubmitted, NoFileNoLog
<1>5. OneRewrite'
  BY <1>1 DEF IInv, OneRewrite, TypeOK
<1> QED
  BY <1>2, <1>3, <1>4, <1>5 DEF IInv

LEMMA RemovalFailsStep ==
    ASSUME IInv, NEW o \in Officers, RemovalFails(o)
    PROVE  IInv'
<1>1. ignore[o].trace \in Traces
  BY RemovalOf DEF RemovalFails, IInv, Removals
<1> QED
  BY <1>1, RemovalOver DEF RemovalFails, Disturb, IInv, TypeOK

LEMMA ReadLogStep ==
    ASSUME IInv, NEW o \in Officers, ReadLog(o)
    PROVE  IInv'
<1>0. PICK x \in Removals : x = ignore[o] /\ x.at = "removing"
  BY RemovalOf DEF ReadLog, IInv
<1>1. CASE ~exists
  BY <1>0, <1>1, RemovalOver DEF ReadLog, IInv, TypeOK
<1>2. CASE exists
  <2>1. PICK s \in Traces : s = ignore[o].trace
    BY <1>0 DEF Removals
  <2>2. PICK k \in SUBSET Feedbacks : k = log \ About(s)
    BY DEF IInv, TypeOK
  <2>3. PICK y : y = [x EXCEPT !.at = "read", !.kept = k]
    OBVIOUS
  <2>4. y \in Removals /\ y.at = "read" /\ y.trace = s /\ y.kept = k
    <3>1. x \in Removals /\ k \in SUBSET Feedbacks
      BY <1>0, <2>2
    <3>2. y \in Removals /\ y.at = "read" /\ y.trace = x.trace /\ y.kept = k
      BY <2>3, <3>1, ReadRemoval, Zenon
    <3> QED
      BY <1>0, <2>1, <3>2
  <2>5. /\ ignore' = [ignore EXCEPT ![o] = y]
        /\ disturbed' = disturbed \cup
              (IF \E p \in Officers : Rewriting(p) THEN Traces ELSE {})
        /\ UNCHANGED <<feedback, exists, log, submit>>
    BY <1>0, <1>2, <2>1, <2>2, <2>3 DEF ReadLog, Kept, Disturb
  <2>6. /\ ignore'[o] = y
        /\ \A p \in Officers : p # o => ignore'[p] = ignore[p]
    BY <2>5 DEF IInv, TypeOK
  <2>7. TypeOK'
    BY <2>4, <2>5 DEF IInv, TypeOK
  <2>8. disturbed' = Traces \/ \A p \in Officers : ~Rewriting(p)
    BY <2>5 DEF IInv, TypeOK
  <2>9. \A p \in Officers : p # o => (Rewriting(p)' <=> Rewriting(p))
    BY <2>6 DEF Rewriting
  <2>10. Submitted'
    <3> SUFFICES ASSUME NEW g \in Feedbacks, Undisturbed(g)'
                 PROVE  SubmissionOk(g)' /\ \A p \in Officers : RemovalOk(g, p)'
      BY DEF Submitted
    <3>1. Undisturbed(g) /\ SubmissionOk(g) /\ \A p \in Officers : RemovalOk(g, p)
      BY <2>5 DEF IInv, Submitted, Undisturbed
    <3>2. submit[g].trace \in Traces /\ submit[g].trace \notin disturbed'
      BY <2>5, <3>1, SubmissionOf DEF Undisturbed, IInv, Submissions
    <3>3. \A p \in Officers : p # o => ~Rewriting(p) /\ ~Rewriting(p)'
      BY <2>8, <2>9, <3>2
    <3>4. IsIgnored(g)' <=> IsIgnored(g)
      BY <1>0, <2>1, <2>4, <2>5, <2>6 DEF IsIgnored, BeingIgnored
    <3>5. Stands(g)' <=> Stands(g)
      BY <2>5 DEF Stands
    <3>6. \A p \in Officers : ignore[p].at # "truncated"
      BY <1>0, <3>3 DEF Rewriting
    <3>7. SubmissionOk(g)'
      BY <2>5, <3>1, <3>4, <3>5, <3>6 DEF SubmissionOk
    <3>8. g \in k <=> g \in log /\ submit[g].trace # s
      BY <2>2, <3>1 DEF About, Undisturbed
    <3>9. submit[g].at # "done" => g \notin log
      BY <3>1 DEF SubmissionOk
    <3>10. \A p \in Officers : RemovalOk(g, p)'
      BY <2>4, <2>5, <2>6, <3>3, <3>8, <3>9 DEF RemovalOk, Rewriting
    <3> QED
      BY <3>7, <3>10
  <2>11. Unsubmitted'
    <3>1. \A g \in k : g \in log
      BY <2>2
    <3> QED
      BY <2>4, <2>5, <2>6, <2>9, <3>1 DEF IInv, Unsubmitted
  <2>12. OneRewrite' /\ NoFileNoLog'
    BY <1>2, <2>5, <2>8, <2>9 DEF IInv, OneRewrite, NoFileNoLog, TypeOK
  <2> QED
    BY <2>7, <2>10, <2>11, <2>12 DEF IInv
<1> QED
  BY <1>1, <1>2 DEF IInv, TypeOK

\* The trace of g is undisturbed: o is the only one to rewrite the log.
LEMMA Alone ==
    ASSUME IInv, NEW g \in Feedbacks, Undisturbed(g), NEW o \in Officers, Rewriting(o)
    PROVE  \A p \in Officers : p # o => ~Rewriting(p)
<1>1. submit[g].trace \in Traces /\ submit[g].trace \notin disturbed
  BY SubmissionOf DEF Undisturbed, IInv, Submissions
<1> QED
  BY <1>1 DEF IInv, OneRewrite

LEMMA TruncateStep ==
    ASSUME IInv, NEW o \in Officers, Truncate(o)
    PROVE  IInv'
<1>1. ignore[o] \in Removals /\ ignore[o].at = "read" /\ Rewriting(o)
  BY RemovalOf DEF Truncate, IInv, Rewriting
<1>2. PICK y : y = [ignore[o] EXCEPT !.at = "truncated"]
  OBVIOUS
<1>3. /\ y \in Removals /\ y.at = "truncated"
      /\ y.trace = ignore[o].trace /\ y.kept = ignore[o].kept
  BY <1>1, <1>2, TruncatedRemoval
<1>4. /\ ignore' = [ignore EXCEPT ![o] = y]
      /\ log' = {}
      /\ UNCHANGED <<feedback, exists, submit, disturbed>>
  BY <1>2 DEF Truncate
<1>5. /\ ignore'[o] = y
      /\ \A p \in Officers : p # o => ignore'[p] = ignore[p]
      /\ \A p \in Officers : Rewriting(p)' <=> Rewriting(p)
  BY <1>1, <1>3, <1>4 DEF IInv, TypeOK, Rewriting
<1>6. TypeOK'
  BY <1>3, <1>4 DEF IInv, TypeOK
<1>7. Submitted'
  <2> SUFFICES ASSUME NEW g \in Feedbacks, Undisturbed(g)'
               PROVE  SubmissionOk(g)' /\ \A p \in Officers : RemovalOk(g, p)'
    BY DEF Submitted
  <2>1. Undisturbed(g) /\ SubmissionOk(g) /\ \A p \in Officers : RemovalOk(g, p)
    BY <1>4 DEF IInv, Submitted, Undisturbed
  <2>2. \A p \in Officers : p # o => ~Rewriting(p) /\ ~Rewriting(p)'
    BY <1>1, <1>5, <2>1, Alone
  <2>3. IsIgnored(g)' <=> IsIgnored(g)
    BY <1>1, <1>3, <1>4, <1>5 DEF IsIgnored, BeingIgnored
  <2>4. Stands(g)' <=> Stands(g)
    BY <1>4 DEF Stands
  <2>5. \A p \in Officers : ignore[p].at # "truncated"
    BY <1>1, <2>2 DEF Rewriting
  <2>6. SubmissionOk(g)'
    BY <1>3, <1>4, <1>5, <2>1, <2>3 DEF SubmissionOk
  <2>7. g \in ignore[o].kept <=> g \in log /\ submit[g].trace # ignore[o].trace
    BY <1>1, <2>1 DEF RemovalOk
  <2>8. ~IsIgnored(g) => submit[g].trace # ignore[o].trace
    BY <1>1 DEF IsIgnored, BeingIgnored
  <2>9. (submit[g].at = "done" /\ ~IsIgnored(g)) => (g \in ignore[o].kept <=> Stands(g))
    BY <2>1, <2>5, <2>7, <2>8 DEF SubmissionOk
  <2>10. submit[g].at # "done" => g \notin ignore[o].kept
    BY <2>1, <2>7 DEF SubmissionOk
  <2>11. RemovalOk(g, o)'
    BY <1>3, <1>4, <1>5, <2>3, <2>4, <2>7, <2>9, <2>10 DEF RemovalOk, Rewriting
  <2>12. \A p \in Officers : p # o => RemovalOk(g, p)'
    BY <2>2 DEF RemovalOk, Rewriting
  <2> QED
    BY <2>6, <2>11, <2>12
<1>8. Unsubmitted'
  BY <1>3, <1>4, <1>5 DEF IInv, Unsubmitted
<1>9. OneRewrite' /\ NoFileNoLog'
  BY <1>4, <1>5 DEF IInv, OneRewrite, NoFileNoLog
<1> QED
  BY <1>6, <1>7, <1>8, <1>9 DEF IInv

LEMMA WriteKeptStep ==
    ASSUME IInv, NEW o \in Officers, WriteKept(o)
    PROVE  /\ IInv'
           /\ \A f \in Feedbacks :
                 (Forgotten(f) /\ submit[f].trace \notin disturbed) => f \notin log'
<1>1. ignore[o] \in Removals /\ ignore[o].at = "truncated" /\ Rewriting(o)
  BY RemovalOf DEF WriteKept, IInv, Rewriting
<1>2. PICK k \in SUBSET Feedbacks : k = ignore[o].kept
  BY <1>1 DEF Removals
<1>3. PICK rest \in SUBSET log : log' = k \cup rest
  BY <1>2 DEF WriteKept
<1>4. /\ ignore' = [ignore EXCEPT ![o] = Idle]
      /\ UNCHANGED <<feedback, exists, submit, disturbed>>
  BY DEF WriteKept
<1>5. /\ ignore'[o] = Idle
      /\ \A p \in Officers : p # o => ignore'[p] = ignore[p]
      /\ \A p \in Officers : Rewriting(p)' => p # o /\ Rewriting(p) /\ ignore'[p] = ignore[p]
  BY <1>4, NewAndIdle DEF IInv, TypeOK, Rewriting
<1>6. TypeOK'
  BY <1>3, <1>4 DEF IInv, TypeOK
<1>7. ASSUME NEW g \in Feedbacks, Undisturbed(g)
      PROVE  /\ g \in log' <=> g \in k
             /\ submit[g].at # "done" => g \notin k
             /\ submit[g].trace = ignore[o].trace => g \notin k
             /\ (submit[g].at = "done" /\ ~IsIgnored(g)) => (g \in k <=> Stands(g))
  <2>1. RemovalOk(g, o)
    BY <1>7 DEF IInv, Submitted
  <2> QED
    BY <1>1, <1>2, <1>3, <2>1 DEF RemovalOk
<1>8. Submitted'
  <2> SUFFICES ASSUME NEW g \in Feedbacks, Undisturbed(g)'
               PROVE  SubmissionOk(g)' /\ \A p \in Officers : RemovalOk(g, p)'
    BY DEF Submitted
  <2>1. Undisturbed(g) /\ SubmissionOk(g)
    BY <1>4 DEF IInv, Submitted, Undisturbed
  <2>2. \A p \in Officers : ~Rewriting(p)'
    BY <1>1, <1>5, <2>1, Alone
  <2>3. Stands(g)' <=> Stands(g)
    BY <1>4 DEF Stands
  <2>4. IsIgnored(g)' => IsIgnored(g)
    BY <1>4, <1>5, NewAndIdle DEF IsIgnored, BeingIgnored
  <2>5. (IsIgnored(g) /\ ~IsIgnored(g)') => submit[g].trace = ignore[o].trace
    BY <1>4, <1>5 DEF IsIgnored, BeingIgnored
  <2>6. ASSUME submit[g].at = "done", ~IsIgnored(g)'
        PROVE  g \in log' <=> Stands(g)
    <3>1. CASE IsIgnored(g)
      <4>1. g \notin feedback
        BY <2>1, <2>6, <3>1 DEF SubmissionOk
      <4> QED
        BY <1>7, <2>1, <2>5, <2>6, <3>1, <4>1 DEF Stands
    <3>2. CASE ~IsIgnored(g)
      BY <1>7, <2>1, <2>6, <3>2
    <3> QED
      BY <3>1, <3>2
  <2>7. SubmissionOk(g)'
    BY <1>4, <1>7, <2>1, <2>3, <2>4, <2>6 DEF SubmissionOk
  <2>8. \A p \in Officers : RemovalOk(g, p)'
    BY <2>2 DEF RemovalOk, Rewriting
  <2> QED
    BY <2>7, <2>8
<1>9. Unsubmitted'
  <2>1. \A g \in Feedbacks : submit[g].at = "new" => g \notin k /\ g \notin rest
    BY <1>1, <1>2 DEF IInv, Unsubmitted
  <2> QED
    BY <1>3, <1>4, <1>5, <2>1 DEF IInv, Unsubmitted
<1>10. OneRewrite' /\ NoFileNoLog'
  BY <1>1, <1>4, <1>5 DEF IInv, OneRewrite, NoFileNoLog
<1>11. ASSUME NEW f \in Feedbacks, Forgotten(f), submit[f].trace \notin disturbed
       PROVE  f \notin log'
  BY <1>7, <1>11 DEF Forgotten, Undisturbed, IsIgnored, Stands
<1> QED
  BY <1>6, <1>8, <1>9, <1>10, <1>11 DEF IInv

LEMMA CrashStep ==
    ASSUME IInv, Crash
    PROVE  IInv'
<1>1. /\ UNCHANGED <<feedback, exists, log>>
      /\ \A o \in Officers : ignore'[o] = Idle /\ ~Rewriting(o)'
      /\ disturbed' = disturbed \cup
            (IF \E o \in Officers : ignore[o].at = "truncated" THEN Traces
             ELSE {t \in Traces : BeingSubmitted(t) \/ BeingIgnored(t)})
  BY NewAndIdle DEF Crash, Disturb, Rewriting
<1>2. ASSUME NEW f \in Feedbacks
      PROVE  /\ submit[f].at = "new" => submit'[f] = submit[f]
             /\ submit[f].at # "new" =>
                   /\ submit'[f] \in Submissions /\ submit'[f].at = "done"
                   /\ submit'[f].trace = submit[f].trace
                   /\ submit'[f].rating = submit[f].rating
                   /\ submit'[f].decision = submit[f].decision
  <2>1. submit'[f] = IF submit[f].at = "new" THEN submit[f]
                     ELSE [submit[f] EXCEPT !.at = "done"]
    BY DEF Crash
  <2>2. CASE submit[f].at = "new"
    BY <2>1, <2>2
  <2>3. CASE submit[f].at # "new"
    <3>1. PICK x \in Submissions : x = submit[f]
      BY <2>3, SubmissionOf DEF IInv
    <3>2. submit'[f] = [x EXCEPT !.at = "done"]
      BY <2>1, <2>3, <3>1
    <3> QED
      BY <2>3, <3>1, <3>2, DoneSubmission
  <2> QED
    BY <2>2, <2>3
<1>3. TypeOK'
  <2>1. submit' \in [Feedbacks -> Submissions \cup {NotSubmitted}]
    <3>1. DOMAIN submit' = Feedbacks /\ submit' = [f \in Feedbacks |-> submit'[f]]
      BY DEF Crash
    <3> QED
      BY <1>2, <3>1 DEF IInv, TypeOK
  <2>2. ignore' \in [Officers -> Removals \cup {Idle}]
    BY DEF Crash
  <2> QED
    BY <1>1, <2>1, <2>2 DEF IInv, TypeOK
<1>4. Submitted'
  <2> SUFFICES ASSUME NEW g \in Feedbacks, Undisturbed(g)'
               PROVE  SubmissionOk(g)' /\ \A p \in Officers : RemovalOk(g, p)'
    BY DEF Submitted
  <2>1. submit[g].at # "new"
    BY <1>2 DEF Undisturbed
  <2>2. submit[g].trace \in Traces
    BY <2>1, SubmissionOf DEF IInv, Submissions
  <2>3. /\ submit[g].trace \notin disturbed
        /\ \A o \in Officers : ignore[o].at # "truncated"
        /\ ~BeingSubmitted(submit[g].trace) /\ ~IsIgnored(g)
    BY <1>1, <1>2, <2>1, <2>2 DEF Undisturbed, IsIgnored
  <2>4. submit[g].at = "done"
    BY <2>1, <2>3 DEF BeingSubmitted, About
  <2>5. g \in log <=> Stands(g)
    BY <2>1, <2>3, <2>4 DEF IInv, Submitted, Undisturbed, SubmissionOk
  <2>6. Stands(g)' <=> Stands(g)
    BY <1>1, <1>2, <2>1 DEF Stands
  <2>7. ~IsIgnored(g)'
    BY <1>1, NewAndIdle DEF IsIgnored, BeingIgnored
  <2> QED
    BY <1>1, <1>2, <2>1, <2>5, <2>6, <2>7, NewAndIdle DEF SubmissionOk, RemovalOk
<1>5. Unsubmitted'
  BY <1>1, <1>2 DEF IInv, Unsubmitted
<1>6. OneRewrite' /\ NoFileNoLog'
  BY <1>1 DEF IInv, OneRewrite, NoFileNoLog
<1> QED
  BY <1>3, <1>4, <1>5, <1>6 DEF IInv

-----------------------------------------------------------------------------
(* The invariant, and what follows from it.                                 *)

LEMMA InitIInv == Init => IInv
BY NewAndIdle DEF Init, IInv, TypeOK, Submitted, Undisturbed, Unsubmitted, OneRewrite,
                  NoFileNoLog, Rewriting

LEMMA StutterIInv == IInv /\ UNCHANGED vars => IInv'
BY DEF vars, IInv, TypeOK, Submitted, Undisturbed, SubmissionOk, RemovalOk, IsIgnored,
       BeingIgnored, Stands, Unsubmitted, OneRewrite, NoFileNoLog, Rewriting

LEMMA NextIInv == IInv /\ [Next]_vars => IInv'
<1> SUFFICES ASSUME IInv, [Next]_vars PROVE IInv'
  OBVIOUS
<1>1. ASSUME NEW f \in Feedbacks, NEW t \in Traces, NEW rating \in Ratings,
             Insert(f, t, rating)
      PROVE  IInv'
  BY <1>1, InsertStep
<1>2. ASSUME NEW o \in Officers, NEW t \in Traces, DeleteFeedback(o, t)
      PROVE  IInv'
  BY <1>2, DeleteStep
<1>3. ASSUME NEW f \in Feedbacks, LookUp(f) \/ AppendCorrection(f) \/ AppendFails(f)
      PROVE  IInv'
  BY <1>3, LookUpStep, AppendStep
<1>4. ASSUME NEW o \in Officers,
             ReadLog(o) \/ Truncate(o) \/ WriteKept(o) \/ RemovalFails(o)
      PROVE  IInv'
  BY <1>4, ReadLogStep, TruncateStep, WriteKeptStep, RemovalFailsStep
<1>5. CASE Crash
  BY <1>5, CrashStep
<1>6. CASE UNCHANGED vars
  BY <1>6, StutterIInv
<1> QED
  BY <1>1, <1>2, <1>3, <1>4, <1>5, <1>6 DEF Next

\* What each stage of a rewrite holds of the feedback on other traces, however
\* submissions, removals, failures and restarts interleave
\* (_remove_correction_jsonl_entries).
THEOREM InductiveInvariant == Spec => []IInv
BY InitIInv, NextIInv, PTL DEF Spec

\* Table, log and activities keep their types (submit_feedback, ignore_feedback).
THEOREM TypeCorrect == Spec => []TypeOK
<1>1. IInv => TypeOK
  BY DEF IInv
<1> QED
  BY <1>1, InductiveInvariant, PTL

\* Where nothing has collided and all is done, the log holds what the feedback
\* table says it should (_append_correction_jsonl,
\* _remove_correction_jsonl_entries).
THEOREM LogIsRight == Spec => []LogMatchesFeedback
<1>1. IInv => LogMatchesFeedback
  <2> SUFFICES ASSUME IInv, NEW t \in Traces, Settled(t), NEW f \in About(t)
               PROVE  /\ (f \in feedback /\ submit[f].rating = "negative") => f \in log
                      /\ f \in log =>
                            /\ f \in feedback
                            /\ submit[f].rating = "positive" => submit[f].decision \notin Agreed
    BY DEF LogMatchesFeedback
  <2>1. f \in Feedbacks /\ submit[f].trace = t /\ submit[f].at = "done" /\ Undisturbed(f)
    BY DEF Settled, About, BeingSubmitted, Undisturbed
  <2>2. ~IsIgnored(f) /\ \A o \in Officers : ignore[o].at # "truncated"
    BY <2>1 DEF Settled, IsIgnored
  <2>3. f \in log <=> Stands(f)
    BY <2>1, <2>2 DEF IInv, Submitted, SubmissionOk
  <2> QED
    BY <2>3, DecisionsAssumption DEF Stands, Actionable
<1> QED
  BY <1>1, InductiveInvariant, PTL

LEMMA ForgottenStep ==
    ASSUME IInv, [Next]_vars, NEW f \in Feedbacks, Forgotten(f),
           submit[f].trace \notin disturbed'
    PROVE  f \notin log'
<1>1. CASE \E o \in Officers : WriteKept(o)
  BY <1>1, WriteKeptStep DEF WriteKept
<1>2. ASSUME NEW g \in Feedbacks, AppendCorrection(g)
      PROVE  f \notin log'
  BY <1>2 DEF AppendCorrection, Forgotten
<1>3. CASE \E o \in Officers : Truncate(o)
  BY <1>3 DEF Truncate
<1>4. CASE UNCHANGED log
  BY <1>4 DEF Forgotten
<1>5. /\ \A g \in Feedbacks : LookUp(g) \/ AppendFails(g) => UNCHANGED log
      /\ \A g \in Feedbacks, t \in Traces, r \in Ratings : Insert(g, t, r) => UNCHANGED log
      /\ \A o \in Officers : ReadLog(o) \/ RemovalFails(o) => UNCHANGED log
      /\ \A o \in Officers, t \in Traces : DeleteFeedback(o, t) => UNCHANGED log
      /\ Crash \/ UNCHANGED vars => UNCHANGED log
  BY DEF LookUp, AppendFails, Insert, ReadLog, RemovalFails, DeleteFeedback, Crash, vars
<1> QED
  BY <1>1, <1>2, <1>3, <1>4, <1>5 DEF Next

\* A rewrite on behalf of one trace does not bring back what was ignored on
\* another (_remove_correction_jsonl_entries).
THEOREM NothingComesBack == Spec => ForgottenStaysForgotten
<1>1. IInv /\ [Next]_vars =>
        [\A f \in Feedbacks :
            (Forgotten(f) /\ submit[f].trace \notin disturbed') => f \notin log']_vars
  BY ForgottenStep
<1> QED
  BY <1>1, InductiveInvariant, PTL DEF Spec, ForgottenStaysForgotten

=============================================================================
