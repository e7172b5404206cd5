------------------------------- MODULE Insights -------------------------------
(***************************************************************************)
(* The feedback loop's second half: the review agent turns feedback into   *)
(* recommendations, and compliance officers approve, reject or undo them   *)
(* (backend/api/routes.py, backend/agents/review_agent.py).  Their effects *)
(* are spread over four stores that no transaction joins:                  *)
(*                                                                         *)
(*   recommendations, recommendation_blacklist     SQLite tables           *)
(*   regulatory_db.json, few_shot_examples.jsonl   files                   *)
(*                                                                         *)
(* All handlers run on one event loop.  A history_store call commits by    *)
(* itself and is an await: other handlers run before and after it.  The    *)
(* code between two awaits, file access included, is one step.  A request  *)
(* that is refused (404, 400, 409) changes nothing.                        *)
(*                                                                         *)
(* Everything is keyed by document type, so the module is about one.  A    *)
(* proposal is the stored text of a recommendation; several texts may name *)
(* the same clause (a plain string, a JSON object).  Names that differ     *)
(* only in case are one clause.  Names that differ in surrounding blanks   *)
(* are two: approving compares the blanks, undoing strips them.            *)
(***************************************************************************)
EXTENDS Naturals

CONSTANTS
    Recs,           \* the recommendation ids there are to hand out
    Proposals,      \* the texts the review agent's LLM may propose
    MissingRules,   \* the proposals of type missing_rule; the others are
                    \* comprehension_failures
    Clauses,        \* clause names, in lower case
    Stripped,       \* Stripped[c]: the name c without surrounding blanks
    Topic,          \* Topic[p]: the clause a missing rule names; what else a
                    \* comprehension failure is about
    Profiles,       \* the tenants of regulatory_db.json
    Default,        \* the "default" profile
    Shipped,        \* Shipped[t]: the clauses profile t is shipped with
    Officers,       \* requests that may be in flight at once
    Reviews,        \* runs of the review agent that may be in flight at once
    QueriesMayFail, \* whether a query of the review agent may raise
    MaxLines        \* bound: approvals that may fail after their append, so
                    \* that a rec_id has at most this many few-shot lines

Nothing == "nothing"    \* what a recommendation not created yet proposes
Topics == {Topic[p] : p \in Proposals}

ASSUME ProposalsAssumption ==
    /\ MissingRules \subseteq Proposals
    /\ DOMAIN Topic = Proposals /\ Nothing \notin Proposals
    /\ \A p \in MissingRules : Topic[p] \in Clauses
    /\ \A p \in Proposals \ MissingRules : Topic[p] \notin Clauses
ASSUME ProfilesAssumption ==
    /\ Default \in Profiles
    /\ Shipped \in [Profiles -> SUBSET Clauses]
ASSUME StrippedAssumption == DOMAIN Stripped = Clauses
ASSUME QueriesAssumption == QueriesMayFail \in BOOLEAN
ASSUME MaxLinesAssumption == MaxLines \in Nat \ {0}

VARIABLES
    status,         \* of each recommendation, "absent" until it is created
    proposed,       \* what each recommendation proposes
    regulatory_db,  \* how often each profile lists each clause
    few_shot,       \* how many lines of the few-shot file bear each rec_id
    blacklist,      \* the recommendation_blacklist table
    officer,        \* the requests in flight
    review,         \* the reviews in flight
    swept,          \* history: the recommendations whose clause undoing a
                    \* namesake has taken away since they were applied
    disturbed       \* history: the topics on which two activities have ever
                    \* overlapped, or a failure has cut one short

stores == <<status, proposed, regulatory_db, few_shot, blacklist>>
vars == <<status, proposed, regulatory_db, few_shot, blacklist, officer,
          review, swept, disturbed>>

Statuses == {"absent", "pending", "approved", "rejected", "undone"}

\* What an officer asks for, and the status it is refused without; /undo
\* withdraws an approved recommendation and reopens a rejected one.
Requests == {"approve", "reject", "withdraw", "reopen"}
ActsOn == [approve |-> "pending", reject |-> "pending",
           withdraw |-> "approved", reopen |-> "rejected"]

\* "read" holds the row get_recommendation returned; "patched" has changed a
\* file and awaits the new status; "marked" has set the status and awaits the
\* blacklist.
OfficerStates ==
    [at : {"read", "patched", "marked"}, request : Requests, rec : Recs]
NoRequest == [at |-> "idle", request |-> "none", rec |-> Nothing]
ReviewStates == [at : {"not_blacklisted", "not_pending"}, proposal : Proposals]
NoReview == [at |-> "idle", proposal |-> Nothing]

TypeOK ==
    /\ status \in [Recs -> Statuses]
    /\ proposed \in [Recs -> Proposals \cup {Nothing}]
    /\ regulatory_db \in [Profiles -> [Clauses -> Nat]]
    /\ few_shot \in [Recs -> Nat]
    /\ blacklist \in SUBSET Proposals
    /\ officer \in [Officers -> OfficerStates \cup {NoRequest}]
    /\ review \in [Reviews -> ReviewStates \cup {NoReview}]
    /\ swept \in SUBSET Recs
    /\ disturbed \in SUBSET Topics

Init ==
    /\ status = [r \in Recs |-> "absent"]
    /\ proposed = [r \in Recs |-> Nothing]
    /\ regulatory_db = [t \in Profiles |-> [c \in Clauses |->
                            IF c \in Shipped[t] THEN 1 ELSE 0]]
    /\ few_shot = [r \in Recs |-> 0]
    /\ blacklist = {}
    /\ officer = [o \in Officers |-> NoRequest]
    /\ review = [v \in Reviews |-> NoReview]
    /\ swept = {}
    /\ disturbed = {}

-----------------------------------------------------------------------------
TopicOf(r) == Topic[proposed[r]]

\* Two clauses that undoing takes for one.
SameName(c, d) == Stripped[c] = Stripped[d]

(* Bookkeeping of the history variables.                                    *)

\* The recommendations whose clause undoing r takes away though it is not r's
\* own: it has the same name but for blanks, or it is r's and was approved again
\* while r's line was already gone.
Namesakes(r) == {q \in Recs \ {r} : /\ proposed[q] \in MissingRules
                                    /\ SameName(TopicOf(q), TopicOf(r))
                                    /\ TopicOf(q) # TopicOf(r) \/ r \in swept}

Busy(o) == officer[o].at # "idle"
Reviewing(v) == review[v].at # "idle"

OfficersOn(t) == {o \in Officers : Busy(o) /\ TopicOf(officer[o].rec) = t}
ReviewsOn(t) == {v \in Reviews : Reviewing(v) /\ Topic[review[v].proposal] = t}

\* An activity on t begins: it disturbs t if another one is under way.
Begins(t) ==
    disturbed' = IF OfficersOn(t) \cup ReviewsOn(t) = {}
                 THEN disturbed ELSE disturbed \cup {t}

\* A request that has already written something ends here.
HalfDone(o) == officer[o].at \in {"patched", "marked"}

-----------------------------------------------------------------------------
(* history_store, one committed statement each.                             *)

SetStatus(r, new) == status' = [status EXCEPT ![r] = new]
AddToBlacklist(p) == blacklist' = blacklist \cup {p}
RemoveFromBlacklist(p) == blacklist' = blacklist \ {p}
HasPending(p) == \E r \in Recs : status[r] = "pending" /\ proposed[r] = p

CreateRecommendation(r, p) ==
    /\ status[r] = "absent"
    /\ status' = [status EXCEPT ![r] = "pending"]
    /\ proposed' = [proposed EXCEPT ![r] = p]

-----------------------------------------------------------------------------
(* Officers' requests.                                                      *)

To(o, at) == officer' = [officer EXCEPT ![o].at = at]
Done(o) == officer' = [officer EXCEPT ![o] = NoRequest]

\* get_recommendation, and the checks on the row it returned: the row stays
\* what it was, whatever happens to the table before the handler goes on.
ReadRecommendation(o, request, r) ==
    /\ ~Busy(o)
    /\ status[r] = ActsOn[request]
    /\ officer' = [officer EXCEPT ![o] =
                      [at |-> "read", request |-> request, rec |-> r]]
    /\ Begins(TopicOf(r))
    /\ UNCHANGED <<stores, review, swept>>

At(o, at, request) ==
    /\ officer[o].at = at
    /\ officer[o].request = request

\* Faulty: the clause is appended without looking for it first.
ApplyRecommendationBlindly(o) ==
    /\ At(o, "read", "approve")
    /\ LET r == officer[o].rec
       IN  IF proposed[r] \in MissingRules
           THEN /\ regulatory_db' = [regulatory_db EXCEPT ![Default][TopicOf(r)] = @ + 1]
                /\ swept' = swept \ {r}
                /\ UNCHANGED few_shot
           ELSE /\ few_shot[r] < MaxLines
                /\ few_shot' = [few_shot EXCEPT ![r] = @ + 1]
                /\ UNCHANGED <<regulatory_db, swept>>
    /\ To(o, "patched")
    /\ UNCHANGED <<status, proposed, blacklist, review, disturbed>>

\* Faulty: a clause that is listed already counts as applied.
ApplyRecommendationTwice(o) ==
    /\ At(o, "read", "approve")
    /\ LET r == officer[o].rec
       IN  IF proposed[r] \in MissingRules
           THEN /\ regulatory_db' = [regulatory_db EXCEPT ![Default][TopicOf(r)] = 1]
                /\ swept' = swept \ {r}
                /\ UNCHANGED few_shot
           ELSE /\ few_shot[r] < MaxLines
                /\ few_shot' = [few_shot EXCEPT ![r] = @ + 1]
                /\ UNCHANGED <<regulatory_db, swept>>
    /\ To(o, "patched")
    /\ UNCHANGED <<status, proposed, blacklist, review, disturbed>>

\* approve_recommendation between its two awaits.  The clause goes into the
\* default profile; if it is there already the request is refused with 409.
ApplyRecommendation(o) ==
    /\ At(o, "read", "approve")
    /\ LET r == officer[o].rec
           t == TopicOf(r)
       IN  \/ /\ proposed[r] \in MissingRules
              /\ regulatory_db[Default][t] > 0
              /\ Done(o)
              /\ UNCHANGED <<regulatory_db, few_shot, swept>>
           \/ /\ proposed[r] \in MissingRules
              /\ regulatory_db[Default][t] = 0
              /\ regulatory_db' = [regulatory_db EXCEPT ![Default][t] = @ + 1]
              /\ swept' = swept \ {r}
              /\ To(o, "patched")
              /\ UNCHANGED few_shot
           \/ /\ proposed[r] \notin MissingRules
              /\ few_shot[r] < MaxLines
              /\ few_shot' = [few_shot EXCEPT ![r] = @ + 1]
              /\ To(o, "patched")
              /\ UNCHANGED <<regulatory_db, swept>>
    /\ UNCHANGED <<status, proposed, blacklist, review, disturbed>>

\* _remove_clause_from_reg_db: whatever is called like r's clause, but for
\* blanks, leaves every profile.
RemoveClause(r) ==
    /\ regulatory_db' = [t \in Profiles |-> [c \in Clauses |->
           IF SameName(c, TopicOf(r)) THEN 0 ELSE regulatory_db[t][c]]]
    /\ swept' = swept \cup Namesakes(r)

\* Faulty: withdrawing takes away one line, without looking for it.
WithdrawRecommendationLine(o) ==
    /\ At(o, "read", "withdraw")
    /\ few_shot' = [few_shot EXCEPT ![officer[o].rec] = @ - 1]
    /\ To(o, "patched")
    /\ UNCHANGED <<status, proposed, regulatory_db, blacklist, review, swept,
                   disturbed>>

\* Faulty: withdrawing forgets the few-shot examples.
WithdrawRecommendationClauseOnly(o) ==
    /\ At(o, "read", "withdraw")
    /\ IF proposed[officer[o].rec] \in MissingRules
       THEN RemoveClause(officer[o].rec)
       ELSE UNCHANGED <<regulatory_db, swept>>
    /\ To(o, "patched")
    /\ UNCHANGED <<status, proposed, few_shot, blacklist, review, disturbed>>

\* The first half of undoing an approved recommendation: the clause and its
\* namesakes leave every profile, a few-shot example leaves by its rec_id.
WithdrawRecommendation(o) ==
    /\ At(o, "read", "withdraw")
    /\ LET r == officer[o].rec
       IN  \/ /\ proposed[r] \in MissingRules
              /\ RemoveClause(r)
              /\ UNCHANGED few_shot
           \/ /\ proposed[r] \notin MissingRules
              /\ few_shot' = [few_shot EXCEPT ![r] = 0]
              /\ UNCHANGED <<regulatory_db, swept>>
    /\ To(o, "patched")
    /\ UNCHANGED <<status, proposed, blacklist, review, disturbed>>

\* Faulty: a withdrawn recommendation goes back to pending.
FinishPatchReopening(o) ==
    /\ \/ At(o, "patched", "approve") /\ SetStatus(officer[o].rec, "approved")
       \/ At(o, "patched", "withdraw") /\ SetStatus(officer[o].rec, "pending")
    /\ Done(o)
    /\ UNCHANGED <<proposed, regulatory_db, few_shot, blacklist, review,
                   swept, disturbed>>

\* set_recommendation_status at the end of an approval or a withdrawal.
FinishPatch(o) ==
    /\ \/ At(o, "patched", "approve") /\ SetStatus(officer[o].rec, "approved")
       \/ At(o, "patched", "withdraw") /\ SetStatus(officer[o].rec, "undone")
    /\ Done(o)
    /\ UNCHANGED <<proposed, regulatory_db, few_shot, blacklist, review,
                   swept, disturbed>>

\* set_recommendation_status of reject_recommendation and of reopening.
MarkFirst(o) ==
    /\ \/ At(o, "read", "reject") /\ SetStatus(officer[o].rec, "rejected")
       \/ At(o, "read", "reopen") /\ SetStatus(officer[o].rec, "pending")
    /\ To(o, "marked")
    /\ UNCHANGED <<proposed, regulatory_db, few_shot, blacklist, review,
                   swept, disturbed>>

\* Faulty: reopening leaves the proposal on the blacklist.
UpdateBlacklistAddOnly(o) ==
    /\ \/ At(o, "marked", "reject") /\ AddToBlacklist(proposed[officer[o].rec])
       \/ At(o, "marked", "reopen") /\ UNCHANGED blacklist
    /\ Done(o)
    /\ UNCHANGED <<status, proposed, regulatory_db, few_shot, review, swept,
                   disturbed>>

\* Their second await.
UpdateBlacklist(o) ==
    /\ \/ /\ At(o, "marked", "reject")
          /\ AddToBlacklist(proposed[officer[o].rec])
       \/ /\ At(o, "marked", "reopen")
          /\ RemoveFromBlacklist(proposed[officer[o].rec])
    /\ Done(o)
    /\ UNCHANGED <<status, proposed, regulatory_db, few_shot, review, swept,
                   disturbed>>

\* A history_store call raises (the database is locked, the disk is full):
\* the request ends with 500 and what it has written stays.
RequestFails(o) ==
    /\ Busy(o)
    /\ Done(o)
    /\ disturbed' = IF HalfDone(o) THEN disturbed \cup {TopicOf(officer[o].rec)}
                    ELSE disturbed
    /\ UNCHANGED <<stores, review, swept>>

-----------------------------------------------------------------------------
(* run_review, for one proposal after the other.                            *)

\* is_blacklisted.  It answers False when the query raises.
ReviewProposal(v, p) ==
    /\ ~Reviewing(v)
    /\ review' = [review EXCEPT ![v] = [at |-> "not_blacklisted", proposal |-> p]]
    /\ \/ /\ p \notin blacklist
          /\ Begins(Topic[p])
       \/ /\ p \in blacklist
          /\ QueriesMayFail
          /\ disturbed' = disturbed \cup {Topic[p]}
    /\ UNCHANGED <<stores, officer, swept>>

\* has_pending_recommendation.  It answers False when the query raises.
ReviewPending(v) ==
    /\ review[v].at = "not_blacklisted"
    /\ LET p == review[v].proposal
       IN  \/ /\ HasPending(p)
              /\ review' = [review EXCEPT ![v] = NoReview]
              /\ UNCHANGED disturbed
           \/ /\ ~HasPending(p)
              /\ review' = [review EXCEPT ![v].at = "not_pending"]
              /\ UNCHANGED disturbed
           \/ /\ HasPending(p)
              /\ QueriesMayFail
              /\ review' = [review EXCEPT ![v].at = "not_pending"]
              /\ disturbed' = disturbed \cup {Topic[p]}
    /\ UNCHANGED <<stores, officer, swept>>

ReviewCreate(v, r) ==
    /\ review[v].at = "not_pending"
    /\ CreateRecommendation(r, review[v].proposal)
    /\ review' = [review EXCEPT ![v] = NoReview]
    /\ UNCHANGED <<regulatory_db, few_shot, blacklist, officer, swept,
                   disturbed>>

\* The client closes the event stream, or the insert raises.
ReviewStops(v) ==
    /\ Reviewing(v)
    /\ review' = [review EXCEPT ![v] = NoReview]
    /\ UNCHANGED <<stores, officer, swept, disturbed>>

-----------------------------------------------------------------------------
\* The process dies and is started again: what was in flight is gone.
Crash ==
    /\ \/ \E o \in Officers : Busy(o)
       \/ \E v \in Reviews : Reviewing(v)
    /\ officer' = [o \in Officers |-> NoRequest]
    /\ review' = [v \in Reviews |-> NoReview]
    /\ disturbed' = disturbed \cup
          {TopicOf(officer[o].rec) : o \in {x \in Officers : HalfDone(x)}}
    /\ UNCHANGED <<stores, swept>>

Request(o) ==
    \/ \E request \in Requests, r \in Recs : ReadRecommendation(o, request, r)
    \/ ApplyRecommendation(o) \/ WithdrawRecommendation(o) \/ FinishPatch(o)
    \/ MarkFirst(o) \/ UpdateBlacklist(o)
    \/ RequestFails(o)

Review(v) ==
    \/ \E p \in Proposals : ReviewProposal(v, p)
    \/ ReviewPending(v)
    \/ \E r \in Recs : ReviewCreate(v, r)
    \/ ReviewStops(v)

Next ==
    \/ \E o \in Officers : Request(o)
    \/ \E v \in Reviews : Review(v)
    \/ Crash

Spec == Init /\ [][Next]_vars

-----------------------------------------------------------------------------
(* Properties.                                                              *)

\* Nobody is working on t and nothing has ever disturbed it.
Settled(t) ==
    /\ t \notin disturbed
    /\ OfficersOn(t) = {}

\* A clause is listed at most once per profile, however many officers approve
\* recommendations for it at the same moment and whatever fails: the check for
\* an existing clause and the append are not separated by an await.
NoDuplicateClause ==
    \A t \in Profiles, c \in Clauses : regulatory_db[t][c] <= 1

\* On a settled topic an approved recommendation is in force: undoing another
\* one takes nothing of its away, unless their clauses have the same name but
\* for blanks.  (Then it does: the other one stays "approved", and is not in
\* force, though no two requests overlapped and none failed.)
ApprovedInForce ==
    \A r \in Recs :
        (status[r] = "approved" /\ Settled(TopicOf(r)) /\ r \notin swept) =>
            IF proposed[r] \in MissingRules
            THEN regulatory_db[Default][TopicOf(r)] = 1
            ELSE few_shot[r] = 1

\* On a settled topic nothing is in force without a recommendation that is
\* approved at this moment: rejecting, withdrawing and reopening leave neither
\* a clause nor a few-shot example behind.
NothingElseInForce ==
    /\ \A c \in Clauses : (Settled(c) /\ c \notin Shipped[Default]) =>
          (regulatory_db[Default][c] > 0 =>
              \E r \in Recs : status[r] = "approved" /\ proposed[r] \in MissingRules
                               /\ TopicOf(r) = c)
    /\ \A r \in Recs : (few_shot[r] > 0 /\ Settled(TopicOf(r))) =>
          status[r] = "approved"

\* On a settled topic the blacklist holds exactly the proposals of rejected
\* recommendations, and no proposal waits for an officer twice.
BlacklistMatchesRejections ==
    \A p \in Proposals : Settled(Topic[p]) =>
        /\ p \in blacklist <=>
              \E r \in Recs : status[r] = "rejected" /\ proposed[r] = p
        /\ \A r1, r2 \in Recs :
              /\ proposed[r1] = p /\ status[r1] \in {"pending", "rejected"}
              /\ proposed[r2] = p /\ status[r2] \in {"pending", "rejected"}
              => r1 = r2

\* A recommendation on an undisturbed topic moves only along the edges its
\* handlers document, so that an "undone" one is never applied again.
Lifecycle ==
    [][\A r \in Recs : (status'[r] # status[r] /\ TopicOf(r)' \notin disturbed') =>
          <<status[r], status'[r]>> \in
              {<<"absent", "pending">>, <<"pending", "approved">>,
               <<"pending", "rejected">>, <<"approved", "undone">>,
               <<"rejected", "pending">>}]_vars

=============================================================================
