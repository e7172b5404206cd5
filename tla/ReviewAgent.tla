------------------------------ MODULE ReviewAgent ------------------------------
(***************************************************************************)
(* A run of the review agent from its request to the end of its stream     *)
(* (backend/agents/review_agent.py, run_review): for every document type   *)
(* with enough feedback it asks the LLM once, or twice if the answer is no *)
(* JSON, and goes through what the answer recommends.  Whatever it does    *)
(* not expect ends the stream where it is, without the "done" event.       *)
(*                                                                         *)
(* Insights sees of a review only the two awaits between its look at the   *)
(* blacklist and its insert, for one document type, the Subject.  Here the *)
(* rest is added, and the officers are those of Insights.                  *)
(***************************************************************************)
EXTENDS Naturals, SequencesExt

CONSTANTS
    Recs, Proposals, MissingRules, Clauses, Stripped, Topic, Profiles, Default,
    Shipped, Officers, Reviews, QueriesMayFail, MaxLines,     \* see Insights
    DocTypes,
    Subject,       \* the document type whose recommendations are followed
    MinEvidence,   \* min_evidence of the requests
    NoType,        \* a line with no document type, or no line of JSON
    Logs,          \* what correction_examples.jsonl may say: for every line,
                   \* its document type
    Replies        \* the lists of recommendations the LLM may answer with

\* What an item of a list is to the code: of an unknown rec_type; with an
\* evidence_count that int() refuses; sound; or sound but for a proposal that
\* is neither a text nor an object, which shows after the insert.
Kinds == {"unknown", "uncounted", "sound", "odd"}
Items == [kind : Kinds, proposal : Proposals]

ASSUME DocTypesAssumption == Subject \in DocTypes
ASSUME LogsAssumption ==
    /\ MinEvidence \in Nat \ {0}
    /\ NoType \notin DocTypes
    /\ Logs \subseteq Seq(DocTypes \cup {NoType})
ASSUME RepliesAssumption == Replies \subseteq Seq(Items) \ {<<>>}

VARIABLES
    status, proposed, regulatory_db, few_shot, blacklist, officer, swept,
    disturbed,
    agent          \* the reviews: where each one is, the document types it has
                   \* still to do, the one it is at, the answers it has had
                   \* for it, the rest of its list; and what the answers about
                   \* the Subject have proposed so far

\* What only officers write, but for the recommendations there are.
tables == <<status, proposed, regulatory_db, few_shot, blacklist, swept>>
vars   == <<tables, officer, disturbed, agent>>

Ended == {"done", "broken", "stopped"}

At(v, stage) == agent[v].at = stage
Item(v)      == Head(agent[v].items)
OnSubject(v) == agent[v].doc = Subject

\* A review as Insights sees it.
Review ==
    [v \in Reviews |->
        CASE OnSubject(v) /\ At(v, "checked") ->
                [at |-> "not_blacklisted", proposal |-> Item(v).proposal]
          [] OnSubject(v) /\ At(v, "clear") ->
                [at |-> "not_pending", proposal |-> Item(v).proposal]
          [] OTHER -> [at |-> "idle", proposal |-> "nothing"]]

Insights == INSTANCE Insights WITH review <- Review

Fresh(at) == [at |-> at, todo |-> <<>>, doc |-> Subject, answers |-> 0,
              items |-> <<>>, given |-> {}]

Init ==
    /\ agent = [v \in Reviews |-> Fresh("idle")]
    /\ Insights!Init

\* The stream ends early, and its variables are gone.
Ends(v, how) ==
    /\ agent' = [agent EXCEPT ![v] = Fresh(how)]
    /\ UNCHANGED <<tables, officer, disturbed>>

-----------------------------------------------------------------------------
\* _load_corrections and _group_by_doc_type: the document types in the order
\* they first appear in.
GroupByDocType(log) ==
    FoldLeft(LAMBDA types, t : IF t = NoType \/ t \in ToSet(types) THEN types
                                                       ELSE Append(types, t),
             <<>>, log)

Enough(log, t) == Cardinality({i \in DOMAIN log : log[i] = t}) >= MinEvidence

\* Types with too few entries are passed over.
LoadCorrections(v) ==
    /\ At(v, "idle")
    /\ \E log \in Logs :
          agent' = [agent EXCEPT ![v].at = "loaded",
                       ![v].todo = SelectSeq(GroupByDocType(log),
                                             LAMBDA t : Enough(log, t))]
    /\ UNCHANGED <<tables, officer, disturbed>>

\* Without its configuration create_llm, called for the first type, raises.
NoLlm(v) ==
    /\ At(v, "loaded")
    /\ agent[v].todo # <<>>
    /\ Ends(v, "broken")

NextType(v) ==
    /\ agent[v].at \in {"loaded", "next"}
    /\ agent[v].todo # <<>>
    /\ agent' = [agent EXCEPT ![v].at = "asking", ![v].todo = Tail(@),
                              ![v].doc = Head(agent[v].todo)]
    /\ UNCHANGED <<tables, officer, disturbed>>

Finish(v) ==
    /\ agent[v].at \in {"loaded", "next"}
    /\ agent[v].todo = <<>>
    /\ agent' = [agent EXCEPT ![v] = [Fresh("done") EXCEPT !.given = agent[v].given]]
    /\ UNCHANGED <<tables, officer, disturbed>>

-----------------------------------------------------------------------------
(* The LLM answers.                                                         *)

\* No JSON: asked again, once.
Unreadable(v) ==
    /\ At(v, "asking")
    /\ agent' = [agent EXCEPT
          ![v].at = IF agent[v].answers = 0 THEN "asking" ELSE "next",
          ![v].answers = 1 - @]
    /\ UNCHANGED <<tables, officer, disturbed>>

\* The call raises, or recommends nothing: on to the next document type.
CallFails(v) ==
    /\ At(v, "asking")
    /\ agent' = [agent EXCEPT ![v].at = "next", ![v].answers = 0]
    /\ UNCHANGED <<tables, officer, disturbed>>

\* JSON, but no object, or something else than a list of objects in it.
Malformed(v) ==
    /\ At(v, "asking")
    /\ Ends(v, "broken")

Proposed(items) ==
    {items[i].proposal : i \in {i \in DOMAIN items :
                                    items[i].kind \in {"sound", "odd"}}}

Reply(v) ==
    /\ At(v, "asking")
    /\ \E items \in Replies :
          agent' = [agent EXCEPT ![v].at = "list", ![v].items = items,
                       ![v].answers = 0,
                       ![v].given = agent[v].given \cup
                           IF OnSubject(v) THEN Proposed(items) ELSE {}]
    /\ UNCHANGED <<tables, officer, disturbed>>

-----------------------------------------------------------------------------
(* The list.                                                                *)

\* Faulty: break instead of continue.
AfterItemBreaking(v) == [agent[v] EXCEPT !.at = "next", !.items = <<>>]

\* The rest of the list, or the next document type.
AfterItem(v) ==
    [agent[v] EXCEPT !.at = IF Tail(agent[v].items) = <<>> THEN "next" ELSE "list",
                     !.items = Tail(agent[v].items)]

PassOver(v) == agent' = [agent EXCEPT ![v] = AfterItem(v)]

UnknownType(v) ==
    /\ At(v, "list")
    /\ Item(v).kind = "unknown"
    /\ PassOver(v)
    /\ UNCHANGED <<tables, officer, disturbed>>

Uncounted(v) ==
    /\ At(v, "list")
    /\ Item(v).kind = "uncounted"
    /\ Ends(v, "broken")

\* Faulty: what is pending already is not looked for.
IsBlacklistedOnly(v) ==
    /\ At(v, "list")
    /\ Item(v).kind \in {"sound", "odd"}
    /\ OnSubject(v)
    /\ UNCHANGED <<tables, officer>>
    /\ \/ /\ Item(v).proposal \in blacklist
          /\ PassOver(v)
          /\ UNCHANGED disturbed
       \/ /\ Item(v).proposal \notin blacklist
          /\ agent' = [agent EXCEPT ![v].at = "clear"]
          /\ Insights!Begins(Topic[Item(v).proposal])

\* is_blacklisted, for the Subject.  It answers False when its query raises.
IsBlacklisted(v) ==
    /\ At(v, "list")
    /\ Item(v).kind \in {"sound", "odd"}
    /\ OnSubject(v)
    /\ UNCHANGED <<tables, officer>>
    /\ \/ /\ Item(v).proposal \in blacklist
          /\ PassOver(v)
          /\ UNCHANGED disturbed
       \/ /\ Item(v).proposal \notin blacklist
          /\ agent' = [agent EXCEPT ![v].at = "checked"]
          /\ Insights!Begins(Topic[Item(v).proposal])
       \/ /\ Item(v).proposal \in blacklist
          /\ QueriesMayFail
          /\ agent' = [agent EXCEPT ![v].at = "checked"]
          /\ disturbed' = disturbed \cup {Topic[Item(v).proposal]}

\* has_pending_recommendation answers likewise.
HasPending(v) ==
    /\ At(v, "checked")
    /\ UNCHANGED <<tables, officer>>
    /\ \/ /\ Insights!HasPending(Item(v).proposal)
          /\ PassOver(v)
          /\ UNCHANGED disturbed
       \/ /\ ~ Insights!HasPending(Item(v).proposal)
          /\ agent' = [agent EXCEPT ![v].at = "clear"]
          /\ UNCHANGED disturbed
       \/ /\ Insights!HasPending(Item(v).proposal)
          /\ QueriesMayFail
          /\ agent' = [agent EXCEPT ![v].at = "clear"]
          /\ disturbed' = disturbed \cup {Topic[Item(v).proposal]}

\* A recommendation is inserted, and then logged: an odd proposal has no "get".
AfterInsert(v) ==
    agent' = [agent EXCEPT ![v] =
                IF Item(v).kind = "odd" THEN Fresh("broken")
                                        ELSE AfterItem(v)]

\* uuid4 gives an id that nobody has; MC instances have enough of them.
CreateRecommendation(v) ==
    /\ At(v, "clear")
    /\ \E r \in Recs : status[r] = "absent"
    /\ Insights!CreateRecommendation(CHOOSE r \in Recs : status[r] = "absent",
                                     Item(v).proposal)
    /\ AfterInsert(v)
    /\ UNCHANGED <<regulatory_db, few_shot, blacklist, officer, swept, disturbed>>

\* An item about another document type: blacklisted, pending or inserted.
Elsewhere(v) ==
    /\ At(v, "list")
    /\ Item(v).kind \in {"sound", "odd"}
    /\ ~ OnSubject(v)
    /\ PassOver(v) \/ AfterInsert(v)
    /\ UNCHANGED <<tables, officer, disturbed>>

-----------------------------------------------------------------------------
\* The client closes the stream, or the insert raises.
Stops(v) ==
    /\ agent[v].at \notin Ended \cup {"idle"}
    /\ Ends(v, "stopped")

\* The officers' requests are those of Insights.
Officer ==
    /\ UNCHANGED agent
    /\ \E o \in Officers : Insights!Request(o)

\* So is a crash, which Insights does not notice if there is nothing under way
\* that it knows.
Crash ==
    /\ agent' = [v \in Reviews |->
          IF At(v, "idle") THEN agent[v] ELSE
          IF agent[v].at \in Ended THEN agent[v]
                                   ELSE Fresh("stopped")]
    /\ \/ Insights!Crash
       \/ /\ \A o \in Officers : ~ Insights!Busy(o)
          /\ \A v \in Reviews : ~ Insights!Reviewing(v)
          /\ UNCHANGED <<tables, officer, disturbed>>

\* What the agent does by itself.
Proceed(v) ==
    \/ NoLlm(v) \/ NextType(v) \/ Finish(v)
    \/ Unreadable(v) \/ CallFails(v) \/ Malformed(v) \/ Reply(v)
    \/ UnknownType(v) \/ Uncounted(v)
    \/ IsBlacklisted(v) \/ HasPending(v) \/ CreateRecommendation(v)
    \/ Elsewhere(v)

Next ==
    \/ \E v \in Reviews : LoadCorrections(v) \/ Proceed(v) \/ Stops(v)
    \/ Officer
    \/ Crash

\* A review goes on by itself; the LLM client has a timeout.  Clients and
\* officers may do nothing.
Spec == Init /\ [][Next]_vars /\ \A v \in Reviews : WF_vars(Proceed(v))

-----------------------------------------------------------------------------
(* Properties.                                                              *)

\* A stream that has begun ends, and if it ends with its "done" event, every
\* proposal of a well-formed item that the LLM has made for the Subject is a
\* recommendation, made by this review, by another one or before: a blacklisted,
\* a pending or a malformed neighbour takes nothing else with it, and the
\* blacklist holds nothing that no officer can see.
ReviewsFinish ==
    \A v \in Reviews :
        ~ At(v, "idle") ~>
            /\ agent[v].at \in Ended
            /\ At(v, "done") =>
                  \A p \in agent[v].given : \E r \in Recs : proposed[r] = p

\* With all its retries, malformed answers and early ends, and whatever other
\* document types do in between, the agent does to the stores what Insights
\* says a review does, and nothing else.
InsightsSpec == Insights!Spec

=============================================================================
