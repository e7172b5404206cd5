------------------------------- MODULE Pipeline -------------------------------
(***************************************************************************)
(* One run of the LangGraph pipeline of backend/agents/graph.py over one   *)
(* document, while the compliance officer keeps changing the regulatory    *)
(* database under it.                                                      *)
(*                                                                         *)
(*   guardrail -> router -> compliance -> evaluator -> END                 *)
(*       |           |          ^            |-> escalate -> END           *)
(*      END        expiry       +- increment_retry                         *)
(*                                                                         *)
(* A node runs to its end without yielding to the event loop's other       *)
(* handlers as far as shared state is concerned, with one exception:       *)
(* compliance_node reads the clause list, then awaits build_index_async,   *)
(* and only then asks the LLM.  It is two actions here, and the database   *)
(* may change between them as it may between any two nodes.                *)
(*                                                                         *)
(* What an LLM answers is any answer its parser accepts.  Texts, contexts  *)
(* and prompts are left out; a score and a confidence are on one side of   *)
(* their threshold or on the other.                                        *)
(***************************************************************************)
EXTENDS Naturals

CONSTANTS
    DocTypes,       \* the categories compliance is judged for
    Clauses,        \* clause names
    HighRisk,       \* the clauses whose risk_level is HIGH
    Tenants,        \* what a request may give as its tenant_id
    Profiles,       \* the tenants regulatory_db.json has a profile for
    Default,        \* the "default" profile
    Upper,          \* Upper[t] is t.upper()
    ShippedDb,      \* the regulatory database the run starts with
    MaxRetries      \* _MAX_RETRIES

Unknown    == "UNKNOWN"
ExpiryScan == "EXPIRY_CLAUSE_SCAN"
NotRouted  == "NOT_ROUTED"   \* the empty doc_type a run starts with
Categories == DocTypes \cup {Unknown, ExpiryScan}
RegulatoryDbs == [Profiles -> [DocTypes -> SUBSET Clauses]]

ASSUME DocTypesAssumption == DocTypes \cap {Unknown, ExpiryScan, NotRouted} = {}
ASSUME HighRiskAssumption == HighRisk \subseteq Clauses
ASSUME ProfilesAssumption == /\ Default \in Profiles
                             /\ Upper \in [Tenants -> Tenants]
ASSUME ShippedDbAssumption == ShippedDb \in RegulatoryDbs
ASSUME MaxRetriesAssumption == MaxRetries \in Nat

VARIABLES
    doc,                \* the request: the guardrail's and the expiry rule's
                        \* opinion of the text, and the tenant it is judged for
    regulatory_db,      \* compliance_agent._regulatory_db
    pc,                 \* the node to run next
    doc_type,
    routing_confidence, \* "low" is below _ROUTING_CONFIDENCE_THRESHOLD
    required_read,      \* compliance_node's required_clauses across its await
    required_clauses,
    clause_results,     \* the clauses reported on, and those reported MISSING
    evaluation_score,   \* "low" is below _EVAL_THRESHOLD
    final_decision,
    retry_count,
    attempts            \* compliance_node's completions (its log entries)

request   == <<doc>>
shared    == <<regulatory_db>>
routing   == <<doc_type, routing_confidence>>
judgement == <<required_read, required_clauses, clause_results, attempts>>
vars == <<doc, regulatory_db, pc, doc_type, routing_confidence, required_read,
          required_clauses, clause_results, evaluation_score, final_decision,
          retry_count, attempts>>

Reports == {r \in [on : SUBSET Clauses, missing : SUBSET Clauses] :
                r.missing \subseteq r.on}
NoReport == [on |-> {}, missing |-> {}]

Decisions == {"PENDING", "BLOCKED", "SCANNED", "APPROVED", "REJECTED",
              "ESCALATE", "RE-ROUTE"}
Nodes == {"guardrail", "router", "expiry", "compliance", "await_index",
          "evaluator", "increment_retry", "escalate"}
Over == {"end", "failed"}

TypeOK ==
    /\ doc \in [clean : BOOLEAN, expired : BOOLEAN, tenant : Tenants]
    /\ regulatory_db \in RegulatoryDbs
    /\ pc \in Nodes \cup Over
    /\ doc_type \in Categories \cup {NotRouted}
    /\ routing_confidence \in {"low", "ok"}
    /\ required_read \in SUBSET Clauses
    /\ required_clauses \in SUBSET Clauses
    /\ clause_results \in Reports
    /\ evaluation_score \in {"low", "ok"}
    /\ final_decision \in Decisions
    /\ retry_count \in 0..MaxRetries
    /\ attempts \in 0..(MaxRetries + 1)

Init ==
    /\ doc \in [clean : BOOLEAN, expired : BOOLEAN, tenant : Tenants]
    /\ regulatory_db = ShippedDb
    /\ pc = "guardrail"
    /\ doc_type = NotRouted
    /\ routing_confidence = "low"
    /\ required_read = {}
    /\ required_clauses = {}
    /\ clause_results = NoReport
    /\ evaluation_score = "low"
    /\ final_decision = "PENDING"
    /\ retry_count = 0
    /\ attempts = 0

-----------------------------------------------------------------------------
(* guardrail_node, router_node and expiry_node.                             *)

Guardrail ==
    /\ pc = "guardrail"
    /\ \/ /\ doc.clean
          /\ pc' = "router"
          /\ UNCHANGED final_decision
       \/ /\ ~doc.clean
          /\ pc' = "end"
          /\ final_decision' = "BLOCKED"
    /\ UNCHANGED <<request, shared, routing, judgement, evaluation_score,
                   retry_count>>

\* Faulty: the router is asked again when it names no category.
RouteAfterRouterAgain(category) ==
    IF category = ExpiryScan THEN "expiry"
    ELSE IF category = Unknown THEN "router" ELSE "compliance"

RouteAfterRouter(category) ==
    IF category = ExpiryScan THEN "expiry" ELSE "compliance"

\* A reply that names no category is UNKNOWN with confidence 0.
Router ==
    /\ pc = "router"
    /\ \E category \in Categories, confidence \in {"low", "ok"} :
          /\ doc_type' = category
          /\ routing_confidence' = confidence
          /\ pc' = RouteAfterRouter(category)
    /\ UNCHANGED <<request, shared, judgement, evaluation_score,
                   final_decision, retry_count>>

Expiry ==
    /\ pc = "expiry"
    /\ pc' = "end"
    /\ final_decision' = "SCANNED"
    /\ UNCHANGED <<request, shared, routing, judgement, evaluation_score,
                   retry_count>>

-----------------------------------------------------------------------------
(* compliance_node, cut at its await of build_index_async.                  *)

\* The profile is chosen by tenant alone: a profile that does not list the
\* document type is not completed from the default one.
QueryRegulatoryDb(db, type, tenant) ==
    LET profile == IF tenant \in Profiles THEN tenant
                   ELSE IF Upper[tenant] \in Profiles THEN Upper[tenant]
                   ELSE Default
    IN  IF type \in DocTypes THEN db[profile][type] ELSE {}

\* The two answers given without asking the LLM leave clause_results as the
\* previous attempt left it.
ComplianceWithoutLlm(decision) ==
    /\ required_clauses' = {}
    /\ final_decision' = decision
    /\ attempts' = attempts + 1
    /\ pc' = "evaluator"
    /\ UNCHANGED <<required_read, clause_results>>

Compliance ==
    /\ pc = "compliance"
    /\ LET required == QueryRegulatoryDb(regulatory_db, doc_type, doc.tenant)
       IN  \/ /\ doc_type = Unknown
              /\ ComplianceWithoutLlm("ESCALATE")
           \/ /\ doc_type # Unknown
              /\ required = {}
              /\ ComplianceWithoutLlm("APPROVED")
           \/ /\ doc_type # Unknown
              /\ required # {}
              /\ required_read' = required
              /\ pc' = "await_index"
              /\ UNCHANGED <<required_clauses, clause_results, final_decision,
                             attempts>>
    /\ UNCHANGED <<request, shared, routing, evaluation_score, retry_count>>

\* Faulty: only HIGH-risk clauses have to be present.
ClauseVerdictHighOnly(missing) ==
    IF missing \cap HighRisk = {} THEN "APPROVED" ELSE "ESCALATE"

\* The verdict of a report with these clauses MISSING, before the overrides.
ClauseVerdict(missing) ==
    IF missing = {} THEN "APPROVED"
    ELSE IF missing \cap HighRisk # {} THEN "ESCALATE"
    ELSE "REJECTED"

\* Faulty: the expiry override is applied last.
ComplianceVerdictSwapped(missing, expired, confidence) ==
    IF missing = {} /\ expired THEN "REJECTED"
    ELSE IF confidence = "low" THEN "ESCALATE"
    ELSE ClauseVerdict(missing)

\* The overrides: expiry first, then the low confidence, which wins.
ComplianceVerdict(missing, expired, confidence) ==
    IF confidence = "low" THEN "ESCALATE"
    ELSE IF ClauseVerdict(missing) = "APPROVED" /\ expired THEN "REJECTED"
    ELSE ClauseVerdict(missing)

\* Faulty: the clause list is read again when the report is stored.
JudgeClausesRereading ==
    /\ pc = "await_index"
    /\ \E missing \in SUBSET required_read :
          /\ clause_results' = [on |-> required_read, missing |-> missing]
          /\ final_decision' =
                ComplianceVerdict(missing, doc.expired, routing_confidence)
    /\ required_clauses' =
          QueryRegulatoryDb(regulatory_db, doc_type, doc.tenant)
    /\ attempts' = attempts + 1
    /\ pc' = "evaluator"
    /\ UNCHANGED <<request, shared, routing, required_read, evaluation_score,
                   retry_count>>

JudgeClauses ==
    /\ pc = "await_index"
    /\ \E missing \in SUBSET required_read :
          /\ clause_results' = [on |-> required_read, missing |-> missing]
          /\ final_decision' =
                ComplianceVerdict(missing, doc.expired, routing_confidence)
    /\ required_clauses' = required_read
    /\ attempts' = attempts + 1
    /\ pc' = "evaluator"
    /\ UNCHANGED <<request, shared, routing, required_read, evaluation_score,
                   retry_count>>

-----------------------------------------------------------------------------
(* eval_node, _eval_route, _increment_retry and _escalate_node.             *)

\* An unreadable reply counts as 0.5, and clamping NaN to [0, 1] gives 1.0.
EvalReplies == {"faithful", "unfaithful", "nan", "unreadable"}
ParseEval(reply) == IF reply \in {"faithful", "nan"} THEN "ok" ELSE "low"

\* Faulty: one retry too many.
EvalRouteOffByOne(score) ==
    IF score = "ok" THEN "end"
    ELSE IF retry_count <= MaxRetries THEN "increment_retry"
    ELSE "escalate"

\* Faulty: exhausted retries end the run with what compliance said.
EvalRouteNoEscalation(score) ==
    IF score = "low" /\ retry_count < MaxRetries THEN "increment_retry"
    ELSE "end"

EvalRoute(score) ==
    IF score = "ok" THEN "end"
    ELSE IF retry_count < MaxRetries THEN "increment_retry"
    ELSE "escalate"

Evaluate ==
    /\ pc = "evaluator"
    /\ \E reply \in EvalReplies :
          /\ evaluation_score' = ParseEval(reply)
          /\ pc' = EvalRoute(ParseEval(reply))
    /\ UNCHANGED <<request, shared, routing, judgement, final_decision,
                   retry_count>>

IncrementRetry ==
    /\ pc = "increment_retry"
    /\ retry_count' = retry_count + 1
    /\ final_decision' = "RE-ROUTE"
    /\ pc' = "compliance"
    /\ UNCHANGED <<request, shared, routing, judgement, evaluation_score>>

Escalate ==
    /\ pc = "escalate"
    /\ final_decision' = "ESCALATE"
    /\ pc' = "end"
    /\ UNCHANGED <<request, shared, routing, judgement, evaluation_score,
                   retry_count>>

\* An LLM call or the index raises, or eval_node gets a null score: the
\* exception leaves graph.astream and the run has no verdict.
NodeRaises ==
    /\ pc \in {"router", "expiry", "await_index", "evaluator"}
    /\ pc' = "failed"
    /\ UNCHANGED <<request, shared, routing, judgement, evaluation_score,
                   final_decision, retry_count>>

-----------------------------------------------------------------------------
(* The compliance officer, between any two steps of the run.  Approving     *)
(* adds to the default profile only; undoing removes from every profile,    *)
(* and by a laxer name comparison than approving uses, so that it may also  *)
(* take away a clause the file was shipped with.                            *)

ApproveClause(type, c) ==
    /\ c \notin regulatory_db[Default][type]
    /\ regulatory_db' = [regulatory_db EXCEPT ![Default][type] = @ \cup {c}]

UndoClause(type, c) ==
    regulatory_db' = [p \in Profiles |->
                        [regulatory_db[p] EXCEPT ![type] = @ \ {c}]]

ReloadRegulatoryDb ==
    /\ \E type \in DocTypes, c \in Clauses :
          ApproveClause(type, c) \/ UndoClause(type, c)
    /\ UNCHANGED <<doc, pc, doc_type, routing_confidence, required_read,
                   required_clauses, clause_results, evaluation_score,
                   final_decision, retry_count, attempts>>

-----------------------------------------------------------------------------

Step ==
    \/ Guardrail \/ Router \/ Expiry
    \/ Compliance \/ JudgeClauses
    \/ Evaluate \/ IncrementRetry \/ Escalate
    \/ NodeRaises

Next == Step \/ ReloadRegulatoryDb

\* Every node returns or raises (the LLM clients have timeouts), and the
\* graph schedules the next one; the officer owes nobody anything.
Spec == Init /\ [][Next]_vars /\ WF_vars(Step)

-----------------------------------------------------------------------------
(* Properties.                                                              *)

Judged == pc = "end" /\ attempts > 0

\* APPROVED is earned: the run was judged faithful, and unless no clause was
\* required, every required clause was reported PRESENT in a document that has
\* not expired and whose routing was trusted.  A retry that fails to overwrite
\* RE-ROUTE, an override that is skipped or a score that is looked at before it
\* is refreshed would break it (compliance_node, _eval_route).
ApprovedIsEarned ==
    (Judged /\ final_decision = "APPROVED") =>
        /\ evaluation_score = "ok"
        /\ required_clauses # {} =>
              /\ clause_results = [on |-> required_clauses, missing |-> {}]
              /\ ~doc.expired
              /\ routing_confidence = "ok"

\* A missing HIGH-risk clause or a shaky routing always ends with a human, on
\* whichever attempt the run ends (compliance_node's overrides, which a later
\* attempt must not undo).
RiskGoesToHuman ==
    /\ Judged
    /\ required_clauses # {}
    /\ \/ clause_results.missing \cap HighRisk # {}
       \/ routing_confidence = "low"
    => final_decision = "ESCALATE"

\* The report, the clause list stored with it and the verdict are about one and
\* the same clause list, the one read before compliance_node's await, although
\* the officer may have changed the database during the await or between two
\* attempts.
OneClauseListPerReport ==
    required_clauses # {} => clause_results.on = required_clauses

\* An unfaithful last attempt never decides: a judged run ends with a low score
\* only after all its retries, and then it is escalated, whatever compliance
\* said on that attempt (_eval_route, _escalate_node).
UnfaithfulNeverDecides ==
    (Judged /\ evaluation_score = "low") =>
        /\ final_decision = "ESCALATE"
        /\ retry_count = MaxRetries
        /\ attempts = MaxRetries + 1

\* The pipeline keeps the promise of AnalysisContract: at most MaxRetries + 1
\* attempts, one verdict, and no provisional RE-ROUTE or PENDING among them.
Contract == INSTANCE AnalysisContract WITH
    phase   <- IF pc = "end" THEN "closed"
               ELSE IF pc = "failed" THEN "aborted" ELSE "open",
    verdict <- IF pc = "end" THEN final_decision ELSE "NONE"

ContractSpec == Contract!Spec

\* Every run ends, whatever the LLM answers and however often the officer
\* changes the database: the retry loop is bounded (_eval_route).
Terminates == <>(pc \in Over)

=============================================================================
