---------------------------- MODULE PipelineProofs ----------------------------
(***************************************************************************)
(* Proofs about Pipeline, for every set of document types, clauses,        *)
(* tenants and profiles and every MaxRetries: type correctness, the safety *)
(* invariants that MCPipeline checks on a small instance, the refinement   *)
(* of AnalysisContract, and the bound on the steps of a run.               *)
(*                                                                         *)
(* None of the invariants is inductive by itself: what the evaluator makes *)
(* of a verdict depends on where the run is.  IInv says, node by node,     *)
(* what has been decided so far and on what grounds.                       *)
(***************************************************************************)
EXTENDS Pipeline, TLAPS

\* The grounds of the verdict compliance has given on its last attempt.
Grounds ==
    required_clauses # {} =>
        /\ final_decision = "APPROVED" =>
              /\ clause_results.missing = {}
              /\ ~doc.expired
              /\ routing_confidence = "ok"
        /\ clause_results.missing \cap HighRisk # {}
              => final_decision = "ESCALATE"
        /\ routing_confidence = "low" => final_decision = "ESCALATE"

Compliant == {"APPROVED", "REJECTED", "ESCALATE"}

\* What is known at each node.
AtNode ==
    /\ pc \in {"guardrail", "router", "expiry"} =>
          /\ attempts = 0
          /\ retry_count = 0
    /\ pc \in {"compliance", "await_index"} => attempts = retry_count
    /\ pc = "await_index" => required_read # {}
    /\ pc \in {"evaluator", "increment_retry", "escalate"} =>
          /\ attempts = retry_count + 1
          /\ final_decision \in Compliant
          /\ Grounds
    /\ pc = "increment_retry" => retry_count < MaxRetries
    /\ pc = "escalate" => retry_count = MaxRetries /\ evaluation_score = "low"
    /\ pc = "end" =>
          \/ /\ attempts = 0
             /\ final_decision \in {"BLOCKED", "SCANNED"}
          \/ /\ attempts = retry_count + 1
             /\ final_decision \in Compliant
             /\ Grounds
             /\ evaluation_score = "low" =>
                   final_decision = "ESCALATE" /\ retry_count = MaxRetries

\* The inductive invariant.
IInv == TypeOK /\ OneClauseListPerReport /\ AtNode

-----------------------------------------------------------------------------
\* Whatever tenant asks, the list it gets is a set of known clauses.
LEMMA QueryType ==
    ASSUME NEW db \in RegulatoryDbs, NEW type, NEW tenant \in Tenants
    PROVE  QueryRegulatoryDb(db, type, tenant) \in SUBSET Clauses
BY ProfilesAssumption DEF QueryRegulatoryDb, RegulatoryDbs

\* The officer's changes keep the shape of the database.
LEMMA ReloadType ==
    ASSUME regulatory_db \in RegulatoryDbs, ReloadRegulatoryDb
    PROVE  regulatory_db' \in RegulatoryDbs
<1> PICK type \in DocTypes, c \in Clauses :
        ApproveClause(type, c) \/ UndoClause(type, c)
  BY DEF ReloadRegulatoryDb
<1>1. CASE ApproveClause(type, c)
  BY <1>1, ProfilesAssumption DEF ApproveClause, RegulatoryDbs
<1>2. CASE UndoClause(type, c)
  BY <1>2 DEF UndoClause, RegulatoryDbs
<1> QED
  BY <1>1, <1>2

\* The overrides of compliance_node: what each verdict says of the report.
LEMMA VerdictGrounds ==
    ASSUME NEW missing \in SUBSET Clauses, NEW expired \in BOOLEAN,
           NEW confidence \in {"low", "ok"}
    PROVE  LET v == ComplianceVerdict(missing, expired, confidence)
           IN  /\ v \in Compliant
               /\ v = "APPROVED" => missing = {} /\ ~expired /\ confidence = "ok"
               /\ missing \cap HighRisk # {} => v = "ESCALATE"
               /\ confidence = "low" => v = "ESCALATE"
BY DEF ComplianceVerdict, ClauseVerdict, Compliant

-----------------------------------------------------------------------------
LEMMA InitIInv == Init => IInv
BY ShippedDbAssumption, MaxRetriesAssumption
   DEF Init, IInv, TypeOK, OneClauseListPerReport, AtNode, Reports, NoReport, NotRouted,
       Nodes, Over, Decisions

LEMMA NextIInv == IInv /\ [Next]_vars => IInv'
<1> SUFFICES ASSUME IInv, [Next]_vars PROVE IInv'
  OBVIOUS
<1> USE MaxRetriesAssumption DEF IInv, Nodes, Over, Decisions, Categories, NotRouted,
        Unknown, ExpiryScan, Compliant
<1>1. CASE Guardrail
  BY <1>1 DEF Guardrail, TypeOK, OneClauseListPerReport, AtNode, Grounds,
              request, shared, routing, judgement
<1>2. CASE Router
  BY <1>2, DocTypesAssumption
     DEF Router, RouteAfterRouter, TypeOK, OneClauseListPerReport, AtNode,
         Grounds, request, shared, judgement
<1>3. CASE Expiry
  BY <1>3 DEF Expiry, TypeOK, OneClauseListPerReport, AtNode, Grounds,
              request, shared, routing, judgement
<1>4. CASE Compliance
  <2> DEFINE required ==
                QueryRegulatoryDb(regulatory_db, doc_type, doc.tenant)
  <2>1. required \in SUBSET Clauses
    BY QueryType DEF TypeOK
  <2> HIDE DEF required
  <2>2. CASE ComplianceWithoutLlm("ESCALATE") \/ ComplianceWithoutLlm("APPROVED")
    BY <1>4, <2>2 DEF Compliance, ComplianceWithoutLlm, TypeOK,
       OneClauseListPerReport, AtNode, Grounds, request, shared, routing
  <2>3. CASE /\ required # {}
             /\ required_read' = required
             /\ pc' = "await_index"
             /\ UNCHANGED <<required_clauses, clause_results, final_decision,
                            attempts>>
    BY <1>4, <2>1, <2>3 DEF Compliance, TypeOK,
       OneClauseListPerReport, AtNode, Grounds, request, shared, routing
  <2> QED
    BY <1>4, <2>2, <2>3 DEF Compliance, required
<1>5. CASE JudgeClauses
  <2> PICK missing \in SUBSET required_read :
        /\ clause_results' = [on |-> required_read, missing |-> missing]
        /\ final_decision' =
              ComplianceVerdict(missing, doc.expired, routing_confidence)
    BY <1>5 DEF JudgeClauses
  <2>1. /\ missing \in SUBSET Clauses
        /\ doc.expired \in BOOLEAN
        /\ routing_confidence \in {"low", "ok"}
    BY DEF TypeOK
  <2>2. /\ final_decision' \in Compliant
        /\ Grounds'
    BY <1>5, <2>1, VerdictGrounds
       DEF JudgeClauses, Grounds, request, routing
  <2>3. clause_results' \in Reports
    BY DEF Reports, TypeOK
  <2>4. TypeOK'
    BY <1>5, <2>2, <2>3
       DEF JudgeClauses, TypeOK, AtNode, request, shared, routing
  <2>5. OneClauseListPerReport'
    BY <1>5 DEF JudgeClauses, OneClauseListPerReport
  <2>6. AtNode'
    BY <1>5, <2>2 DEF JudgeClauses, AtNode
  <2> QED
    BY <2>4, <2>5, <2>6
<1>6. CASE Evaluate
  <2> PICK reply \in EvalReplies :
        /\ evaluation_score' = ParseEval(reply)
        /\ pc' = EvalRoute(ParseEval(reply))
    BY <1>6 DEF Evaluate
  <2> DEFINE score == ParseEval(reply)
  <2>1. score \in {"low", "ok"}
    BY DEF ParseEval
  <2>2. /\ pc' \in {"end", "increment_retry", "escalate"}
        /\ pc' = "end" => score = "ok"
        /\ pc' = "increment_retry" => score = "low" /\ retry_count < MaxRetries
        /\ pc' = "escalate" => score = "low" /\ ~(retry_count < MaxRetries)
    BY <2>1 DEF EvalRoute
  <2> HIDE DEF score
  <2>3. TypeOK'
    BY <1>6, <2>1, <2>2
       DEF Evaluate, TypeOK, request, shared, routing, judgement, score
  <2>4. OneClauseListPerReport'
    BY <1>6 DEF Evaluate, OneClauseListPerReport, judgement
  <2>5. Grounds'
    BY <1>6 DEF Evaluate, AtNode, Grounds, request, routing, judgement
  <2>6. AtNode'
    BY <1>6, <2>1, <2>2, <2>5
       DEF Evaluate, AtNode, TypeOK, request, shared, routing, judgement, score
  <2> QED
    BY <2>3, <2>4, <2>6
<1>7. CASE IncrementRetry
  BY <1>7 DEF IncrementRetry, TypeOK, OneClauseListPerReport, AtNode, Grounds,
              request, shared, routing, judgement
<1>8. CASE Escalate
  BY <1>8 DEF Escalate, TypeOK, OneClauseListPerReport, AtNode, Grounds,
              request, shared, routing, judgement
<1>9. CASE NodeRaises
  BY <1>9 DEF NodeRaises, TypeOK, OneClauseListPerReport, AtNode, Grounds,
              request, shared, routing, judgement
<1>10. CASE ReloadRegulatoryDb
  BY <1>10, ReloadType DEF ReloadRegulatoryDb, TypeOK, OneClauseListPerReport,
                           AtNode, Grounds
<1>11. CASE UNCHANGED vars
  BY <1>11 DEF vars, TypeOK, OneClauseListPerReport, AtNode, Grounds
<1> QED
  BY <1>1, <1>2, <1>3, <1>4, <1>5, <1>6, <1>7, <1>8, <1>9, <1>10, <1>11
     DEF Next, Step

LEMMA InductiveInvariant == Spec => []IInv
BY InitIInv, NextIInv, PTL DEF Spec

-----------------------------------------------------------------------------
\* The run's fields always hold values of the program's types; in particular
\* retry_count never exceeds MaxRetries and compliance runs at most once more.
THEOREM TypeCorrect == Spec => []TypeOK
BY InductiveInvariant, PTL DEF IInv

\* An APPROVED run was faithful, and complete unless nothing was required.
THEOREM ApprovalIsEarned == Spec => []ApprovedIsEarned
<1>1. IInv => ApprovedIsEarned
  BY DEF IInv, TypeOK, AtNode, OneClauseListPerReport, Grounds, Reports,
         ApprovedIsEarned, Judged, Compliant
<1> QED
  BY <1>1, InductiveInvariant, PTL

\* A missing HIGH-risk clause or an untrusted routing ends with a human.
THEOREM RiskReachesHuman == Spec => []RiskGoesToHuman
<1>1. IInv => RiskGoesToHuman
  BY DEF IInv, TypeOK, AtNode, Grounds, RiskGoesToHuman, Judged
<1> QED
  BY <1>1, InductiveInvariant, PTL

\* The report, the stored clause list and the verdict are about one list, no
\* matter when the officer changes the database.
THEOREM OneClauseList == Spec => []OneClauseListPerReport
BY InductiveInvariant, PTL DEF IInv

\* A run that ends unfaithful has used all its retries and is escalated.
THEOREM UnfaithfulIsEscalated == Spec => []UnfaithfulNeverDecides
<1>1. IInv => UnfaithfulNeverDecides
  BY MaxRetriesAssumption
     DEF IInv, TypeOK, AtNode, UnfaithfulNeverDecides, Judged
<1> QED
  BY <1>1, InductiveInvariant, PTL

-----------------------------------------------------------------------------
\* Every step of the pipeline is a step of the contract or changes nothing
\* the contract talks about.
LEMMA ContractStep ==
    IInv /\ [Next]_vars => [Contract!Next]_(Contract!contractVars)
<1> SUFFICES ASSUME IInv, [Next]_vars
             PROVE  [Contract!Next]_(Contract!contractVars)
  OBVIOUS
<1> USE MaxRetriesAssumption
    DEF Contract!Next, Contract!contractVars, Contract!Judge, Contract!Close,
        Contract!Abort, Contract!UnjudgedVerdict, Contract!JudgedVerdict,
        IInv, AtNode, Compliant
<1>1. CASE Guardrail
  BY <1>1 DEF Guardrail, judgement
<1>2. CASE Router
  BY <1>2 DEF Router, RouteAfterRouter, judgement
<1>3. CASE Expiry
  BY <1>3 DEF Expiry, judgement
<1>4. CASE Compliance
  BY <1>4 DEF Compliance, ComplianceWithoutLlm, TypeOK
<1>5. CASE JudgeClauses
  BY <1>5 DEF JudgeClauses, TypeOK
<1>6. CASE Evaluate
  BY <1>6 DEF Evaluate, EvalRoute, ParseEval, EvalReplies, judgement, TypeOK
<1>7. CASE IncrementRetry
  BY <1>7 DEF IncrementRetry, judgement
<1>8. CASE Escalate
  BY <1>8 DEF Escalate, judgement, TypeOK
<1>9. CASE NodeRaises
  BY <1>9 DEF NodeRaises, judgement
<1>10. CASE ReloadRegulatoryDb
  BY <1>10 DEF ReloadRegulatoryDb
<1>11. CASE UNCHANGED vars
  BY <1>11 DEF vars
<1> QED
  BY <1>1, <1>2, <1>3, <1>4, <1>5, <1>6, <1>7, <1>8, <1>9, <1>10, <1>11
     DEF Next, Step

\* The pipeline implements AnalysisContract: at most MaxRetries + 1 attempts,
\* at most one verdict, and never a provisional one.
THEOREM ImplementsContract == Spec => ContractSpec
<1>1. Init => Contract!Init
  BY DEF Init, Contract!Init
<1> QED
  BY <1>1, ContractStep, InductiveInvariant, PTL
     DEF Spec, ContractSpec, Contract!Spec

-----------------------------------------------------------------------------
(* Progress, without fairness.                                              *)

NodeRank ==
    IF pc = "guardrail" THEN 6
    ELSE IF pc = "router" THEN 5
    ELSE IF pc = "compliance" THEN 4
    ELSE IF pc = "await_index" THEN 3
    ELSE IF pc = "evaluator" THEN 2
    ELSE IF pc \in Over THEN 0
    ELSE 1

\* The steps a run may still take.
Remaining == 4 * (MaxRetries - retry_count) + NodeRank

\* The retry loop is bounded, whatever the LLM answers and whatever the officer
\* does meanwhile: every step of a run leaves it fewer steps to take, of which
\* it has 4 * MaxRetries + 6 at first, and the officer's leave it as many
\* (_eval_route, _increment_retry).
THEOREM StepsRunOut ==
    Spec => /\ [](Remaining \in 0..(4 * MaxRetries + 6))
            /\ [][/\ Step => Remaining' < Remaining
                  /\ ReloadRegulatoryDb => Remaining' = Remaining]_vars
<1> USE MaxRetriesAssumption
<1>1. IInv => Remaining \in 0..(4 * MaxRetries + 6)
  BY DEF IInv, TypeOK, Remaining, NodeRank
<1>2. ASSUME IInv, Step PROVE Remaining' < Remaining
  <2>1. retry_count \in 0..MaxRetries /\ pc \in Nodes \cup Over
    BY <1>2 DEF IInv, TypeOK
  <2>2. CASE IncrementRetry
    <3>1. retry_count < MaxRetries
      BY <1>2, <2>2 DEF IInv, AtNode, IncrementRetry
    <3> QED
      BY <2>1, <2>2, <3>1 DEF IncrementRetry, Remaining, NodeRank, Over
  <2>3. CASE ~ IncrementRetry
    <3>1. UNCHANGED retry_count
      BY <1>2, <2>3 DEF Step, Guardrail, Router, Expiry, Compliance, JudgeClauses,
         Evaluate, Escalate, NodeRaises
    <3>2. NodeRank' < NodeRank /\ NodeRank' \in Nat /\ NodeRank \in Nat
      <4>1. CASE Guardrail \/ Expiry \/ Escalate \/ NodeRaises \/ JudgeClauses
        BY <4>1 DEF Guardrail, Expiry, Escalate, NodeRaises, JudgeClauses,
           NodeRank, Over
      <4>2. CASE Router
        BY <4>2 DEF Router, RouteAfterRouter, NodeRank, Over
      <4>3. CASE Compliance
        BY <4>3 DEF Compliance, ComplianceWithoutLlm, NodeRank, Over
      <4>4. CASE Evaluate
        BY <4>4 DEF Evaluate, EvalRoute, NodeRank, Over
      <4> QED
        BY <1>2, <2>3, <4>1, <4>2, <4>3, <4>4 DEF Step
    <3>3. /\ 4 * (MaxRetries - retry_count) \in Nat
          /\ Remaining = 4 * (MaxRetries - retry_count) + NodeRank
          /\ Remaining' = 4 * (MaxRetries - retry_count) + NodeRank'
      BY <2>1, <3>1 DEF Remaining
    <3> QED
      BY <3>2, <3>3
  <2> QED
    BY <2>2, <2>3
<1>3. ReloadRegulatoryDb => Remaining' = Remaining
  BY DEF ReloadRegulatoryDb, Remaining, NodeRank
<1>4. IInv /\ [Next]_vars =>
         [/\ Step => Remaining' < Remaining
          /\ ReloadRegulatoryDb => Remaining' = Remaining]_vars
  BY <1>2, <1>3
<1> QED
  BY <1>1, <1>4, InductiveInvariant, PTL DEF Spec

=============================================================================
