------------------------- MODULE ClauseLibraryProofs -------------------------
(***************************************************************************)
(* Proofs about ClauseLibrary, for any tenants, clauses, runs, documents   *)
(* and any number of changes: the copies of the library agree, a status    *)
(* has its effect, and a refreshed verdict is under the list in force.     *)
(***************************************************************************)
EXTENDS ClauseLibrary, TLAPS

\* While the process is up, the agent's copy is the valid part of the API's
\* unless its reload has failed.  (Either may be older than the file.)
Copies ==
    /\ Default \in DOMAIN file
    /\ Default \in DOMAIN api
    /\ Default \in DOMAIN agent
    /\ serving /\ ~ lagging => agent = Validated(api)

\* The clause of a request that is past its change of the file, and of a
\* status that no request is about to change, is in the file and the API's copy.
Applied ==
    \A c \in Clauses \ (interrupted \cup swept) :
        officer[c] = "approving" \/ (officer[c] = "idle" /\ status[c] = "approved")
           => c \in file[Default] /\ (serving => c \in api[Default])

\* A fresh run has judged by what the agent has now, and no run outlives the
\* process.
Judgements ==
    \A r \in Runs :
        /\ run[r] # "idle" => serving
        /\ run[r] = "judged" /\ r \in fresh =>
              judged[r] = QueryRegulatoryDb(agent, TenantOf[DocOf[r]])

IInv == TypeOK /\ Copies /\ Applied /\ Judgements

-----------------------------------------------------------------------------
(* Databases.                                                               *)

LEMMA DatabaseType ==
    ASSUME NEW db
    PROVE  db \in Databases <=>
              DOMAIN db \subseteq Tenants /\ db \in [DOMAIN db -> Lists]
<1>1. ASSUME db \in Databases
      PROVE  DOMAIN db \subseteq Tenants /\ db \in [DOMAIN db -> Lists]
  BY <1>1 DEF Databases
<1>2. ASSUME DOMAIN db \subseteq Tenants, db \in [DOMAIN db -> Lists]
      PROVE  db \in Databases
  <2>1. DOMAIN db \in SUBSET Tenants
    BY <1>2
  <2> QED
    BY <1>2, <2>1 DEF Databases
<1> QED
  BY <1>1, <1>2

LEMMA ValidatedType ==
    ASSUME NEW db \in Databases
    PROVE  /\ Validated(db) \in Databases
           /\ DOMAIN Validated(db) = DOMAIN db
           /\ \A t \in DOMAIN db : Validated(db)[t] = db[t] \cap Valid
<1>1. DOMAIN db \subseteq Tenants /\ db \in [DOMAIN db -> Lists]
  BY DatabaseType
<1>2. DOMAIN Validated(db) = DOMAIN db
  BY DEF Validated
<1>3. \A t \in DOMAIN db : Validated(db)[t] = db[t] \cap Valid
  BY DEF Validated
<1>4. Validated(db) \in [DOMAIN db -> Lists]
  BY <1>1 DEF Validated, Lists
<1> QED
  BY <1>1, <1>2, <1>3, <1>4, DatabaseType

\* Approving and undoing: a database again, and what it does to the clause and
\* to the others.
LEMMA ChangeType ==
    ASSUME NEW db \in Databases, NEW c \in Clauses, Default \in DOMAIN db
    PROVE  /\ WithClause(db, c) \in Databases
           /\ DOMAIN WithClause(db, c) = DOMAIN db
           /\ WithClause(db, c)[Default] = db[Default] \cup {c}
           /\ WithoutClause(db, c) \in Databases
           /\ DOMAIN WithoutClause(db, c) = DOMAIN db
           /\ WithoutClause(db, c)[Default] = {d \in db[Default] : ~ SameName(d, c)}
<1>1. DOMAIN db \subseteq Tenants /\ db \in [DOMAIN db -> Lists]
  BY DatabaseType
<1>2. /\ WithClause(db, c) \in [DOMAIN db -> Lists]
      /\ WithClause(db, c)[Default] = db[Default] \cup {c}
  BY <1>1 DEF WithClause, Lists
<1>3. /\ WithoutClause(db, c) \in [DOMAIN db -> Lists]
      /\ WithoutClause(db, c)[Default] = {d \in db[Default] : ~ SameName(d, c)}
  BY <1>1 DEF WithoutClause, Lists
<1>4. DOMAIN WithClause(db, c) = DOMAIN db /\ DOMAIN WithoutClause(db, c) = DOMAIN db
  BY DEF WithClause, WithoutClause
<1> QED
  BY <1>1, <1>2, <1>3, <1>4, DatabaseType

LEMMA QueryType ==
    ASSUME NEW db \in Databases, Default \in DOMAIN db, NEW t \in Tenants
    PROVE  QueryRegulatoryDb(db, t) \in Lists
<1>1. db \in [DOMAIN db -> Lists]
  BY DatabaseType
<1> QED
  BY <1>1 DEF QueryRegulatoryDb

LEMMA TypeFacts ==
    ASSUME TypeOK
    PROVE  /\ file \in Databases /\ api \in Databases /\ agent \in Databases
           /\ custom \in Databases
           /\ torn \in BOOLEAN /\ serving \in BOOLEAN /\ lagging \in BOOLEAN
           /\ cache \in [DOMAIN cache -> Lists] /\ DOMAIN cache \subseteq Docs
BY DEF TypeOK

-----------------------------------------------------------------------------
LEMMA InitInv == ASSUME Init PROVE IInv
<1>1. /\ file \in Databases /\ api \in Databases /\ agent \in Databases
      /\ DOMAIN agent = DOMAIN Shipped
  BY ValidatedType, ClausesAssumption DEF Init
<1>2. custom \in Databases
  <2>1. DOMAIN custom = {} /\ custom \in [DOMAIN custom -> Lists]
    BY DEF Init
  <2> QED
    BY <2>1, DatabaseType
<1>3. cache \in UNION {[ds -> Lists] : ds \in SUBSET Docs}
  <2>1. cache \in [{} -> Lists]
    BY DEF Init
  <2> QED
    BY <2>1
<1>4. TypeOK
  BY <1>1, <1>2, <1>3 DEF Init, TypeOK, Lists
<1>5. Copies
  BY <1>1, ClausesAssumption DEF Init, Copies
<1>6. Applied /\ Judgements
  BY DEF Init, Applied, Judgements
<1> QED
  BY <1>4, <1>5, <1>6 DEF IInv

\* A change of the file on behalf of c, with or without the reload.
LEMMA ChangeInv ==
    ASSUME IInv, NEW c \in Clauses, NEW db \in Databases, Default \in DOMAIN db,
           NEW doing \in {"approving", "undoing"}, serving, Change(c, db, doing),
           swept' \subseteq Clauses, UNCHANGED <<custom, serving, status>>,
           \A d \in Clauses \ {c} : d \notin swept' =>
              d \notin swept /\ (d \in file[Default] => d \in db[Default]),
           doing = "approving" => c \in db[Default]
    PROVE  IInv'
<1>0. /\ officer \in [Clauses -> {"idle", "approving", "undoing"}]
      /\ interrupted \subseteq Clauses
  BY DEF IInv, TypeOK
<1>1. CASE /\ WriteAndReload(db)
           /\ officer' = [officer EXCEPT ![c] = doing]
           /\ UNCHANGED interrupted
  <2>1. /\ file' = db /\ api' = db /\ fresh' = {} /\ version' = version + 1
        /\ UNCHANGED <<torn, run, judged, cache>>
        /\ \/ agent' = Validated(db) /\ lagging' = FALSE
           \/ agent' = agent /\ lagging' = TRUE
    BY <1>1 DEF WriteAndReload
  <2>2. Validated(db) \in Databases /\ DOMAIN Validated(db) = DOMAIN db
    BY ValidatedType
  <2>3. agent' \in Databases /\ Default \in DOMAIN agent' /\ lagging' \in BOOLEAN
    BY <2>1, <2>2, TypeFacts DEF IInv, Copies
  <2>4. TypeOK'
    BY <1>0, <1>1, <2>1, <2>3 DEF IInv, TypeOK
  <2>5. Copies'
    BY <2>1, <2>3 DEF IInv, Copies
  <2>6. ASSUME NEW d \in Clauses \ (interrupted \cup swept'),
               officer'[d] = "approving" \/ (officer'[d] = "idle" /\ status[d] = "approved")
        PROVE  d \in db[Default]
    BY <1>0, <1>1, <2>6 DEF IInv, Applied
  <2>7. Applied'
    BY <1>1, <2>1, <2>6 DEF Applied
  <2>8. Judgements'
    BY <2>1 DEF IInv, Judgements
  <2> QED
    BY <2>4, <2>5, <2>7, <2>8 DEF IInv
<1>2. CASE /\ WriteAndRaise(db)
           /\ interrupted' = interrupted \cup {c}
           /\ UNCHANGED officer
  <2>1. /\ file' = db /\ version' = version + 1
        /\ UNCHANGED <<torn, api, agent, lagging, run, judged, fresh, cache>>
    BY <1>2 DEF WriteAndRaise, work
  <2>2. TypeOK'
    BY <1>0, <1>2, <2>1 DEF IInv, TypeOK
  <2>3. Copies' /\ Judgements'
    BY <2>1 DEF IInv, Copies, Judgements
  <2>4. Applied'
    BY <1>2, <2>1 DEF IInv, Applied
  <2> QED
    BY <2>2, <2>3, <2>4 DEF IInv
<1> QED
  BY <1>1, <1>2 DEF Change

LEMMA InsightInv ==
    ASSUME IInv, NEW c \in Clauses, UNCHANGED <<library, custom, serving, work, swept>>,
           status' \in [Clauses -> {"none", "pending", "approved", "undone"}],
           officer' \in [Clauses -> {"idle", "approving", "undoing"}],
           interrupted \subseteq interrupted', interrupted' \subseteq Clauses,
           \A d \in Clauses : d # c => status'[d] = status[d] /\ officer'[d] = officer[d],
           \/ c \in interrupted'
           \/ officer'[c] = "idle" /\ status'[c] # "approved"
           \/ officer[c] = "approving"
    PROVE  IInv'
<1>1. TypeOK'
  BY DEF library, work, IInv, TypeOK
<1>2. Copies'
  BY DEF library, work, IInv, Copies
<1>3. Applied'
  BY DEF library, IInv, Applied
<1>4. Judgements'
  BY DEF library, work, IInv, Judgements
<1> QED
  BY <1>1, <1>2, <1>3, <1>4 DEF IInv

LEMMA RecommendationInv ==
    ASSUME IInv, NEW c \in Clauses,
           \/ CreateRecommendation(c) \/ ApproveClause(c) \/ UndoClause(c)
           \/ WriteFails(c) \/ MarkRecommendation(c) \/ MarkFails(c)
    PROVE  IInv'
<1>1. /\ status \in [Clauses -> {"none", "pending", "approved", "undone"}]
      /\ officer \in [Clauses -> {"idle", "approving", "undoing"}]
      /\ interrupted \subseteq Clauses /\ swept \subseteq Clauses
      /\ file \in Databases
      /\ Default \in DOMAIN file
  BY DEF IInv, TypeOK, Copies
<1>2. CASE CreateRecommendation(c)
  BY <1>1, <1>2, InsightInv DEF CreateRecommendation
<1>3. CASE ApproveClause(c)
  <2>1. /\ serving /\ Change(c, WithClause(file, c), "approving")
        /\ swept' = swept \ {c} /\ UNCHANGED <<custom, serving, status>>
    BY <1>3 DEF ApproveClause
  <2>2. /\ WithClause(file, c) \in Databases
        /\ Default \in DOMAIN WithClause(file, c)
        /\ WithClause(file, c)[Default] = file[Default] \cup {c}
    BY <1>1, ChangeType
  <2> QED
    BY <1>1, <2>1, <2>2, ChangeInv
<1>4. CASE UndoClause(c)
  <2>1. /\ serving /\ Change(c, WithoutClause(file, c), "undoing")
        /\ swept' = swept \cup Namesakes(c) /\ UNCHANGED <<custom, serving, status>>
    BY <1>4 DEF UndoClause
  <2>2. /\ WithoutClause(file, c) \in Databases
        /\ Default \in DOMAIN WithoutClause(file, c)
        /\ WithoutClause(file, c)[Default] = {d \in file[Default] : ~ SameName(d, c)}
    BY <1>1, ChangeType
  <2>3. swept' \subseteq Clauses
    BY <1>1, <2>1 DEF Namesakes
  <2>4. \A d \in Clauses \ {c} : d \notin swept' =>
           d \notin swept /\ (d \in file[Default] => d \in WithoutClause(file, c)[Default])
    BY <2>1, <2>2 DEF Namesakes
  <2> QED
    BY <2>1, <2>2, <2>3, <2>4, ChangeInv
<1>5. CASE WriteFails(c)
  <2>1. TypeOK'
    BY <1>5 DEF WriteFails, work, insight, IInv, TypeOK
  <2>2. Copies' /\ Applied' /\ Judgements'
    BY <1>5 DEF WriteFails, work, insight, IInv, Copies, Applied, Judgements
  <2> QED
    BY <2>1, <2>2 DEF IInv
<1>6. CASE MarkRecommendation(c)
  <2>1. /\ status' = [status EXCEPT ![c] =
              IF officer[c] = "approving" THEN "approved" ELSE "undone"]
        /\ officer' = [officer EXCEPT ![c] = "idle"]
        /\ UNCHANGED <<library, custom, serving, work, interrupted, swept>>
    BY <1>6 DEF MarkRecommendation
  <2>2. /\ status' \in [Clauses -> {"none", "pending", "approved", "undone"}]
        /\ officer' \in [Clauses -> {"idle", "approving", "undoing"}]
        /\ officer'[c] = "idle"
        /\ officer[c] # "approving" => status'[c] = "undone"
        /\ \A d \in Clauses : d # c => status'[d] = status[d] /\ officer'[d] = officer[d]
    BY <1>1, <2>1
  <2> QED
    BY <1>1, <2>1, <2>2, InsightInv
<1>7. CASE MarkFails(c)
  BY <1>1, <1>7, InsightInv DEF MarkFails
<1> QED
  BY <1>2, <1>3, <1>4, <1>5, <1>6, <1>7

LEMMA PostClausesInv ==
    ASSUME IInv, NEW t \in Tenants, NEW list \in Payloads, PostClauses(t, list)
    PROVE  IInv'
<1>1. custom' \in Databases
  <2>1. custom' = [u \in DOMAIN custom \cup {t} |-> IF u = t THEN list ELSE custom[u]]
    BY DEF PostClauses
  <2>2. DOMAIN custom \subseteq Tenants /\ custom \in [DOMAIN custom -> Lists]
    BY TypeFacts, DatabaseType DEF IInv
  <2>3. list \in Lists
    BY ClausesAssumption DEF Lists
  <2>4. DOMAIN custom' \subseteq Tenants /\ custom' \in [DOMAIN custom' -> Lists]
    BY <2>1, <2>2, <2>3
  <2> QED
    BY <2>4, DatabaseType
<1>2. TypeOK'
  BY <1>1 DEF PostClauses, library, work, insight, IInv, TypeOK
<1>3. Copies' /\ Applied' /\ Judgements'
  BY DEF PostClauses, library, work, insight, IInv, Copies, Applied, Judgements
<1> QED
  BY <1>2, <1>3 DEF IInv

\* A run's steps leave the library alone.
LEMMA RunInv ==
    ASSUME IInv, UNCHANGED <<library, custom, serving, insight>>,
           run' \in [Runs -> {"idle", "begun", "judged"}],
           judged' \in [Runs -> Lists], fresh' \subseteq Runs,
           cache' \in UNION {[ds -> Lists] : ds \in SUBSET Docs},
           Judgements'
    PROVE  IInv'
<1>1. TypeOK'
  BY DEF library, insight, IInv, TypeOK
<1>2. Copies' /\ Applied'
  BY DEF library, insight, IInv, Copies, Applied
<1> QED
  BY <1>1, <1>2 DEF IInv

LEMMA CacheType ==
    ASSUME NEW ds, ds \subseteq Docs, NEW f \in [ds -> Lists]
    PROVE  f \in UNION {[es -> Lists] : es \in SUBSET Docs}
OBVIOUS

LEMMA RunStepInv ==
    ASSUME IInv, NEW r \in Runs,
           BeginRun(r) \/ Judge(r) \/ EndRun(r) \/ RunFails(r)
    PROVE  IInv'
<1> DEFINE d == DocOf[r]
<1>1. /\ run \in [Runs -> {"idle", "begun", "judged"}]
      /\ judged \in [Runs -> Lists]
      /\ fresh \subseteq Runs
      /\ cache \in [DOMAIN cache -> Lists] /\ DOMAIN cache \subseteq Docs
      /\ cache \in UNION {[ds -> Lists] : ds \in SUBSET Docs}
      /\ d \in Docs /\ TenantOf[d] \in Tenants
  BY TypeFacts, RunsAssumption DEF IInv, TypeOK
<1>2. CASE BeginRun(r)
  <2>1. /\ run' = [run EXCEPT ![r] = "begun"] /\ fresh' = fresh \cup {r}
        /\ cache' = [e \in DOMAIN cache \ {d} |-> cache[e]] /\ serving
        /\ UNCHANGED <<library, custom, serving, insight, judged>>
    BY <1>2 DEF BeginRun, Without
  <2>2. cache' \in UNION {[ds -> Lists] : ds \in SUBSET Docs}
    <3>1. cache' \in [DOMAIN cache \ {d} -> Lists] /\ DOMAIN cache \ {d} \subseteq Docs
      BY <1>1, <2>1
    <3> QED
      BY <3>1, CacheType
  <2>3. Judgements'
    BY <1>1, <2>1 DEF library, IInv, Judgements
  <2> QED
    BY <1>1, <2>1, <2>2, <2>3, RunInv
<1>3. CASE Judge(r)
  <2>1. /\ run[r] = "begun" /\ run' = [run EXCEPT ![r] = "judged"]
        /\ judged' = [judged EXCEPT ![r] = QueryRegulatoryDb(agent, TenantOf[d])]
        /\ UNCHANGED <<library, custom, serving, insight, fresh, cache>>
    BY <1>3 DEF Judge
  <2>2. QueryRegulatoryDb(agent, TenantOf[d]) \in Lists
    BY <1>1, QueryType, TypeFacts DEF IInv, Copies
  <2>3. Judgements'
    BY <1>1, <2>1 DEF library, IInv, Judgements
  <2> QED
    BY <1>1, <2>1, <2>2, <2>3, RunInv
<1>4. CASE EndRun(r)
  <2>1. /\ run' = [run EXCEPT ![r] = "idle"] /\ fresh' = fresh \ {r}
        /\ cache' = [e \in DOMAIN cache \cup {d} |->
                        IF e = d THEN judged[r] ELSE cache[e]]
        /\ judged' = [judged EXCEPT ![r] = {}]
        /\ UNCHANGED <<library, custom, serving, insight>>
    BY <1>4 DEF EndRun
  <2>2. cache' \in UNION {[ds -> Lists] : ds \in SUBSET Docs}
    <3>1. cache' \in [DOMAIN cache \cup {d} -> Lists]
          /\ DOMAIN cache \cup {d} \subseteq Docs
      BY <1>1, <2>1
    <3> QED
      BY <3>1, CacheType
  <2>3. Judgements'
    BY <1>1, <2>1 DEF library, IInv, Judgements
  <2> QED
    BY <1>1, <2>1, <2>2, <2>3, RunInv DEF Lists
<1>5. CASE RunFails(r)
  <2>1. /\ run' = [run EXCEPT ![r] = "idle"] /\ fresh' = fresh \ {r}
        /\ judged' = [judged EXCEPT ![r] = {}]
        /\ UNCHANGED <<library, custom, serving, insight, cache>>
    BY <1>5 DEF RunFails
  <2>2. Judgements'
    BY <1>1, <2>1 DEF library, IInv, Judgements
  <2> QED
    BY <1>1, <2>1, <2>2, RunInv DEF Lists
<1> QED
  BY <1>2, <1>3, <1>4, <1>5

LEMMA CrashInv == ASSUME IInv, Crash PROVE IInv'
<1>1. /\ serving' = FALSE /\ run' = [r \in Runs |-> "idle"]
      /\ judged' = [r \in Runs |-> {}] /\ fresh' = {}
      /\ officer' = [c \in Clauses |-> "idle"]
      /\ interrupted' = interrupted \cup {c \in Clauses : officer[c] # "idle"}
      /\ UNCHANGED <<library, custom, cache, status, swept>>
  BY DEF Crash
<1>2. TypeOK'
  BY <1>1 DEF library, IInv, TypeOK, Lists
<1>3. Copies' /\ Applied' /\ Judgements'
  BY <1>1 DEF library, IInv, Copies, Applied, Judgements
<1> QED
  BY <1>2, <1>3 DEF IInv

LEMMA StartInv == ASSUME IInv, Start PROVE IInv'
<1>1. /\ ~ serving /\ serving' = TRUE /\ api' = file /\ agent' = Validated(file)
      /\ lagging' = FALSE
      /\ UNCHANGED <<file, torn, version, custom, work, insight>>
  BY DEF Start
<1>2. Validated(file) \in Databases /\ DOMAIN Validated(file) = DOMAIN file
  BY ValidatedType, TypeFacts DEF IInv
<1>3. TypeOK'
  BY <1>1, <1>2 DEF work, insight, IInv, TypeOK
<1>4. Copies'
  BY <1>1, <1>2 DEF IInv, Copies
<1>5. Applied' /\ Judgements'
  BY <1>1 DEF work, insight, IInv, Applied, Judgements, TypeOK
<1> QED
  BY <1>3, <1>4, <1>5 DEF IInv

LEMMA NextInv == ASSUME IInv, [Next]_vars PROVE IInv'
<1>1. CASE UNCHANGED vars
  <2>1. TypeOK'
    BY <1>1 DEF vars, IInv, TypeOK
  <2>2. Copies' /\ Applied' /\ Judgements'
    BY <1>1 DEF vars, IInv, Copies, Applied, Judgements
  <2> QED
    BY <2>1, <2>2 DEF IInv
<1> QED
  BY <1>1, RecommendationInv, PostClausesInv, RunStepInv, CrashInv, StartInv DEF Next

-----------------------------------------------------------------------------
\* The two ways to look a tenant up agree on copies that agree.
LEMMA IInvShown == ASSUME IInv PROVE ShownIsUsed
<1> SUFFICES ASSUME NEW t \in Tenants \ DOMAIN custom, serving, ~ lagging,
                    NEW list \in LoadTenantClauses(t)
             PROVE  QueryRegulatoryDb(agent, t) = list \cap Valid
  BY DEF ShownIsUsed
<1>1. agent = Validated(api) /\ api \in Databases
  BY TypeFacts DEF IInv, Copies
<1>2. DOMAIN agent = DOMAIN api
      /\ \A u \in DOMAIN api : agent[u] = api[u] \cap Valid
  BY <1>1, ValidatedType
<1> QED
  BY <1>2 DEF LoadTenantClauses, QueryRegulatoryDb

LEMMA IInvApproved == ASSUME IInv PROVE ApprovedIsApplied
<1> SUFFICES ASSUME NEW c \in Clauses, status[c] = "approved", officer[c] = "idle",
                    c \notin interrupted \cup swept, serving, ~ lagging
             PROVE  c \in agent[Default] <=> c \in Valid
  BY DEF ApprovedIsApplied
<1>1. c \in api[Default] /\ agent = Validated(api)
      /\ api \in Databases /\ Default \in DOMAIN api
  BY TypeFacts DEF IInv, Copies, Applied
<1>2. agent[Default] = api[Default] \cap Valid
  BY <1>1, ValidatedType
<1> QED
  BY <1>1, <1>2

\* The file, its two copies, the statuses, the runs and the cache keep their
\* types (routes.py, compliance_agent.py).
THEOREM TypeCorrect == Spec => []TypeOK
<1>1. Init => IInv
  BY InitInv
<1>2. IInv /\ [Next]_vars => IInv'
  BY NextInv
<1>3. IInv => TypeOK
  BY DEF IInv
<1> QED
  BY <1>1, <1>2, <1>3, PTL DEF Spec

\* What the API shows is what analyses check for.
THEOREM ShownUsed == Spec => []ShownIsUsed
<1>1. Init => IInv
  BY InitInv
<1>2. IInv /\ [Next]_vars => IInv'
  BY NextInv
<1>3. IInv => ShownIsUsed
  BY IInvShown
<1> QED
  BY <1>1, <1>2, <1>3, PTL DEF Spec

\* An approved clause is checked for if and only if it validates, but for one
\* that went with a namesake that somebody undid.
THEOREM ApprovedApplied == Spec => []ApprovedIsApplied
<1>1. Init => IInv
  BY InitInv
<1>2. IInv /\ [Next]_vars => IInv'
  BY NextInv
<1>3. IInv => ApprovedIsApplied
  BY IInvApproved
<1> QED
  BY <1>1, <1>2, <1>3, PTL DEF Spec

\* A refreshed verdict is under the list in force.
THEOREM RefreshedCurrent == Spec => RefreshedIsCurrent
<1> DEFINE Refresh ==
        \A r \in Runs :
          EndRun(r) /\ r \in fresh /\ ~ lagging =>
              cache'[DocOf[r]] =
                  QueryRegulatoryDb(Validated(api), TenantOf[DocOf[r]])
<1>1. Init => IInv
  BY InitInv
<1>2. IInv /\ [Next]_vars => IInv'
  BY NextInv
<1>3. IInv /\ [Next]_vars => [Refresh]_vars
  <2> SUFFICES ASSUME IInv, NEW r \in Runs, EndRun(r), r \in fresh, ~ lagging
               PROVE  cache'[DocOf[r]] =
                         QueryRegulatoryDb(Validated(api), TenantOf[DocOf[r]])
    OBVIOUS
  <2>1. run[r] = "judged" /\ cache'[DocOf[r]] = judged[r]
    BY DEF EndRun
  <2>2. serving /\ agent = Validated(api)
    BY <2>1 DEF IInv, Judgements, Copies
  <2> QED
    BY <2>1, <2>2 DEF IInv, Judgements
<1> QED
  BY <1>1, <1>2, <1>3, PTL DEF Spec, RefreshedIsCurrent

=============================================================================
